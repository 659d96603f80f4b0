----------------------------- MODULE SockIoProofs -----------------------------
(***************************************************************************)
(* Proofs about W5100Sock and SockIo: for any size of a byte, of a buffer  *)
(* and of the pointers, as long as the buffer divides the range of the     *)
(* pointers, and for heads and files of any length.                        *)
(***************************************************************************)
EXTENDS SockIo, SequenceTheorems, TLAPS

Values == Pages \cup Offsets \cup {NoByte}

(* Where the j-th byte behind the pointer a lies. *)
CellAt(a, j) == (a + j) % RING

(* The parts of the type invariant: the chip, w5100.c and its callers.     *)
ChipTypeOK ==
    /\ dir \in {"read", "write"}
    /\ mem \in [0 .. (RING - 1) -> Values]
    /\ latched \in Pages /\ net \in Pages

CallTypeOK ==
    /\ ptr \in Pointer /\ addr \in Pointer
    /\ pc \in {"idle", "low", "high", "ptr", "copy", "ret", "status", "next",
               "drain", "drain_high", "drain_low", "drain_commit", "drained"}
    /\ req \in 0 .. CHUNK /\ n \in 0 .. CHUNK /\ len \in 0 .. CHUNK
    /\ low \in 0 .. CHUNK /\ high \in 0 .. PAGES
    /\ Len(out) <= CHUNK /\ Len(buf) <= CHUNK

IoTypeOK ==
    /\ sr \in {"ESTABLISHED", "FIN_WAIT", "ENDED"}
    /\ task \in {"none", "read", "head", "rom", "mmc", "closing"}
    /\ left \in Offsets /\ off \in Offsets
    /\ cut \in BOOLEAN

(* The chip: the bytes that wait lie behind each other, and no more than   *)
(* there is room for.  The pointer of the program is the chip's.           *)
ChipInv ==
    /\ Used <= RING
    /\ Value(ptr) = latched
    /\ out \in Seq(Values)

(* A call of w5100_sock_rw().  What was read of a size in two accesses is  *)
(* no more than the size that the chip has now: what is copied is there,   *)
(* or there is room for it.                                                *)
InRw == pc \in {"low", "high", "ptr", "copy"}
Done == n - len

SizeInv ==
    /\ pc = "high" => low < req /\ low <= Size
    /\ pc \in {"ptr", "copy"} => n > 0 /\ n <= req /\ n <= Size /\ len <= n
    /\ pc = "ptr" => len = n
    /\ pc = "ret" => n <= req

CopyInv ==
    /\ buf \in Seq(Values)
    /\ pc = "copy" => Value(addr) = (latched + Done) % WRAP
    /\ InRw /\ dir = "write" => Len(buf) = req
    /\ dir = "read" => Len(buf) = IF pc = "copy" THEN Done ELSE 0
    /\ pc = "copy" =>
          \A i \in 1 .. Done : buf[i] = mem[CellAt(latched, i - 1)]

(* w5100_drain(): what it is going to drop has arrived.                    *)
Draining == pc \in {"drain", "drain_high", "drain_low", "drain_commit"}
DrainInv ==
    /\ Draining => dir = "read"
    /\ pc \in {"drain_high", "drain_low", "drain_commit"} => addr = ptr
    /\ pc = "drain_low" => high * BYTE <= Size
    /\ pc = "drain_commit" => high * BYTE + low <= Size

(* The callers: a response does not go past its head, or past its head and *)
(* its file, and what waits to be sent has been counted.  A write is cut   *)
(* short only if the buffer is full.                                       *)
Room == IF task = "head" THEN Heads ELSE Totals

TaskInv ==
    /\ task = "read" => dir = "read"
    /\ Sending => dir = "write"
    /\ InRw \/ pc \in {"ret", "status"} => task = "read" \/ Sending
    /\ pc = "next" => Sending
    /\ Sending =>
          \E t \in Room : off + left + (IF pc = "next" THEN 0 ELSE req) <= t

FitInv ==
    /\ dir = "write" => Used <= off + IF pc = "ret" THEN n ELSE 0
    /\ pc = "high" /\ dir = "write" /\ Size < BYTE => off + low >= RING
    /\ pc \in {"ptr", "copy", "ret"} /\ dir = "write" /\ n # 0 /\ n < req => off + req > RING
    /\ FitsIsWhole

TypesOK == ChipTypeOK /\ CallTypeOK /\ IoTypeOK
IInv == TypesOK /\ ChipInv /\ SizeInv /\ CopyInv /\ DrainInv /\ TaskInv /\ FitInv
QueueStep == Queue!Next \/ UNCHANGED << Waiting, out >>
-----------------------------------------------------------------------------
(* Quotients and remainders.                                               *)
LEMMA Unique ==
    ASSUME NEW q \in Int, NEW r \in Nat, NEW p \in Int, NEW s \in Nat, NEW d \in Nat \ {0},
           r < d, s < d, q * d + r = p * d + s
    PROVE  q = p /\ r = s
OBVIOUS

LEMMA Remainder ==
    ASSUME NEW q \in Nat, NEW r \in Nat, NEW d \in Nat \ {0}, r < d
    PROVE  (q * d + r) % d = r /\ (q * d + r) \div d = q
OBVIOUS

LEMMA Divided ==
    ASSUME NEW a \in Nat, NEW d \in Nat \ {0}
    PROVE  a % d \in 0 .. (d - 1) /\ a \div d \in Nat /\ a = (a \div d) * d + (a % d)
OBVIOUS

LEMMA ModMod ==
    ASSUME NEW a \in Nat, NEW d \in Nat \ {0}, NEW k \in Nat \ {0}
    PROVE  (a % (k * d)) % d = a % d
<1> DEFINE e == k * d
          q == a \div e
          r == a % e
          p == r \div d
          s == r % d
<1>1. e \in Nat \ {0}
  OBVIOUS
<1>2. r \in Nat /\ q \in Nat /\ a = q * e + r
  <2> HIDE DEF e
  <2> QED BY <1>1, Divided
<1>3. s \in 0 .. (d - 1) /\ p \in Nat /\ r = p * d + s
  BY <1>2, Divided
<1> HIDE DEF q, r, p, s
<1>4. a = (q * k + p) * d + s
  BY <1>2, <1>3
<1>5. q * k + p \in Nat
  BY <1>2, <1>3
<1>6. a % d = s
  BY <1>3, <1>4, <1>5, Remainder
<1> QED BY <1>6 DEF s, r

LEMMA ModAdd ==
    ASSUME NEW a \in Nat, NEW b \in Nat, NEW d \in Nat \ {0}
    PROVE  ((a % d) + b) % d = (a + b) % d
<1> DEFINE q == a \div d
          r == a % d
          p == (r + b) \div d
          s == (r + b) % d
<1>2. r \in Nat /\ q \in Nat /\ a = q * d + r
  BY Divided
<1>3. s \in 0 .. (d - 1) /\ p \in Nat /\ r + b = p * d + s
  <2>1. r + b \in Nat
    BY <1>2
  <2> QED BY <2>1, Divided
<1> HIDE DEF q, r, p, s
<1>4. a + b = (q + p) * d + s
  BY <1>2, <1>3
<1>5. q + p \in Nat
  BY <1>2, <1>3
<1>6. (a + b) % d = s
  BY <1>3, <1>4, <1>5, Remainder
<1> QED BY <1>6 DEF s, r

LEMMA Apart ==
    ASSUME NEW a \in Nat, NEW d \in Nat \ {0}, NEW i \in 0 .. (d - 1), NEW j \in 0 .. (d - 1),
           (a + i) % d = (a + j) % d
    PROVE  i = j
<1> DEFINE p == (a + i) \div d
           q == (a + j) \div d
           s == (a + i) % d
<1>1. p \in Nat /\ s \in Nat /\ a + i = p * d + s
  <2> DEFINE x == a + i
  <2>1. x \in Nat
    OBVIOUS
  <2> HIDE DEF x
  <2>2. (x % d) \in Nat /\ (x \div d) \in Nat /\ x = (x \div d) * d + (x % d)
    BY <2>1, Divided
  <2> QED BY <2>2 DEF x
<1>2. q \in Nat /\ a + j = q * d + s
  <2> DEFINE x == a + j
  <2>1. x \in Nat
    OBVIOUS
  <2> HIDE DEF x
  <2>2. (x % d) \in Nat /\ (x \div d) \in Nat /\ x = (x \div d) * d + (x % d)
    BY <2>1, Divided
  <2> QED BY <2>2 DEF x
<1> HIDE DEF p, q, s
<1>3. 0 * d + i = (p - q) * d + j
  BY <1>1, <1>2
<1>4. p - q \in Int
  BY <1>1, <1>2
<1> QED BY <1>3, <1>4, Unique

(* The ring and the range of the pointers.                                 *)
LEMMA Rings ==
    /\ RING \in Nat \ {0} /\ WRAP \in Nat \ {0} /\ RING < WRAP /\ BYTE <= RING
    /\ \E m \in Nat \ {0} : WRAP = m * RING
<1>1. BYTE \in Nat \ {0} /\ PAGES \in Nat \ {0} /\ HIGHS \in Nat \ {0} /\ PAGES < HIGHS /\ HIGHS % PAGES = 0
  BY SockAssumption
<1>2. RING \in Nat \ {0} /\ WRAP \in Nat \ {0} /\ RING < WRAP /\ BYTE <= RING
  BY <1>1 DEF RING, WRAP
<1> DEFINE m == HIGHS \div PAGES
<1>3. m \in Nat /\ HIGHS = m * PAGES
  <2>1. m \in Nat /\ HIGHS = m * PAGES + (HIGHS % PAGES)
    BY <1>1, Divided
  <2> HIDE DEF m
  <2> QED BY <1>1, <2>1
<1> HIDE DEF m
<1>4. WRAP = m * RING
  BY <1>1, <1>3 DEF RING, WRAP
<1>5. m # 0
  BY <1>1, <1>3
<1> QED BY <1>2, <1>3, <1>4, <1>5

LEMMA Wrapped ==
    ASSUME NEW w \in Nat \ {0}, NEW x \in 0 .. (2 * w - 1)
    PROVE  x % w = IF x < w THEN x ELSE x - w
<1>1. CASE x < w
  BY <1>1
<1>2. CASE x >= w
  <2>1. 1 * w + (x - w) = x /\ x - w \in Nat /\ x - w < w
    BY <1>2
  <2> QED BY <1>2, <2>1, Remainder
<1> QED BY <1>1, <1>2

LEMMA Distances ==
    ASSUME NEW a \in Pages, NEW b \in Pages
    PROVE  /\ Distance(a, b) = IF a <= b THEN b - a ELSE b + WRAP - a
           /\ Distance(a, b) \in 0 .. (WRAP - 1)
<1>1. WRAP \in Nat \ {0} /\ a \in 0 .. (WRAP - 1) /\ b \in 0 .. (WRAP - 1)
  BY Rings DEF Pages
<1> DEFINE x == b + WRAP - a
<1>2. x \in 0 .. (2 * WRAP - 1)
  BY <1>1
<1>3. Distance(a, b) = x % WRAP
  BY DEF Distance
<1> HIDE DEF x
<1>4. Distance(a, b) = IF x < WRAP THEN x ELSE x - WRAP
  BY <1>1, <1>2, <1>3, Wrapped
<1> QED BY <1>1, <1>4 DEF x

(* A pointer moves by k: the distance to the other one changes by k.       *)
LEMMA Moved ==
    ASSUME NEW a \in Pages, NEW k \in 0 .. (WRAP - 1)
    PROVE  /\ (a + k) % WRAP \in Pages
           /\ (a + k) % WRAP = IF a + k < WRAP THEN a + k ELSE a + k - WRAP
           /\ Distance(a, (a + k) % WRAP) = k
<1>1. WRAP \in Nat \ {0} /\ a \in 0 .. (WRAP - 1) /\ a + k \in 0 .. (2 * WRAP - 1)
  BY Rings DEF Pages
<1> DEFINE x == a + k
           b == x % WRAP
<1> HIDE DEF x
<1>2. b = IF x < WRAP THEN x ELSE x - WRAP
  BY <1>1, Wrapped DEF x
<1> HIDE DEF b
<1>3. b \in Pages
  BY <1>1, <1>2 DEF Pages, x
<1>4. Distance(a, b) = k
  BY <1>1, <1>2, <1>3, Distances DEF x
<1>5. (a + k) % WRAP = b
  BY DEF b, x
<1>6. b = IF a + k < WRAP THEN a + k ELSE a + k - WRAP
  BY <1>1, <1>2 DEF x
<1> QED BY <1>3, <1>4, <1>5, <1>6

LEMMA MovedTowards ==
    ASSUME NEW a \in Pages, NEW b \in Pages, NEW k \in 0 .. Distance(a, b)
    PROVE  /\ (a + k) % WRAP \in Pages /\ Distance((a + k) % WRAP, b) = Distance(a, b) - k
<1>1. WRAP \in Nat \ {0} /\ a \in 0 .. (WRAP - 1) /\ b \in 0 .. (WRAP - 1)
  BY Rings DEF Pages
<1>2. Distance(a, b) = (IF a <= b THEN b - a ELSE b + WRAP - a) /\ k \in 0 .. (WRAP - 1)
  BY <1>1, Distances
<1>3. /\ (a + k) % WRAP \in Pages
      /\ (a + k) % WRAP = IF a + k < WRAP THEN a + k ELSE a + k - WRAP
  BY <1>2, Moved
<1> DEFINE c == (a + k) % WRAP
<1> HIDE DEF c
<1>4. c \in 0 .. (WRAP - 1) /\ c = IF a + k < WRAP THEN a + k ELSE a + k - WRAP
  BY <1>3 DEF c, Pages
<1>5. Distance(c, b) = IF c <= b THEN b - c ELSE b + WRAP - c
  BY <1>4, Distances DEF Pages
<1>6. Distance(c, b) = Distance(a, b) - k
  BY <1>1, <1>2, <1>4, <1>5
<1> QED BY <1>3, <1>6 DEF c

LEMMA MovedAway ==
    ASSUME NEW a \in Pages, NEW b \in Pages, NEW k \in Nat, Distance(a, b) + k < WRAP
    PROVE  /\ (b + k) % WRAP \in Pages /\ Distance(a, (b + k) % WRAP) = Distance(a, b) + k
<1>1. WRAP \in Nat \ {0} /\ a \in 0 .. (WRAP - 1) /\ b \in 0 .. (WRAP - 1)
  BY Rings DEF Pages
<1>2. /\ Distance(a, b) = (IF a <= b THEN b - a ELSE b + WRAP - a)
      /\ Distance(a, b) \in 0 .. (WRAP - 1) /\ k \in 0 .. (WRAP - 1)
  BY <1>1, Distances
<1>3. /\ (b + k) % WRAP \in Pages
      /\ (b + k) % WRAP = IF b + k < WRAP THEN b + k ELSE b + k - WRAP
  BY <1>2, Moved
<1> DEFINE c == (b + k) % WRAP
<1> HIDE DEF c
<1>4. c \in 0 .. (WRAP - 1) /\ c = IF b + k < WRAP THEN b + k ELSE b + k - WRAP
  BY <1>3 DEF c, Pages
<1>5. Distance(a, c) = IF a <= c THEN c - a ELSE c + WRAP - a
  BY <1>4, Distances DEF Pages
<1>6. Distance(a, c) = Distance(a, b) + k
  BY <1>1, <1>2, <1>4, <1>5
<1> QED BY <1>3, <1>6 DEF c

(* A pointer that has wrapped points to the same cell.                     *)
LEMMA WrapKeepsCell ==
    ASSUME NEW x \in Nat, NEW j \in Nat
    PROVE  /\ CellAt(x % WRAP, j) = CellAt(x, j)
           /\ CellAt(x, j) \in 0 .. (RING - 1)
           /\ (x % WRAP) % RING = x % RING
<1>1. RING \in Nat \ {0} /\ WRAP \in Nat \ {0}
  BY Rings
<1>2. PICK m \in Nat \ {0} : WRAP = m * RING
  BY Rings
<1>3. (x % WRAP) % RING = x % RING
  BY <1>1, <1>2, ModMod
<1> DEFINE y == x % WRAP
<1>4. y \in Nat
  BY <1>1
<1> HIDE DEF y
<1>5. ((y % RING) + j) % RING = (y + j) % RING /\ ((x % RING) + j) % RING = (x + j) % RING
  BY <1>1, <1>4, ModAdd
<1>6. y % RING = x % RING
  BY <1>3 DEF y
<1>7. (y + j) % RING = (x + j) % RING
  BY <1>5, <1>6
<1>8. CellAt(x % WRAP, j) = CellAt(x, j)
  BY <1>7 DEF CellAt, y
<1>9. (x + j) % RING \in 0 .. (RING - 1)
  <2>1. x + j \in Nat
    OBVIOUS
  <2> QED BY <1>1, <2>1, Divided
<1> QED BY <1>3, <1>8, <1>9 DEF CellAt

(* A pointer is kept as two bytes.                                         *)
LEMMA Pointers ==
    ASSUME NEW p \in Pointer
    PROVE  Value(p) \in Pages /\ Cell(p) = Value(p) % RING
<1>1. /\ BYTE \in Nat \ {0, 1} /\ PAGES \in Nat \ {0} /\ HIGHS \in Nat /\ HIGHS > PAGES
      /\ p.h \in 0 .. (HIGHS - 1) /\ p.l \in 0 .. (BYTE - 1)
  BY SockAssumption DEF Pointer
<1>2. Value(p) \in Pages
  <2>1. p.h * BYTE <= (HIGHS - 1) * BYTE
    BY <1>1
  <2> QED BY <1>1, <2>1 DEF Value, Pages, WRAP
<1> DEFINE q == p.h \div PAGES
           r == p.h % PAGES
<1>3. q \in Nat /\ r \in 0 .. (PAGES - 1) /\ p.h = q * PAGES + r
  <2> DEFINE a == p.h
  <2>1. a \in Nat
    BY <1>1
  <2> HIDE DEF a
  <2>2. (a \div PAGES) \in Nat /\ (a % PAGES) \in 0 .. (PAGES - 1) /\ a = (a \div PAGES) * PAGES + (a % PAGES)
    BY <1>1, <2>1, Divided
  <2> QED BY <2>2 DEF a
<1>4. Cell(p) = r * BYTE + p.l
  BY DEF Cell
<1> HIDE DEF q, r
<1>5. Value(p) = q * RING + (r * BYTE + p.l)
  BY <1>1, <1>3 DEF Value, RING
<1>6. r * BYTE + p.l \in Nat /\ r * BYTE + p.l < RING
  <2>1. r * BYTE <= (PAGES - 1) * BYTE
    BY <1>1, <1>3
  <2> QED BY <1>1, <1>3, <2>1 DEF RING
<1>7. RING \in Nat \ {0}
  BY Rings
<1>8. Value(p) % RING = r * BYTE + p.l
  <2> DEFINE c == r * BYTE + p.l
  <2> HIDE DEF c
  <2>1. c \in Nat /\ c < RING /\ Value(p) = q * RING + c
    BY <1>5, <1>6 DEF c
  <2>2. (q * RING + c) % RING = c
    BY <1>3, <1>7, <2>1, Remainder
  <2> QED BY <2>1, <2>2 DEF c
<1> QED BY <1>2, <1>4, <1>8

LEMMA NextAddress ==
    ASSUME NEW p \in Pointer
    PROVE  Advanced(p) \in Pointer /\ Value(Advanced(p)) = (Value(p) + 1) % WRAP
<1>1. /\ BYTE \in Nat \ {0, 1} /\ HIGHS \in Nat \ {0} /\ p.h \in 0 .. (HIGHS - 1) /\ p.l \in 0 .. (BYTE - 1)
      /\ WRAP = HIGHS * BYTE
  BY SockAssumption DEF Pointer, WRAP
<1>2. (Value(p) + 1) % WRAP = IF Value(p) + 1 < WRAP THEN Value(p) + 1 ELSE Value(p) + 1 - WRAP
  <2>1. 1 \in 0 .. (WRAP - 1)
    BY Rings
  <2> QED BY <2>1, Pointers, Moved
<1>3. CASE p.l < BYTE - 1
  <2>1. (p.l + 1) % BYTE = p.l + 1
    BY <1>1, <1>3
  <2>2. Advanced(p) = [l |-> p.l + 1, h |-> p.h]
    BY <1>1, <1>3, <2>1 DEF Advanced
  <2>3. p.h * BYTE <= (HIGHS - 1) * BYTE
    BY <1>1
  <2>4. Value(p) + 1 < WRAP
    BY <1>1, <1>3, <2>3 DEF Value
  <2> QED BY <1>1, <1>2, <1>3, <2>2, <2>4 DEF Value, Pointer
<1>4. CASE p.l = BYTE - 1
  <2>1. (p.l + 1) % BYTE = 0
    BY <1>1, <1>4
  <2>2. CASE p.h < HIGHS - 1
    <3>1. (p.h + 1) % HIGHS = p.h + 1
      BY <1>1, <2>2
    <3>2. Advanced(p) = [l |-> 0, h |-> p.h + 1]
      BY <1>4, <2>1, <3>1 DEF Advanced
    <3>3. Value(p) + 1 = (p.h + 1) * BYTE
      BY <1>1, <1>4 DEF Value
    <3>4. (p.h + 1) * BYTE <= (HIGHS - 1) * BYTE
      BY <1>1, <2>2
    <3>5. Value(p) + 1 < WRAP
      BY <1>1, <3>3, <3>4
    <3> QED BY <1>1, <1>2, <2>2, <3>2, <3>3, <3>5 DEF Value, Pointer
  <2>3. CASE p.h = HIGHS - 1
    <3>1. (p.h + 1) % HIGHS = 0
      BY <1>1, <2>3
    <3>2. Advanced(p) = [l |-> 0, h |-> 0]
      BY <1>4, <2>1, <3>1 DEF Advanced
    <3>3. Value(p) + 1 = WRAP
      BY <1>1, <1>4, <2>3 DEF Value
    <3> QED BY <1>1, <1>2, <3>2, <3>3 DEF Value, Pointer
  <2> QED BY <1>1, <2>2, <2>3
<1> QED BY <1>1, <1>3, <1>4

LEMMA PointerBack ==
    ASSUME NEW x \in Nat
    PROVE  PointerOf(x) \in Pointer /\ Value(PointerOf(x)) = x % WRAP
<1>1. BYTE \in Nat \ {0, 1} /\ HIGHS \in Nat \ {0} /\ WRAP = HIGHS * BYTE /\ WRAP \in Nat \ {0}
  BY SockAssumption, Rings DEF WRAP
<1> DEFINE y == x % WRAP
<1>2. y \in 0 .. (WRAP - 1)
  BY <1>1
<1>3. y % BYTE = x % BYTE
  BY <1>1, ModMod
<1> HIDE DEF y
<1>4. (y \div BYTE) \in Nat /\ (y % BYTE) \in 0 .. (BYTE - 1) /\ y = (y \div BYTE) * BYTE + (y % BYTE)
  <2>1. BYTE \in Nat \ {0} /\ y \in Nat
    BY <1>1, <1>2
  <2> QED BY <2>1, Divided
<1>5. (y \div BYTE) < HIGHS
  <2> DEFINE q == y \div BYTE
  <2> HIDE DEF q
  <2>1. q \in Nat /\ q * BYTE <= y
    BY <1>1, <1>2, <1>4 DEF q
  <2>2. SUFFICES ASSUME q >= HIGHS PROVE FALSE
    BY <1>1, <2>1 DEF q
  <2>3. q * BYTE >= HIGHS * BYTE
    BY <1>1, <2>1, <2>2
  <2> QED BY <1>1, <1>2, <2>1, <2>3
<1>6. PointerOf(x) = [h |-> y \div BYTE, l |-> y % BYTE]
  BY <1>3 DEF PointerOf, y
<1>7. PointerOf(x).h = y \div BYTE /\ PointerOf(x).l = y % BYTE
  BY <1>6
<1>8. Value(PointerOf(x)) = y
  BY <1>4, <1>7 DEF Value
<1> QED BY <1>1, <1>4, <1>5, <1>6, <1>8 DEF Pointer, y
-----------------------------------------------------------------------------
(* The chip.                                                               *)
LEMMA UsedBytes ==
    ASSUME ChipTypeOK
    PROVE  /\ First \in Pages /\ Last \in Pages /\ First \in Nat
           /\ Used \in 0 .. (WRAP - 1) /\ Used \in Nat
           /\ (First + Used) % WRAP = Last
<1>1. First \in Pages /\ Last \in Pages
  BY DEF ChipTypeOK, First, Last
<1>2. Used \in 0 .. (WRAP - 1)
  BY <1>1, Distances DEF Used
<1> DEFINE a == First
           b == Last
           u == Used
<1>3. u = IF a <= b THEN b - a ELSE b + WRAP - a
  BY <1>1, Distances DEF Used
<1> HIDE DEF a, b, u
<1>4. (a + u) % WRAP = IF a + u < WRAP THEN a + u ELSE a + u - WRAP
  BY <1>1, <1>2, Moved DEF a, u
<1>5. a \in 0 .. (WRAP - 1) /\ b \in 0 .. (WRAP - 1) /\ WRAP \in Nat
  BY <1>1, Rings DEF a, b, Pages
<1>6. (a + u) % WRAP = b
  BY <1>3, <1>4, <1>5
<1> QED BY <1>1, <1>2, <1>5, <1>6 DEF a, b, u

(* The cells of a buffer's worth of bytes are all different.               *)
LEMMA Cells ==
    ASSUME NEW a \in Nat, NEW i \in 0 .. (RING - 1), NEW j \in 0 .. (RING - 1)
    PROVE  /\ CellAt(a, i) \in 0 .. (RING - 1)
           /\ CellAt(a, i) = CellAt(a, j) => i = j
<1>1. RING \in Nat \ {0} /\ a + i \in Nat
  BY Rings
<1>2. (a + i) % RING \in 0 .. (RING - 1)
  <2> DEFINE x == a + i
  <2> HIDE DEF x
  <2>1. x % RING \in 0 .. (RING - 1)
    BY <1>1, Divided DEF x
  <2> QED BY <2>1 DEF x
<1>3. (a + i) % RING = (a + j) % RING => i = j
  BY <1>1, Apart
<1> QED BY <1>2, <1>3 DEF CellAt

LEMMA WaitingBytes ==
    ASSUME ChipTypeOK, Used <= RING
    PROVE  /\ Waiting \in Seq(Values) /\ Len(Waiting) = Used
           /\ \A i \in 1 .. Used : Waiting[i] = mem[CellAt(First, i - 1)]
<1>1. Used \in Nat /\ First \in Nat /\ RING \in Nat
  BY UsedBytes, Rings
<1>2. Waiting = [i \in 1 .. Used |-> mem[CellAt(First, i - 1)]]
  BY DEF Waiting, CellAt
<1>3. ASSUME NEW i \in 1 .. Used
      PROVE  mem[CellAt(First, i - 1)] \in Values
  <2>1. i - 1 \in 0 .. (RING - 1)
    BY <1>1, <1>3
  <2>2. CellAt(First, i - 1) \in 0 .. (RING - 1)
    BY <1>1, <2>1, Cells
  <2> QED BY <2>2 DEF ChipTypeOK
<1>4. Waiting \in [1 .. Used -> Values]
  BY <1>2, <1>3
<1>5. Waiting \in Seq(Values) /\ Len(Waiting) = Used
  BY <1>1, <1>4
<1> QED BY <1>2, <1>5

(* Nothing leaves and nothing is added.                                    *)
LEMMA QueueSame ==
    ASSUME ChipTypeOK, Used <= RING, ChipTypeOK', (Used <= RING)',
           First' = First, Used' = Used,
           \A j \in 0 .. (Used - 1) : mem'[CellAt(First, j)] = mem[CellAt(First, j)]
    PROVE  Waiting' = Waiting
<1>1. /\ Waiting \in Seq(Values) /\ Len(Waiting) = Used
      /\ \A i \in 1 .. Used : Waiting[i] = mem[CellAt(First, i - 1)]
  BY WaitingBytes
<1>2. (Waiting \in Seq(Values) /\ Len(Waiting) = Used
       /\ \A i \in 1 .. Used : Waiting[i] = mem[CellAt(First, i - 1)])'
  BY WaitingBytes, PTL
<1>3. Used \in Nat
  BY UsedBytes
<1>4. \A i \in 1 .. Used : Waiting'[i] = Waiting[i]
  <2> SUFFICES ASSUME NEW i \in 1 .. Used
               PROVE  Waiting'[i] = Waiting[i]
    OBVIOUS
  <2>1. i - 1 \in 0 .. (Used - 1) /\ i \in 1 .. Used'
    BY <1>3
  <2>2. Waiting'[i] = mem'[CellAt(First', i - 1)]
    BY <1>2, <2>1
  <2> QED BY <1>1, <2>1, <2>2
<1> QED BY <1>1, <1>2, <1>4, SeqEqual

(* The first k bytes that are offered are put behind the others.           *)
LEMMA QueuePut ==
    ASSUME ChipTypeOK, Used <= RING, ChipTypeOK', (Used <= RING)',
           First' = First, out' = out, NEW k \in Nat \ {0}, Used' = Used + k,
           Offered \in Seq(Values), k <= Len(Offered),
           \A j \in 0 .. (Used - 1) : mem'[CellAt(First, j)] = mem[CellAt(First, j)],
           \A i \in 1 .. k : mem'[CellAt(First, Used + (i - 1))] = Offered[i]
    PROVE  Queue!Put
<1>1. /\ Waiting \in Seq(Values) /\ Len(Waiting) = Used
      /\ \A i \in 1 .. Used : Waiting[i] = mem[CellAt(First, i - 1)]
  BY WaitingBytes
<1>2. (Waiting \in Seq(Values) /\ Len(Waiting) = Used
       /\ \A i \in 1 .. Used : Waiting[i] = mem[CellAt(First, i - 1)])'
  BY WaitingBytes, PTL
<1>3. Used \in Nat /\ RING \in Nat /\ Used + k <= RING
  BY UsedBytes, Rings
<1> DEFINE s == SubSeq(Offered, 1, k)
           q == Waiting \o s
<1>4. s \in Seq(Values) /\ Len(s) = k /\ \A i \in 1 .. k : s[i] = Offered[i]
  <2>1. Len(Offered) \in Nat /\ \A i \in 1 .. k : i \in 1 .. Len(Offered) /\ Offered[i] \in Values
    OBVIOUS
  <2> QED BY <2>1
<1> HIDE DEF s
<1>5. /\ q \in Seq(Values) /\ Len(q) = Used + k
      /\ \A i \in 1 .. Used : q[i] = Waiting[i]
      /\ \A i \in 1 .. k : q[Used + i] = s[i]
  <2>1. /\ q \in Seq(Values) /\ Len(q) = Used + k
        /\ \A i \in 1 .. (Used + k) : q[i] = IF i <= Used THEN Waiting[i] ELSE s[i - Used]
    BY <1>1, <1>4, ConcatProperties
  <2> HIDE DEF q
  <2>2. ASSUME NEW i \in 1 .. Used
        PROVE  q[i] = Waiting[i]
    <3>1. i \in 1 .. (Used + k) /\ i <= Used
      BY <1>3
    <3> QED BY <2>1, <3>1
  <2>3. ASSUME NEW i \in 1 .. k
        PROVE  q[Used + i] = s[i]
    <3>1. Used + i \in 1 .. (Used + k) /\ ~(Used + i <= Used) /\ (Used + i) - Used = i
      BY <1>3
    <3> QED BY <2>1, <3>1
  <2> QED BY <2>1, <2>2, <2>3
<1> HIDE DEF q
<1>6. \A i \in 1 .. Used : Waiting'[i] = q[i]
  <2> SUFFICES ASSUME NEW i \in 1 .. Used
               PROVE  Waiting'[i] = q[i]
    OBVIOUS
  <2>1. i - 1 \in 0 .. (Used - 1) /\ i \in 1 .. (Used + k)
    BY <1>3
  <2>2. Waiting'[i] = mem'[CellAt(First', i - 1)]
    BY <1>2, <2>1
  <2> QED BY <1>1, <1>5, <2>1, <2>2
<1>7. \A i \in 1 .. k : Waiting'[Used + i] = q[Used + i]
  <2> SUFFICES ASSUME NEW i \in 1 .. k
               PROVE  Waiting'[Used + i] = q[Used + i]
    OBVIOUS
  <2>1. Used + i \in 1 .. (Used + k) /\ (Used + i) - 1 = Used + (i - 1)
    BY <1>3
  <2>2. Waiting'[Used + i] = mem'[CellAt(First', (Used + i) - 1)]
    BY <1>2, <2>1
  <2> QED BY <1>4, <1>5, <2>1, <2>2
<1>8. \A i \in 1 .. (Used + k) : Waiting'[i] = q[i]
  <2> SUFFICES ASSUME NEW i \in 1 .. (Used + k)
               PROVE  Waiting'[i] = q[i]
    OBVIOUS
  <2>1. CASE i <= Used
    BY <1>3, <1>6, <2>1
  <2>2. CASE i > Used
    <3>1. i - Used \in 1 .. k /\ Used + (i - Used) = i
      BY <1>3, <2>2
    <3> QED BY <1>7, <3>1
  <2> QED BY <1>3, <2>1, <2>2
<1>9. Waiting' = q
  BY <1>2, <1>5, <1>8, SeqEqual
<1>10. k \in 1 .. Len(Offered) /\ Len(Waiting) + k <= RING
  <2>1. Len(Offered) \in Nat
    OBVIOUS
  <2> QED BY <1>1, <1>3, <2>1
<1> QED BY <1>9, <1>10 DEF Queue!Put, q, s

(* The k oldest bytes leave.                                               *)
LEMMA QueueLess ==
    ASSUME ChipTypeOK, Used <= RING, ChipTypeOK', (Used <= RING)',
           NEW k \in 0 .. Used, First' = (First + k) % WRAP, Used' = Used - k,
           \A j \in k .. (Used - 1) : mem'[CellAt(First, j)] = mem[CellAt(First, j)]
    PROVE  /\ Waiting' = Queue!After(k)
           /\ k = 0 => Waiting' = Waiting
<1>1. /\ Waiting \in Seq(Values) /\ Len(Waiting) = Used
      /\ \A i \in 1 .. Used : Waiting[i] = mem[CellAt(First, i - 1)]
  BY WaitingBytes
<1>2. (Waiting \in Seq(Values) /\ Len(Waiting) = Used
       /\ \A i \in 1 .. Used : Waiting[i] = mem[CellAt(First, i - 1)])'
  BY WaitingBytes, PTL
<1>3. Used \in Nat /\ First \in Nat /\ RING \in Nat /\ k \in Nat
  BY UsedBytes, Rings
<1> DEFINE s == SubSeq(Waiting, k + 1, Used)
<1>4. s \in Seq(Values) /\ Len(s) = Used - k /\ \A i \in 1 .. (Used - k) : s[i] = Waiting[k + i]
  <2>1. \A i \in k + 1 .. Used : Waiting[i] \in Values
    BY <1>1, <1>3
  <2> QED BY <1>1, <1>3, <2>1
<1>5. \A i \in 1 .. (Used - k) : Waiting'[i] = Waiting[k + i]
  <2> SUFFICES ASSUME NEW i \in 1 .. (Used - k)
               PROVE  Waiting'[i] = Waiting[k + i]
    OBVIOUS
  <2>1. i \in 1 .. Used' /\ k + i \in 1 .. Used /\ (k + i) - 1 = k + (i - 1)
        /\ k + (i - 1) \in k .. (Used - 1) /\ i - 1 \in Nat /\ First + k \in Nat
    BY <1>3
  <2>2. Waiting'[i] = mem'[CellAt((First + k) % WRAP, i - 1)]
    BY <1>2, <2>1
  <2>3. CellAt((First + k) % WRAP, i - 1) = CellAt(First + k, i - 1)
    BY <2>1, WrapKeepsCell
  <2>4. CellAt(First + k, i - 1) = CellAt(First, k + (i - 1))
    <3>1. (First + k) + (i - 1) = First + (k + (i - 1))
      BY <1>3, <2>1
    <3> QED BY <3>1 DEF CellAt
  <2>5. Waiting[k + i] = mem[CellAt(First, (k + i) - 1)]
    BY <1>1, <2>1
  <2> QED BY <2>1, <2>2, <2>3, <2>4, <2>5
<1> HIDE DEF s
<1>6. Waiting' = s
  BY <1>2, <1>4, <1>5, SeqEqual
<1>7. Waiting' = Queue!After(k)
  BY <1>1, <1>6 DEF Queue!After, s
<1>8. ASSUME k = 0
      PROVE  s = Waiting
  BY <1>1, <1>3, <1>4, <1>8, SeqEqual
<1> QED BY <1>6, <1>7, <1>8

(* The cells that are not among the k oldest stay as they are.             *)
LEMMA Forgotten ==
    ASSUME ChipTypeOK, NEW k \in 0 .. RING
    PROVE  /\ Without(k) \in [0 .. (RING - 1) -> Values]
           /\ \A j \in k .. (RING - 1) : Without(k)[CellAt(First, j)] = mem[CellAt(First, j)]
<1>1. First \in Nat /\ RING \in Nat \ {0} /\ NoByte \in Values
  BY UsedBytes, Rings DEF Values
<1>2. Without(k) \in [0 .. (RING - 1) -> Values]
  BY <1>1 DEF Without, ChipTypeOK
<1>3. ASSUME NEW j \in k .. (RING - 1)
      PROVE  Without(k)[CellAt(First, j)] = mem[CellAt(First, j)]
  <2>1. j \in 0 .. (RING - 1)
    BY <1>1
  <2>2. CellAt(First, j) \in 0 .. (RING - 1)
    BY <1>1, <2>1, Cells
  <2>3. ASSUME NEW i \in 0 .. (k - 1)
        PROVE  CellAt(First, j) # (First + i) % RING
    <3>1. i \in 0 .. (RING - 1) /\ i # j
      BY <1>1
    <3> QED BY <1>1, <2>1, <3>1, Cells DEF CellAt
  <2> QED BY <2>2, <2>3 DEF Without
<1> QED BY <1>2, <1>3

(* A byte arrives: it is put behind the others.                            *)
LEMMA ArriveQueue ==
    ASSUME ChipTypeOK, ChipInv, Arrive
    PROVE  /\ ChipTypeOK' /\ ChipInv' /\ Queue!Put
           /\ Size' = Size + 1 /\ First' = First
           /\ \A j \in 0 .. (Used - 1) : mem'[CellAt(First, j)] = mem[CellAt(First, j)]
<1>1. /\ dir = "read" /\ Used < RING /\ mem' = [mem EXCEPT ![net % RING] = net]
      /\ net' = (net + 1) % WRAP /\ UNCHANGED << dir, ptr, latched, out >>
  BY DEF Arrive
<1>2. /\ First \in Nat /\ Used \in Nat /\ RING \in Nat \ {0} /\ RING < WRAP /\ WRAP \in Nat
      /\ (First + Used) % WRAP = net /\ net \in Pages
  BY <1>1, UsedBytes, Rings DEF Last, ChipTypeOK
<1>3. net' \in Pages /\ Used' = Used + 1
  <2>1. Used = Distance(latched, net) /\ Used' = Distance(latched, net') /\ latched \in Pages
    BY <1>1 DEF Used, First, Last, ChipTypeOK
  <2> QED BY <1>1, <1>2, <2>1, MovedAway
<1>4. net % RING = CellAt(First, Used)
  <2>1. First + Used \in Nat
    BY <1>2
  <2> QED BY <1>2, <2>1, WrapKeepsCell DEF CellAt
<1>5. \A j \in 0 .. (Used - 1) : mem'[CellAt(First, j)] = mem[CellAt(First, j)]
  <2> SUFFICES ASSUME NEW j \in 0 .. (Used - 1)
               PROVE  mem'[CellAt(First, j)] = mem[CellAt(First, j)]
    OBVIOUS
  <2>1. j \in 0 .. (RING - 1) /\ Used \in 0 .. (RING - 1) /\ j # Used
    BY <1>1, <1>2
  <2>2. CellAt(First, j) \in 0 .. (RING - 1) /\ CellAt(First, j) # net % RING
    BY <1>2, <1>4, <2>1, Cells
  <2> QED BY <1>1, <2>2 DEF ChipTypeOK
<1>6. ChipTypeOK'
  <2>1. mem' \in [0 .. (RING - 1) -> Values]
    BY <1>1, <1>2 DEF ChipTypeOK, Values
  <2> QED BY <1>1, <1>3, <2>1 DEF ChipTypeOK
<1>7. ChipInv' /\ First' = First /\ Size' = Size + 1
  BY <1>1, <1>2, <1>3 DEF ChipInv, First, Size
<1>8. (Used <= RING)' /\ Used <= RING
  BY <1>1, <1>2, <1>3
<1>9. Queue!Put
  <2>1. Offered = << net >> /\ Offered \in Seq(Values) /\ Len(Offered) = 1 /\ Offered[1] = net
    BY <1>1, <1>2 DEF Offered, Values
  <2>2. \A i \in 1 .. 1 : mem'[CellAt(First, Used + (i - 1))] = Offered[i]
    <3>1. \A i \in 1 .. 1 : i = 1 /\ Used + (i - 1) = Used
      BY <1>2
    <3>2. Used \in 0 .. (RING - 1)
      BY <1>1, <1>2
    <3>3. net % RING \in 0 .. (RING - 1)
      BY <1>2, <1>4, <3>2, Cells
    <3>4. mem'[net % RING] = net
      BY <1>1, <3>3 DEF ChipTypeOK
    <3> QED BY <1>4, <2>1, <3>1, <3>4
  <2>3. 1 \in Nat \ {0} /\ 1 <= Len(Offered)
    BY <2>1
  <2> QED BY <1>1, <1>3, <1>5, <1>6, <1>7, <1>8, <2>1, <2>2, <2>3, QueuePut
<1> QED BY <1>5, <1>6, <1>7, <1>9

(* The oldest byte is sent.                                                *)
LEMMA SentQueue ==
    ASSUME ChipTypeOK, ChipInv, Sent
    PROVE  /\ ChipTypeOK' /\ ChipInv' /\ Queue!Take
           /\ Size' = Size + 1 /\ Used' = Used - 1 /\ Used > 0 /\ Len(out') = 1
           /\ \A j \in 1 .. (RING - 1) : mem'[CellAt(First, j)] = mem[CellAt(First, j)]
<1>1. /\ dir = "write" /\ Used > 0 /\ mem' = Without(1) /\ out' = << mem[net % RING] >>
      /\ net' = (net + 1) % WRAP /\ UNCHANGED << dir, ptr, latched >>
  BY DEF Sent
<1>2. /\ First \in Nat /\ Used \in Nat /\ RING \in Nat \ {0} /\ RING < WRAP /\ WRAP \in Nat
      /\ First = net /\ net \in Pages /\ Used <= RING
  BY <1>1, UsedBytes, Rings DEF First, ChipTypeOK, ChipInv
<1>3. net' \in Pages /\ Used' = Used - 1 /\ First' = (First + 1) % WRAP
  <2>1. Used = Distance(net, latched) /\ Used' = Distance(net', latched) /\ latched \in Pages
    BY <1>1 DEF Used, First, Last, ChipTypeOK
  <2>2. 1 \in 0 .. Distance(net, latched)
    BY <1>1, <1>2, <2>1
  <2>3. (net + 1) % WRAP \in Pages /\ Distance((net + 1) % WRAP, latched) = Used - 1
    BY <1>2, <2>1, <2>2, MovedTowards
  <2>4. First' = net'
    BY <1>1 DEF First
  <2> QED BY <1>1, <1>2, <2>1, <2>3, <2>4
<1>4. /\ mem' \in [0 .. (RING - 1) -> Values]
      /\ \A j \in 1 .. (RING - 1) : mem'[CellAt(First, j)] = mem[CellAt(First, j)]
  <2>1. 1 \in 0 .. RING
    BY <1>2
  <2> QED BY <1>1, <2>1, Forgotten
<1>5. mem[net % RING] \in Values /\ net % RING = CellAt(First, 0)
  <2>1. net + 0 = net /\ 0 \in 0 .. (RING - 1)
    BY <1>2
  <2>2. CellAt(First, 0) \in 0 .. (RING - 1)
    BY <1>2, <2>1, Cells
  <2>3. net % RING = CellAt(First, 0)
    BY <1>2, <2>1 DEF CellAt
  <2> QED BY <2>2, <2>3 DEF ChipTypeOK
<1>6. ChipTypeOK'
  BY <1>1, <1>3, <1>4 DEF ChipTypeOK
<1>7. out' \in Seq(Values) /\ Len(out') = 1 /\ out'[1] = mem[net % RING]
  BY <1>1, <1>5
<1>8. ChipInv' /\ Size' = Size + 1
  BY <1>1, <1>2, <1>3, <1>7 DEF ChipInv, Size
<1>9. Waiting' = Queue!After(1)
  <2>1. (Used <= RING)' /\ 1 \in 0 .. Used
    BY <1>1, <1>2, <1>3
  <2>2. \A j \in 1 .. (Used - 1) : mem'[CellAt(First, j)] = mem[CellAt(First, j)]
    BY <1>2, <1>4
  <2> QED BY <1>2, <1>3, <1>6, <2>1, <2>2, QueueLess
<1>10. out' = SubSeq(Waiting, 1, 1)
  <2>1. Waiting \in Seq(Values) /\ Len(Waiting) = Used /\ Waiting[1] = mem[net % RING]
    <3>1. 1 \in 1 .. Used /\ 1 - 1 = 0
      BY <1>1, <1>2
    <3> QED BY <1>2, <1>5, <3>1, WaitingBytes
  <2> DEFINE s == SubSeq(Waiting, 1, 1)
  <2>2. s \in Seq(Values) /\ Len(s) = 1 /\ s[1] = Waiting[1]
    BY <1>1, <1>2, <1>5, <2>1
  <2> HIDE DEF s
  <2>3. \A i \in 1 .. Len(s) : s[i] = out'[i]
    BY <1>7, <2>1, <2>2
  <2>4. s = out'
    BY <1>7, <2>2, <2>3, SeqEqual
  <2> QED BY <2>4 DEF s
<1>11. Queue!Take
  <2>1. 1 \in 1 .. Len(Waiting)
    BY <1>1, <1>2, WaitingBytes
  <2> QED BY <1>9, <1>10, <2>1 DEF Queue!Take
<1> QED BY <1>1, <1>3, <1>4, <1>6, <1>7, <1>8, <1>11

(* RECV with the pointer moved by k: the k oldest bytes leave.             *)
LEMMA ReceiveQueue ==
    ASSUME ChipTypeOK, ChipInv, dir = "read", NEW p \in Pointer, NEW k \in 0 .. Used,
           Value(p) = (latched + k) % WRAP, Command(p), out' \in Seq(Values)
    PROVE  /\ ChipTypeOK' /\ ChipInv' /\ ptr' = p
           /\ Used' = Used - k /\ Waiting' = Queue!After(k) /\ (k = 0 => Waiting' = Waiting)
<1>1. /\ ptr' = p /\ latched' = (latched + k) % WRAP /\ UNCHANGED << dir, net >>
      /\ mem' = Without(Distance(latched, (latched + k) % WRAP))
  BY DEF Command
<1>2. /\ First \in Nat /\ Used \in Nat /\ RING \in Nat \ {0} /\ RING < WRAP /\ WRAP \in Nat
      /\ First = latched /\ latched \in Pages /\ net \in Pages /\ Used <= RING
      /\ Used = Distance(latched, net)
  BY UsedBytes, Rings DEF First, Last, Used, ChipTypeOK, ChipInv
<1>3. k \in 0 .. (WRAP - 1) /\ k \in 0 .. RING /\ k \in 0 .. Distance(latched, net)
  BY <1>2
<1>4. latched' \in Pages /\ Distance(latched, (latched + k) % WRAP) = k
  BY <1>1, <1>2, <1>3, Moved
<1>5. Used' = Used - k /\ First' = (First + k) % WRAP
  <2>1. Distance((latched + k) % WRAP, net) = Used - k
    BY <1>2, <1>3, MovedTowards
  <2>2. Used' = Distance(latched', net) /\ First' = latched'
    BY <1>1 DEF Used, First, Last
  <2> QED BY <1>1, <1>2, <2>1, <2>2
<1>6. /\ mem' \in [0 .. (RING - 1) -> Values]
      /\ \A j \in k .. (RING - 1) : mem'[CellAt(First, j)] = mem[CellAt(First, j)]
  <2>1. mem' = Without(k)
    BY <1>1, <1>4
  <2> QED BY <1>3, <2>1, Forgotten
<1>7. ChipTypeOK'
  BY <1>1, <1>4, <1>6 DEF ChipTypeOK
<1>8. (Used <= RING)' /\ Value(ptr') = latched'
  BY <1>1, <1>2, <1>5
<1>9. ChipInv'
  BY <1>8 DEF ChipInv, Value
<1>10. Waiting' = Queue!After(k) /\ (k = 0 => Waiting' = Waiting)
  <2>1. \A j \in k .. (Used - 1) : mem'[CellAt(First, j)] = mem[CellAt(First, j)]
    BY <1>2, <1>3, <1>6
  <2> QED BY <1>2, <1>5, <1>7, <1>8, <2>1, QueueLess
<1> QED BY <1>1, <1>5, <1>7, <1>9, <1>10

(* What is written behind the pointer lies behind the bytes that wait.     *)
LEMMA BehindTheLast ==
    ASSUME ChipTypeOK, dir = "write", NEW d \in Nat
    PROVE  CellAt(latched, d) = CellAt(First, Used + d)
<1>1. First \in Nat /\ Used \in Nat /\ (First + Used) % WRAP = latched
  BY UsedBytes DEF Last
<1>2. First + Used \in Nat /\ (First + Used) + d = First + (Used + d)
  BY <1>1
<1>3. CellAt((First + Used) % WRAP, d) = CellAt(First + Used, d)
  BY <1>2, WrapKeepsCell
<1> QED BY <1>1, <1>2, <1>3 DEF CellAt

(* SEND with the pointer moved by k: k bytes are put behind the others.    *)
LEMMA SendQueue ==
    ASSUME ChipTypeOK, ChipInv, dir = "write", NEW p \in Pointer, NEW k \in 1 .. (RING - Used),
           Value(p) = (latched + k) % WRAP, Command(p), out' = out,
           buf \in Seq(Values), k <= Len(buf),
           \A i \in 1 .. k : buf[i] = mem[CellAt(latched, i - 1)]
    PROVE  /\ ChipTypeOK' /\ ChipInv' /\ ptr' = p
           /\ Used' = Used + k /\ Queue!Put
<1>1. /\ ptr' = p /\ latched' = (latched + k) % WRAP /\ UNCHANGED << dir, net, mem >>
  BY DEF Command
<1>2. /\ First \in Nat /\ Used \in Nat /\ RING \in Nat \ {0} /\ RING < WRAP /\ WRAP \in Nat
      /\ First = net /\ latched \in Pages /\ net \in Pages /\ Used <= RING
      /\ Used = Distance(net, latched)
  BY UsedBytes, Rings DEF First, Last, Used, ChipTypeOK, ChipInv
<1>3. latched' \in Pages /\ Distance(net, latched') = Used + k
  <2>1. k \in Nat /\ Distance(net, latched) + k < WRAP
    BY <1>2
  <2> QED BY <1>1, <1>2, <2>1, MovedAway
<1>4. Used' = Used + k /\ First' = First
  BY <1>1, <1>3 DEF Used, First, Last
<1>5. ChipTypeOK'
  BY <1>1, <1>3 DEF ChipTypeOK
<1>6. (Used <= RING)' /\ k \in Nat \ {0}
  BY <1>2, <1>4
<1>7. ChipInv'
  BY <1>1, <1>6 DEF ChipInv, Value
<1>8. \A j \in 0 .. (Used - 1) : mem'[CellAt(First, j)] = mem[CellAt(First, j)]
  BY <1>1
<1>9. Queue!Put
  <2>1. Offered = buf
    BY DEF Offered
  <2>2. \A i \in 1 .. k : mem'[CellAt(First, Used + (i - 1))] = buf[i]
    <3> SUFFICES ASSUME NEW i \in 1 .. k
                 PROVE  mem'[CellAt(First, Used + (i - 1))] = buf[i]
      OBVIOUS
    <3> DEFINE d == i - 1
    <3>1. d \in Nat
      BY <1>6
    <3> HIDE DEF d
    <3>2. CellAt(latched, d) = CellAt(First, Used + d)
      BY <3>1, BehindTheLast
    <3>3. mem'[CellAt(First, Used + d)] = buf[i]
      BY <1>1, <3>2 DEF d
    <3> QED BY <3>3 DEF d
  <2> QED BY <1>2, <1>4, <1>5, <1>6, <1>8, <2>1, <2>2, QueuePut
<1> QED BY <1>1, <1>4, <1>5, <1>7, <1>9

LEMMA NoBytes ==
    ASSUME ChipTypeOK, Used = 0
    PROVE  Waiting = << >>
<1>1. Waiting \in Seq(Values) /\ Len(Waiting) = 0
  BY WaitingBytes, Rings
<1> QED BY <1>1, EmptySeq

(* A buffer that a new connection finds empty: what was in it is dropped.  *)
LEMMA EmptiedQueue ==
    ASSUME ChipTypeOK, ChipInv, Emptied
    PROVE  /\ ChipTypeOK' /\ ChipInv' /\ Used' = 0 /\ ptr' \in Pointer /\ out' = out
           /\ QueueStep
<1>1. /\ UNCHANGED << dir, out >> /\ net' = latched' /\ net' \in Pages
      /\ ptr' = PointerOf(net') /\ mem' = [c \in 0 .. (RING - 1) |-> NoByte]
  BY DEF Emptied, ChipTypeOK
<1>2. net' \in Nat /\ net' < WRAP /\ WRAP \in Nat \ {0} /\ RING \in Nat
  BY <1>1, Rings DEF Pages
<1>3. ChipTypeOK'
  BY <1>1 DEF ChipTypeOK, Values
<1>4. Used' = 0
  <2>1. Used' = Distance(net', net')
    BY <1>1 DEF Used, First, Last
  <2>2. Distance(net', net') = 0
    BY <1>1, <1>2, Distances
  <2> QED BY <2>1, <2>2
<1>5. ptr' \in Pointer /\ Value(ptr') = latched'
  <2>1. net' \in 0 .. (2 * WRAP - 1)
    BY <1>2
  <2>2. net' % WRAP = net'
    BY <1>2, <2>1, Wrapped
  <2> QED BY <1>1, <1>2, <2>2, PointerBack
<1>6. ChipInv'
  BY <1>1, <1>2, <1>4, <1>5 DEF ChipInv, Value
<1>7. Waiting' = << >>
  <2>1. (Used = 0)'
    BY <1>4
  <2>2. (Waiting = << >>)'
    BY <1>3, <2>1, NoBytes, PTL
  <2> QED BY <2>2
<1>8. ASSUME Used = 0
      PROVE  QueueStep
  <2>1. Waiting = << >>
    BY <1>8, NoBytes
  <2> QED BY <1>1, <1>7, <2>1 DEF QueueStep
<1>9. ASSUME Used # 0
      PROVE  QueueStep
  <2>1. Used \in Nat /\ Used <= RING
    BY UsedBytes DEF ChipInv
  <2>2. Used \in 1 .. Len(Waiting) /\ Len(Waiting) = Used
    BY <1>9, <2>1, WaitingBytes
  <2>3. Queue!After(Used) = << >>
    <3>1. SubSeq(Waiting, Used + 1, Used) = << >>
      BY <2>1, SubSeqEmpty
    <3> QED BY <2>2, <3>1 DEF Queue!After
  <2>4. Queue!Drop
    BY <1>1, <1>7, <2>2, <2>3 DEF Queue!Drop
  <2> QED BY <2>4 DEF QueueStep, Queue!Next
<1> QED BY <1>1, <1>3, <1>4, <1>5, <1>6, <1>8, <1>9

(* A byte is written behind the bytes that wait, in the room there is.     *)
LEMMA WriteCell ==
    ASSUME ChipTypeOK, ChipInv, dir = "write", NEW d \in 0 .. (RING - Used - 1), NEW b \in Values,
           mem' = [mem EXCEPT ![CellAt(latched, d)] = b],
           UNCHANGED << dir, latched, net, ptr, out >>
    PROVE  /\ ChipTypeOK' /\ ChipInv' /\ UNCHANGED << Used, Size, Waiting >>
           /\ mem'[CellAt(latched, d)] = b
           /\ \A j \in 0 .. (d - 1) : mem'[CellAt(latched, j)] = mem[CellAt(latched, j)]
<1>1. /\ First \in Nat /\ Used \in Nat /\ RING \in Nat \ {0} /\ RING < WRAP /\ WRAP \in Nat
      /\ First = net /\ latched \in Nat /\ Used <= RING /\ (First + Used) % WRAP = latched
  BY UsedBytes, Rings DEF First, Last, Used, ChipTypeOK, ChipInv, Pages
<1>2. UNCHANGED << Used, Size, First >>
  BY DEF Used, Size, First, Last
<1>3. d \in 0 .. (RING - 1) /\ Used + d \in 0 .. (RING - 1)
  BY <1>1
<1>4. CellAt(latched, d) \in 0 .. (RING - 1)
  BY <1>1, <1>3, Cells
<1>5. ChipTypeOK'
  BY <1>4 DEF ChipTypeOK
<1>6. ChipInv'
  BY <1>1, <1>2 DEF ChipInv, Value
<1>7. CellAt(latched, d) = CellAt(First, Used + d)
  BY <1>3, BehindTheLast
<1>8. \A j \in 0 .. (Used - 1) : mem'[CellAt(First, j)] = mem[CellAt(First, j)]
  <2> SUFFICES ASSUME NEW j \in 0 .. (Used - 1)
               PROVE  mem'[CellAt(First, j)] = mem[CellAt(First, j)]
    OBVIOUS
  <2>1. j \in 0 .. (RING - 1) /\ j # Used + d
    BY <1>1, <1>3
  <2>2. CellAt(First, j) \in 0 .. (RING - 1) /\ CellAt(First, j) # CellAt(latched, d)
    <3> DEFINE e == Used + d
    <3>1. e \in 0 .. (RING - 1) /\ j # e /\ CellAt(latched, d) = CellAt(First, e)
      BY <1>3, <1>7, <2>1
    <3> HIDE DEF e
    <3>2. First \in Nat /\ j \in 0 .. (RING - 1)
      BY <1>1, <2>1
    <3>3. CellAt(First, j) \in 0 .. (RING - 1) /\ (CellAt(First, j) = CellAt(First, e) => j = e)
      BY <3>1, <3>2, Cells
    <3> QED BY <3>1, <3>3
  <2> QED BY <2>2 DEF ChipTypeOK
<1>9. Waiting' = Waiting
  <2>1. (Used <= RING)'
    BY <1>1, <1>2
  <2> QED BY <1>1, <1>2, <1>5, <1>8, <2>1, QueueSame
<1>10. mem'[CellAt(latched, d)] = b
  BY <1>4 DEF ChipTypeOK
<1>11. \A j \in 0 .. (d - 1) : mem'[CellAt(latched, j)] = mem[CellAt(latched, j)]
  <2> SUFFICES ASSUME NEW j \in 0 .. (d - 1)
               PROVE  mem'[CellAt(latched, j)] = mem[CellAt(latched, j)]
    OBVIOUS
  <2>1. j \in 0 .. (RING - 1) /\ j # d
    BY <1>1, <1>3
  <2>2. CellAt(latched, j) \in 0 .. (RING - 1) /\ CellAt(latched, j) # CellAt(latched, d)
    BY <1>1, <1>3, <2>1, Cells
  <2> QED BY <2>2 DEF ChipTypeOK
<1> QED BY <1>2, <1>5, <1>6, <1>9, <1>10, <1>11

LEMMA ChipStill ==
    ASSUME ChipTypeOK, ChipInv, UNCHANGED chipVars
    PROVE  /\ ChipTypeOK' /\ ChipInv' /\ QueueStep
           /\ UNCHANGED << dir, mem, ptr, latched, net, out, Used, Size >>
<1>1. UNCHANGED << dir, mem, ptr, latched, net, out >>
  BY DEF chipVars
<1>2. UNCHANGED << First, Last, Used, Size, Waiting >>
  BY <1>1 DEF First, Last, Used, Size, Waiting
<1> QED BY <1>1, <1>2 DEF ChipTypeOK, ChipInv, Value, QueueStep

-----------------------------------------------------------------------------
(* One lemma for each action: it keeps the invariant, and to the queue it  *)
(* is a step or nothing.                                                   *)
LEMMA Bounds ==
    ASSUME IInv
    PROVE  /\ BYTE \in Nat /\ BYTE >= 2 /\ CHUNK = BYTE - 1 /\ CHUNK \in Nat /\ PAGES \in Nat /\ HIGHS \in Nat \ {0}
           /\ RING \in Nat /\ RING >= BYTE
           /\ Used \in 0 .. RING /\ Size \in 0 .. RING
           /\ dir = "read" => Size = Used
           /\ dir = "write" => Size = RING - Used
           /\ Offsets \subseteq Nat /\ 0 \in Offsets
<1>1. /\ BYTE \in Nat /\ BYTE >= 2 /\ CHUNK = BYTE - 1 /\ PAGES \in Nat /\ HIGHS \in Nat \ {0}
      /\ RING \in Nat /\ RING >= BYTE
  BY SockAssumption, Rings DEF CHUNK
<1>2. Used \in 0 .. RING
  BY <1>1, UsedBytes DEF IInv, TypesOK, ChipInv
<1>3. dir \in {"read", "write"}
  BY DEF IInv, TypesOK, ChipTypeOK
<1>4. Size = IF dir = "read" THEN Used ELSE RING - Used
  BY DEF Size
<1>5. Offsets \subseteq Nat /\ 0 \in Offsets
  <2>1. \A t \in Totals : t \in Nat /\ 0 .. t \subseteq Nat /\ 0 \in 0 .. t
    BY SizesAssumption DEF Totals
  <2>2. \E t \in Totals : TRUE
    <3>1. PICK h \in Heads, s \in Sizes : TRUE
      BY SizesAssumption
    <3>2. h + s \in Totals
      BY DEF Totals
    <3> QED BY <3>2
  <2> QED BY <2>1, <2>2 DEF Offsets
<1> QED BY <1>1, <1>2, <1>3, <1>4, <1>5

LEMMA SizeBytes ==
    ASSUME NEW s \in Nat, s <= RING
    PROVE  /\ s % BYTE \in 0 .. CHUNK /\ s % BYTE <= s
           /\ s \div BYTE \in 0 .. PAGES /\ (s \div BYTE) * BYTE <= s
           /\ s < BYTE => s % BYTE = s /\ s \div BYTE = 0
           /\ s \div BYTE = 0 => s < BYTE
           /\ \A h \in Nat : h * BYTE <= s => h * BYTE + (s % BYTE) <= s
<1>1. BYTE \in Nat \ {0} /\ PAGES \in Nat
  BY SockAssumption
<1> DEFINE q == s \div BYTE
           r == s % BYTE
<1>2. r \in 0 .. (BYTE - 1) /\ q \in Nat /\ s = q * BYTE + r
  BY <1>1, Divided
<1>3. s < BYTE => r = s /\ q = 0
  <2>1. ASSUME s < BYTE PROVE (0 * BYTE + s) % BYTE = s /\ (0 * BYTE + s) \div BYTE = 0
    BY <1>1, <2>1, Remainder
  <2>2. 0 * BYTE + s = s
    BY <1>1
  <2> QED BY <2>1, <2>2
<1> HIDE DEF q, r
<1>4. r <= s /\ q * BYTE <= s
  <2>1. q * BYTE \in Nat
    BY <1>1, <1>2
  <2> QED BY <1>1, <1>2, <2>1
<1>5. q <= PAGES
  <2> SUFFICES ASSUME q >= PAGES + 1 PROVE FALSE
    BY <1>1, <1>2
  <2>1. q * BYTE >= (PAGES + 1) * BYTE
    BY <1>1, <1>2
  <2> QED BY <1>1, <1>2, <1>4, <2>1 DEF RING
<1>6. q = 0 => s < BYTE
  BY <1>1, <1>2
<1>7. ASSUME NEW h \in Nat, h * BYTE <= s
      PROVE  h * BYTE + r <= s
  <2>1. h <= q
    <3> SUFFICES ASSUME h >= q + 1 PROVE FALSE
      BY <1>2
    <3>1. h * BYTE >= (q + 1) * BYTE
      BY <1>1, <1>2
    <3> QED BY <1>1, <1>2, <1>7, <3>1
  <2>2. h * BYTE <= q * BYTE
    BY <1>1, <1>2, <2>1
  <2> QED BY <1>1, <1>2, <2>2
<1> QED BY <1>1, <1>2, <1>3, <1>4, <1>5, <1>6, <1>7 DEF q, r, CHUNK

LEMMA ReadLowStep ==
    ASSUME IInv, ReadLow, UNCHANGED ioVars
    PROVE  IInv' /\ QueueStep
<1>1. /\ ChipTypeOK' /\ ChipInv' /\ QueueStep
      /\ UNCHANGED << dir, mem, ptr, latched, net, out, Used, Size >>
  BY ChipStill DEF IInv, TypesOK, ReadLow
<1>2. /\ Size % BYTE \in 0 .. CHUNK /\ Size % BYTE <= Size
      /\ Size < BYTE => Size % BYTE = Size
  <2>1. Size \in Nat /\ Size <= RING
    BY Bounds
  <2> QED BY <2>1, SizeBytes
<1>3. CallTypeOK'
  BY <1>1, Bounds, <1>2 DEF IInv, TypesOK, ReadLow, ioVars, Take, CallTypeOK, ChipTypeOK
<1>4. IoTypeOK'
  BY <1>1, Bounds, <1>2 DEF IInv, TypesOK, ReadLow, ioVars, Take, IoTypeOK
<1>5. SizeInv'
  BY <1>1, Bounds, <1>2 DEF IInv, TypesOK, ReadLow, ioVars, Take, SizeInv, CallTypeOK, InRw
<1>6. CopyInv'
  BY <1>1, Bounds, <1>2 DEF IInv, TypesOK, ReadLow, ioVars, Take, CopyInv, CallTypeOK, InRw, Done, ChipInv, ChipTypeOK, SizeInv
<1>7. DrainInv'
  BY <1>1, Bounds, <1>2 DEF IInv, TypesOK, ReadLow, ioVars, Take, DrainInv, Draining, CallTypeOK
<1>8. TaskInv'
  BY <1>1, Bounds, <1>2 DEF IInv, TypesOK, ReadLow, ioVars, Take, TaskInv, Sending, Room, IoTypeOK, CallTypeOK, InRw
<1>9. FitInv'
  <2>1. pc' \in {"ret", "ptr", "high"} /\ (pc' = "ret" => n' = 0) /\ (pc' \in {"ret", "ptr"} => n' = req')
    BY DEF ReadLow, Take
  <2>2. UNCHANGED << dir, req, off, cut, Used, Size >> /\ low' = Size % BYTE /\ pc = "low"
    BY <1>1 DEF ReadLow, ioVars
  <2>3. off \in Nat
    BY Bounds DEF IInv, TypesOK, IoTypeOK
  <2>4. dir = "write" => Used <= off
    BY <2>2, <2>3, Bounds DEF IInv, FitInv
  <2>5. (dir = "write" => Used <= off + IF pc = "ret" THEN n ELSE 0)'
    BY <2>1, <2>2, <2>3, <2>4
  <2>6. (pc = "high" /\ dir = "write" /\ Size < BYTE => off + low >= RING)'
    BY <1>2, <2>2, <2>3, <2>4, Bounds
  <2>7. (pc \in {"ptr", "copy", "ret"} /\ dir = "write" /\ n # 0 /\ n < req => off + req > RING)'
    <3>1. req \in Nat
      BY Bounds DEF IInv, TypesOK, CallTypeOK
    <3> QED BY <2>1, <2>2, <3>1
  <2>8. FitsIsWhole'
    BY <2>2 DEF IInv, FitInv, FitsIsWhole
  <2> QED BY <2>5, <2>6, <2>7, <2>8 DEF FitInv
<1> QED BY <1>1, <1>3, <1>4, <1>5, <1>6, <1>7, <1>8, <1>9 DEF IInv, TypesOK

LEMMA ReadHighStep ==
    ASSUME IInv, ReadHigh, UNCHANGED ioVars
    PROVE  IInv' /\ QueueStep
<1>1. /\ ChipTypeOK' /\ ChipInv' /\ QueueStep
      /\ UNCHANGED << dir, mem, ptr, latched, net, out, Used, Size >>
  BY ChipStill DEF IInv, TypesOK, ReadHigh
<1>2. (Size \div BYTE = 0 => Size < BYTE) /\ (Size < BYTE => Size \div BYTE = 0)
  <2>1. Size \in Nat /\ Size <= RING
    BY Bounds
  <2> QED BY <2>1, SizeBytes
<1>3. CallTypeOK'
  BY <1>1, Bounds, <1>2 DEF IInv, TypesOK, ReadHigh, ioVars, Take, CallTypeOK, ChipTypeOK
<1>4. IoTypeOK'
  BY <1>1, Bounds, <1>2 DEF IInv, TypesOK, ReadHigh, ioVars, Take, IoTypeOK
<1>5. SizeInv'
  BY <1>1, Bounds, <1>2 DEF IInv, TypesOK, ReadHigh, ioVars, Take, SizeInv, CallTypeOK, InRw
<1>6. CopyInv'
  BY <1>1, Bounds, <1>2 DEF IInv, TypesOK, ReadHigh, ioVars, Take, CopyInv, CallTypeOK, InRw, Done, ChipInv, ChipTypeOK, SizeInv
<1>7. DrainInv'
  BY <1>1, Bounds, <1>2 DEF IInv, TypesOK, ReadHigh, ioVars, Take, DrainInv, Draining, CallTypeOK
<1>8. TaskInv'
  BY <1>1, Bounds, <1>2 DEF IInv, TypesOK, ReadHigh, ioVars, Take, TaskInv, Sending, Room, IoTypeOK, CallTypeOK, InRw
<1>9. FitInv'
  <2>1. pc' \in {"ret", "ptr"} /\ (pc' = "ret" => n' = 0) /\ (n' = req \/ (n' = low /\ Size < BYTE))
    <3> DEFINE q == Size \div BYTE
    <3>1. ReadHigh => Take(IF q = 0 THEN low ELSE req)
      BY DEF ReadHigh
    <3>2. q = 0 => Size < BYTE
      BY <1>2
    <3> HIDE DEF q
    <3> QED BY <3>1, <3>2 DEF Take
  <2>2. UNCHANGED << dir, req, off, cut, Used, Size >> /\ pc = "high"
    BY <1>1 DEF ReadHigh, ioVars
  <2>3. off \in Nat /\ req \in Nat /\ low \in Nat
    BY Bounds DEF IInv, TypesOK, IoTypeOK, CallTypeOK
  <2>4. dir = "write" => Used <= off
    BY <2>2, <2>3, Bounds DEF IInv, FitInv
  <2>5. (dir = "write" => Used <= off + IF pc = "ret" THEN n ELSE 0)'
    BY <2>1, <2>2, <2>3, <2>4
  <2>6. (pc = "high" /\ dir = "write" /\ Size < BYTE => off + low >= RING)'
    BY <2>1
  <2>7. (pc \in {"ptr", "copy", "ret"} /\ dir = "write" /\ n # 0 /\ n < req => off + req > RING)'
    <3>1. dir = "write" /\ Size < BYTE => off + low >= RING /\ low < req
      BY <2>2 DEF IInv, FitInv, SizeInv
    <3> QED BY <2>1, <2>2, <2>3, <3>1, Bounds
  <2>8. FitsIsWhole'
    BY <2>2 DEF IInv, FitInv, FitsIsWhole
  <2> QED BY <2>5, <2>6, <2>7, <2>8 DEF FitInv
<1> QED BY <1>1, <1>3, <1>4, <1>5, <1>6, <1>7, <1>8, <1>9 DEF IInv, TypesOK

LEMMA ReadPtrStep ==
    ASSUME IInv, ReadPtr, UNCHANGED ioVars
    PROVE  IInv' /\ QueueStep
<1>1. /\ ChipTypeOK' /\ ChipInv' /\ QueueStep
      /\ UNCHANGED << dir, mem, ptr, latched, net, out, Used, Size >>
  BY ChipStill DEF IInv, TypesOK, ReadPtr
<1>3. CallTypeOK'
  BY <1>1, Bounds DEF IInv, TypesOK, ReadPtr, ioVars, CallTypeOK, ChipTypeOK
<1>4. IoTypeOK'
  BY <1>1, Bounds DEF IInv, TypesOK, ReadPtr, ioVars, IoTypeOK
<1>5. SizeInv'
  BY <1>1, Bounds DEF IInv, TypesOK, ReadPtr, ioVars, SizeInv, CallTypeOK, InRw
<1>6. CopyInv'
  <2>1. pc' = "copy" /\ Done' = 0 /\ UNCHANGED << req, buf, dir, latched >> /\ Value(addr') = latched
    BY <1>1, Bounds DEF ReadPtr, IInv, TypesOK, CallTypeOK, SizeInv, ChipInv, Done
  <2>2. (latched + 0) % WRAP = latched
    <3>1. latched \in 0 .. (WRAP - 1) /\ WRAP \in Nat \ {0}
      BY Rings DEF IInv, TypesOK, ChipTypeOK, Pages
    <3>2. latched + 0 = latched /\ latched \in 0 .. (2 * WRAP - 1)
      BY <3>1
    <3> QED BY <3>1, <3>2, Wrapped
  <2>3. /\ buf \in Seq(Values) /\ (dir = "write" => Len(buf) = req) /\ (dir = "read" => Len(buf) = 0)
    BY DEF ReadPtr, IInv, CopyInv, InRw
  <2>4. (Value(addr) = (latched + Done) % WRAP)'
    BY <2>1, <2>2 DEF Value
  <2> QED BY <2>1, <2>3, <2>4 DEF CopyInv, InRw
<1>7. DrainInv'
  BY <1>1, Bounds DEF IInv, TypesOK, ReadPtr, ioVars, DrainInv, Draining, CallTypeOK
<1>8. TaskInv'
  BY <1>1, Bounds DEF IInv, TypesOK, ReadPtr, ioVars, TaskInv, Sending, Room, IoTypeOK, CallTypeOK, InRw
<1>9. FitInv'
  BY <1>1, Bounds DEF IInv, TypesOK, ReadPtr, ioVars, FitInv, FitsIsWhole, IoTypeOK, CallTypeOK, ChipTypeOK, TaskInv, Sending, Room, SizeInv, InRw
<1> QED BY <1>1, <1>3, <1>4, <1>5, <1>6, <1>7, <1>8, <1>9 DEF IInv, TypesOK

LEMMA DrainPtrStep ==
    ASSUME IInv, DrainPtr, UNCHANGED ioVars
    PROVE  IInv' /\ QueueStep
<1>1. /\ ChipTypeOK' /\ ChipInv' /\ QueueStep
      /\ UNCHANGED << dir, mem, ptr, latched, net, out, Used, Size >>
  BY ChipStill DEF IInv, TypesOK, DrainPtr
<1>3. CallTypeOK'
  BY <1>1, Bounds DEF IInv, TypesOK, DrainPtr, ioVars, CallTypeOK, ChipTypeOK
<1>4. IoTypeOK'
  BY <1>1, Bounds DEF IInv, TypesOK, DrainPtr, ioVars, IoTypeOK
<1>5. SizeInv'
  BY <1>1, Bounds DEF IInv, TypesOK, DrainPtr, ioVars, SizeInv, CallTypeOK, InRw
<1>6. CopyInv'
  BY <1>1, Bounds DEF IInv, TypesOK, DrainPtr, ioVars, CopyInv, CallTypeOK, InRw, Done, ChipInv, ChipTypeOK, SizeInv
<1>7. DrainInv'
  BY <1>1, Bounds DEF IInv, TypesOK, DrainPtr, ioVars, DrainInv, Draining, CallTypeOK
<1>8. TaskInv'
  BY <1>1, Bounds DEF IInv, TypesOK, DrainPtr, ioVars, TaskInv, Sending, Room, IoTypeOK, CallTypeOK, InRw
<1>9. FitInv'
  BY <1>1, Bounds DEF IInv, TypesOK, DrainPtr, ioVars, FitInv, FitsIsWhole, IoTypeOK, CallTypeOK, ChipTypeOK, TaskInv, Sending, Room, SizeInv, InRw
<1> QED BY <1>1, <1>3, <1>4, <1>5, <1>6, <1>7, <1>8, <1>9 DEF IInv, TypesOK

LEMMA DrainHighStep ==
    ASSUME IInv, DrainHigh, UNCHANGED ioVars
    PROVE  IInv' /\ QueueStep
<1>1. /\ ChipTypeOK' /\ ChipInv' /\ QueueStep
      /\ UNCHANGED << dir, mem, ptr, latched, net, out, Used, Size >>
  BY ChipStill DEF IInv, TypesOK, DrainHigh
<1>2. /\ Size % BYTE \in 0 .. CHUNK
      /\ Size \div BYTE \in 0 .. PAGES /\ (Size \div BYTE) * BYTE <= Size
      /\ \A h \in Nat : h * BYTE <= Size => h * BYTE + (Size % BYTE) <= Size
  BY Bounds, SizeBytes
<1>3. CallTypeOK'
  BY <1>1, Bounds, <1>2 DEF IInv, TypesOK, DrainHigh, ioVars, CallTypeOK, ChipTypeOK
<1>4. IoTypeOK'
  BY <1>1, Bounds, <1>2 DEF IInv, TypesOK, DrainHigh, ioVars, IoTypeOK
<1>5. SizeInv'
  BY <1>1, Bounds, <1>2 DEF IInv, TypesOK, DrainHigh, ioVars, SizeInv, CallTypeOK, InRw
<1>6. CopyInv'
  BY <1>1, Bounds, <1>2 DEF IInv, TypesOK, DrainHigh, ioVars, CopyInv, CallTypeOK, InRw, Done, ChipInv, ChipTypeOK, SizeInv
<1>7. DrainInv'
  BY <1>1, Bounds, <1>2 DEF IInv, TypesOK, DrainHigh, ioVars, DrainInv, Draining, CallTypeOK
<1>8. TaskInv'
  BY <1>1, Bounds, <1>2 DEF IInv, TypesOK, DrainHigh, ioVars, TaskInv, Sending, Room, IoTypeOK, CallTypeOK, InRw
<1>9. FitInv'
  BY <1>1, Bounds, <1>2 DEF IInv, TypesOK, DrainHigh, ioVars, FitInv, FitsIsWhole, IoTypeOK, CallTypeOK, ChipTypeOK, TaskInv, Sending, Room, SizeInv, InRw
<1> QED BY <1>1, <1>3, <1>4, <1>5, <1>6, <1>7, <1>8, <1>9 DEF IInv, TypesOK

LEMMA DrainLowStep ==
    ASSUME IInv, DrainLow, UNCHANGED ioVars
    PROVE  IInv' /\ QueueStep
<1>1. /\ ChipTypeOK' /\ ChipInv' /\ QueueStep
      /\ UNCHANGED << dir, mem, ptr, latched, net, out, Used, Size >>
  BY ChipStill DEF IInv, TypesOK, DrainLow
<1>2. /\ Size % BYTE \in 0 .. CHUNK
      /\ Size \div BYTE \in 0 .. PAGES /\ (Size \div BYTE) * BYTE <= Size
      /\ \A h \in Nat : h * BYTE <= Size => h * BYTE + (Size % BYTE) <= Size
  BY Bounds, SizeBytes
<1>3. CallTypeOK'
  BY <1>1, Bounds, <1>2 DEF IInv, TypesOK, DrainLow, ioVars, CallTypeOK, ChipTypeOK
<1>4. IoTypeOK'
  BY <1>1, Bounds, <1>2 DEF IInv, TypesOK, DrainLow, ioVars, IoTypeOK
<1>5. SizeInv'
  BY <1>1, Bounds, <1>2 DEF IInv, TypesOK, DrainLow, ioVars, SizeInv, CallTypeOK, InRw
<1>6. CopyInv'
  BY <1>1, Bounds, <1>2 DEF IInv, TypesOK, DrainLow, ioVars, CopyInv, CallTypeOK, InRw, Done, ChipInv, ChipTypeOK, SizeInv
<1>7. DrainInv'
  BY <1>1, Bounds, <1>2 DEF IInv, TypesOK, DrainLow, ioVars, DrainInv, Draining, CallTypeOK
<1>8. TaskInv'
  BY <1>1, Bounds, <1>2 DEF IInv, TypesOK, DrainLow, ioVars, TaskInv, Sending, Room, IoTypeOK, CallTypeOK, InRw
<1>9. FitInv'
  BY <1>1, Bounds, <1>2 DEF IInv, TypesOK, DrainLow, ioVars, FitInv, FitsIsWhole, IoTypeOK, CallTypeOK, ChipTypeOK, TaskInv, Sending, Room, SizeInv, InRw
<1> QED BY <1>1, <1>3, <1>4, <1>5, <1>6, <1>7, <1>8, <1>9 DEF IInv, TypesOK

LEMMA HeadLengths ==
    ASSUME NEW h \in Heads, NEW s \in Sizes
    PROVE  /\ h \in Nat /\ s \in Nat /\ h + s \in Totals
           /\ \A k \in 0 .. (h + s) : k \in Offsets
           /\ \A k \in 0 .. h : k \in Offsets
           /\ \A k \in 0 .. s : k \in Offsets
<1>1. h \in Nat /\ s \in Nat /\ h + s \in Totals
  BY SizesAssumption DEF Totals
<1>2. 0 .. h \subseteq 0 .. (h + s) /\ 0 .. s \subseteq 0 .. (h + s)
  BY <1>1
<1>3. 0 .. (h + s) \subseteq Offsets
  BY <1>1 DEF Offsets
<1> QED BY <1>1, <1>2, <1>3

LEMMA Lengths ==
    ASSUME NEW s \in Room
    PROVE  s \in Nat /\ \A k \in 0 .. s : k \in Offsets
<1>1. CASE s \in Heads
  <2>1. PICK z \in Sizes : TRUE
    BY SizesAssumption
  <2> QED BY <1>1, <2>1, HeadLengths
<1>2. CASE s \in Totals
  <2>1. PICK h \in Heads, z \in Sizes : s = h + z
    BY <1>2 DEF Totals
  <2>2. h \in Nat /\ z \in Nat /\ \A k \in 0 .. (h + z) : k \in Offsets
    BY <2>1, HeadLengths
  <2> QED BY <2>1, <2>2
<1> QED BY <1>1, <1>2 DEF Room

LEMMA SmallerIs ==
    ASSUME NEW a \in Nat, NEW b \in Nat
    PROVE  /\ Smaller(a, b) \in Nat /\ Smaller(a, b) <= a /\ Smaller(a, b) <= b
           /\ (b > 0 /\ Smaller(a, b) = 0) => a = 0
BY DEF Smaller

LEMMA SockReadStep ==
    ASSUME IInv, SockRead
    PROVE  IInv' /\ QueueStep
<1>1. /\ ChipTypeOK' /\ ChipInv' /\ QueueStep
      /\ UNCHANGED << dir, mem, ptr, latched, net, out, Used, Size >>
  BY ChipStill DEF IInv, TypesOK, SockRead
<1>3. CallTypeOK'
  BY <1>1, Bounds DEF IInv, TypesOK, SockRead, callVars, Enter, CallTypeOK, ChipTypeOK
<1>4. IoTypeOK'
  BY <1>1, Bounds DEF IInv, TypesOK, SockRead, callVars, Enter, IoTypeOK
<1>5. SizeInv'
  BY <1>1, Bounds DEF IInv, TypesOK, SockRead, callVars, Enter, SizeInv, CallTypeOK, InRw
<1>6. CopyInv'
  BY <1>1, Bounds DEF IInv, TypesOK, SockRead, callVars, Enter, CopyInv, CallTypeOK, InRw, Done, ChipInv, ChipTypeOK, SizeInv
<1>7. DrainInv'
  BY <1>1, Bounds DEF IInv, TypesOK, SockRead, callVars, Enter, DrainInv, Draining, CallTypeOK
<1>8. TaskInv'
  BY <1>1, Bounds DEF IInv, TypesOK, SockRead, callVars, Enter, TaskInv, Sending, Room, IoTypeOK, CallTypeOK, InRw
<1>9. FitInv'
  BY <1>1, Bounds DEF IInv, TypesOK, SockRead, callVars, Enter, FitInv, FitsIsWhole, IoTypeOK, CallTypeOK, ChipTypeOK, TaskInv, Sending, Room, SizeInv, InRw
<1> QED BY <1>1, <1>3, <1>4, <1>5, <1>6, <1>7, <1>8, <1>9 DEF IInv, TypesOK

LEMMA ReadReturnsStep ==
    ASSUME IInv, ReadReturns
    PROVE  IInv' /\ QueueStep
<1>1. /\ ChipTypeOK' /\ ChipInv' /\ QueueStep
      /\ UNCHANGED << dir, mem, ptr, latched, net, out, Used, Size >>
  BY ChipStill DEF IInv, TypesOK, ReadReturns
<1>3. CallTypeOK'
  BY <1>1, Bounds DEF IInv, TypesOK, ReadReturns, callVars, CallTypeOK, ChipTypeOK
<1>4. IoTypeOK'
  BY <1>1, Bounds DEF IInv, TypesOK, ReadReturns, callVars, IoTypeOK
<1>5. SizeInv'
  BY <1>1, Bounds DEF IInv, TypesOK, ReadReturns, callVars, SizeInv, CallTypeOK, InRw
<1>6. CopyInv'
  BY <1>1, Bounds DEF IInv, TypesOK, ReadReturns, callVars, CopyInv, CallTypeOK, InRw, Done, ChipInv, ChipTypeOK, SizeInv
<1>7. DrainInv'
  BY <1>1, Bounds DEF IInv, TypesOK, ReadReturns, callVars, DrainInv, Draining, CallTypeOK
<1>8. TaskInv'
  BY <1>1, Bounds DEF IInv, TypesOK, ReadReturns, callVars, TaskInv, Sending, Room, IoTypeOK, CallTypeOK, InRw
<1>9. FitInv'
  BY <1>1, Bounds DEF IInv, TypesOK, ReadReturns, callVars, FitInv, FitsIsWhole, IoTypeOK, CallTypeOK, ChipTypeOK, TaskInv, Sending, Room, SizeInv, InRw
<1> QED BY <1>1, <1>3, <1>4, <1>5, <1>6, <1>7, <1>8, <1>9 DEF IInv, TypesOK

LEMMA ReadStatusStep ==
    ASSUME IInv, ReadStatus
    PROVE  IInv' /\ QueueStep
<1>1. /\ ChipTypeOK' /\ ChipInv' /\ QueueStep
      /\ UNCHANGED << dir, mem, ptr, latched, net, out, Used, Size >>
  BY ChipStill DEF IInv, TypesOK, ReadStatus
<1>3. CallTypeOK'
  BY <1>1, Bounds DEF IInv, TypesOK, ReadStatus, callVars, CallTypeOK, ChipTypeOK
<1>4. IoTypeOK'
  BY <1>1, Bounds DEF IInv, TypesOK, ReadStatus, callVars, IoTypeOK
<1>5. SizeInv'
  BY <1>1, Bounds DEF IInv, TypesOK, ReadStatus, callVars, SizeInv, CallTypeOK, InRw
<1>6. CopyInv'
  BY <1>1, Bounds DEF IInv, TypesOK, ReadStatus, callVars, CopyInv, TaskInv, Sending, Room, InRw, Done
<1>7. DrainInv'
  BY <1>1, Bounds DEF IInv, TypesOK, ReadStatus, callVars, DrainInv, Draining, CallTypeOK
<1>8. TaskInv'
  BY <1>1, Bounds DEF IInv, TypesOK, ReadStatus, callVars, TaskInv, Sending, Room, IoTypeOK, CallTypeOK, InRw
<1>9. FitInv'
  BY <1>1, Bounds DEF IInv, TypesOK, ReadStatus, callVars, FitInv, FitsIsWhole, IoTypeOK, CallTypeOK, ChipTypeOK, TaskInv, Sending, Room, SizeInv, InRw
<1> QED BY <1>1, <1>3, <1>4, <1>5, <1>6, <1>7, <1>8, <1>9 DEF IInv, TypesOK

LEMMA SendResponseStep ==
    ASSUME IInv, SendResponse
    PROVE  IInv' /\ QueueStep
<1>1. /\ ChipTypeOK' /\ ChipInv' /\ QueueStep
      /\ UNCHANGED << dir, mem, ptr, latched, net, out, Used, Size >>
  BY ChipStill DEF IInv, TypesOK, SendResponse
<1>2. left' \in Nat /\ left' \in Offsets /\ left' \in Heads /\ off = 0 /\ off' = 0 /\ pc' = "next"
  <2>1. left' \in Heads /\ off = 0 /\ off' = 0 /\ pc' = "next"
    BY DEF SendResponse
  <2>2. PICK s \in Sizes : TRUE
    BY SizesAssumption
  <2>3. left' \in Nat /\ \A k \in 0 .. left' : k \in Offsets
    BY <2>1, <2>2, HeadLengths
  <2>4. left' \in 0 .. left'
    BY <2>3
  <2> QED BY <2>1, <2>3, <2>4
<1>3. CallTypeOK'
  BY <1>1, Bounds, <1>2 DEF IInv, TypesOK, SendResponse, callVars, CallTypeOK, ChipTypeOK
<1>4. IoTypeOK'
  BY <1>1, Bounds, <1>2 DEF IInv, TypesOK, SendResponse, callVars, IoTypeOK
<1>5. SizeInv'
  BY <1>1, Bounds, <1>2 DEF IInv, TypesOK, SendResponse, callVars, SizeInv, CallTypeOK, InRw
<1>6. CopyInv'
  BY <1>1, Bounds, <1>2 DEF IInv, TypesOK, SendResponse, callVars, CopyInv, CallTypeOK, InRw, Done, ChipInv, ChipTypeOK, SizeInv
<1>7. DrainInv'
  BY <1>1, Bounds, <1>2 DEF IInv, TypesOK, SendResponse, callVars, DrainInv, Draining, CallTypeOK
<1>8. TaskInv'
  <2>1. off' + left' + 0 <= left'
    <3> DEFINE a == off'
               b == left'
    <3>1. a = 0 /\ b \in Nat
      BY <1>2
    <3> HIDE DEF a, b
    <3>2. a + b + 0 <= b
      BY <3>1
    <3> QED BY <3>2 DEF a, b
  <2>2. task' = "head" /\ dir' = "write"
    BY <1>1 DEF SendResponse
  <2>3. (\E t \in Room : off + left + (IF pc = "next" THEN 0 ELSE req) <= t)'
    BY <1>2, <2>1, <2>2 DEF Room
  <2> QED BY <1>2, <2>2, <2>3 DEF TaskInv, Sending, InRw
<1>9. FitInv'
  BY <1>1, Bounds, <1>2 DEF IInv, TypesOK, SendResponse, callVars, FitInv, FitsIsWhole, IoTypeOK, CallTypeOK, ChipTypeOK, TaskInv, Sending, Room, SizeInv, InRw
<1> QED BY <1>1, <1>3, <1>4, <1>5, <1>6, <1>7, <1>8, <1>9 DEF IInv, TypesOK

LEMMA NextHeadPieceStep ==
    ASSUME IInv, NextHeadPiece
    PROVE  IInv' /\ QueueStep
<1>1. /\ ChipTypeOK' /\ ChipInv' /\ QueueStep
      /\ UNCHANGED << dir, mem, ptr, latched, net, out, Used, Size >>
  BY ChipStill DEF IInv, TypesOK, NextHeadPiece
<1>2. PICK s \in Room : off + left + 0 <= s
  BY DEF NextHeadPiece, IInv, TaskInv, Sending
<1>a. /\ s \in Nat /\ \A k \in 0 .. s : k \in Offsets
      /\ off \in Nat /\ left \in Nat /\ req \in 0 .. CHUNK /\ n \in 0 .. CHUNK /\ CHUNK \in Nat
  BY Bounds, Lengths DEF IInv, TypesOK, IoTypeOK, CallTypeOK
<1>b. /\ req' \in 0 .. CHUNK /\ left' \in Nat /\ left' <= left /\ left' \in Offsets
      /\ off' = off /\ off' \in Nat /\ left' + req' <= left /\ pc' = "status"
  <2> DEFINE k == Smaller(left, CHUNK)
  <2>1. k \in Nat /\ k <= left /\ k <= CHUNK
    BY <1>a, SmallerIs
  <2> HIDE DEF k
  <2>2. req' \in 1 .. k /\ left' = left - req'
    BY DEF NextHeadPiece, k
  <2>3. req' \in 0 .. CHUNK /\ left' \in Nat /\ left' <= left /\ left' + req' <= left
    <3> DEFINE c == req'
    <3>1. c \in 1 .. k /\ left' = left - c
      BY <2>2
    <3> HIDE DEF c
    <3>2. c \in 0 .. CHUNK /\ left - c \in Nat /\ left - c <= left /\ (left - c) + c <= left
      BY <1>a, <2>1, <3>1
    <3> QED BY <3>1, <3>2 DEF c
  <2>4. left' \in 0 .. s
    BY <1>2, <1>a, <2>3
  <2> QED BY <1>a, <2>3, <2>4 DEF NextHeadPiece
<1>3. CallTypeOK'
  BY <1>1, Bounds, <1>2, <1>a, <1>b DEF IInv, TypesOK, NextHeadPiece, CallTypeOK, ChipTypeOK
<1>4. IoTypeOK'
  BY <1>1, Bounds, <1>2, <1>a, <1>b DEF IInv, TypesOK, NextHeadPiece, IoTypeOK
<1>5. SizeInv'
  BY <1>1, Bounds, <1>2, <1>a, <1>b DEF IInv, TypesOK, NextHeadPiece, SizeInv, CallTypeOK, InRw
<1>6. CopyInv'
  BY <1>1, Bounds, <1>2, <1>a, <1>b DEF IInv, TypesOK, NextHeadPiece, CopyInv, CallTypeOK, InRw, Done, ChipInv, ChipTypeOK, SizeInv
<1>7. DrainInv'
  BY <1>1, Bounds, <1>2, <1>a, <1>b DEF IInv, TypesOK, NextHeadPiece, DrainInv, Draining, CallTypeOK
<1>8. TaskInv'
  <2>1. off' + left' + req' <= s
    <3> DEFINE a == off'
               b == left'
               c == req'
    <3>1. a = off /\ b \in Nat /\ c \in 0 .. CHUNK /\ b + c <= left
      BY <1>b
    <3> HIDE DEF a, b, c
    <3>2. a + b + c <= s
      BY <1>2, <1>a, <3>1
    <3> QED BY <3>2 DEF a, b, c
  <2>2. s \in Room' /\ task' = "head" /\ pc' = "status" /\ dir' = "write"
    BY <1>1 DEF NextHeadPiece, Room, IInv, TaskInv, Sending
  <2>3. (\E t \in Room : off + left + (IF pc = "next" THEN 0 ELSE req) <= t)'
    BY <2>1, <2>2
  <2> QED BY <2>2, <2>3 DEF TaskInv, Sending, InRw
<1>9. FitInv'
  BY <1>1, Bounds, <1>2, <1>a, <1>b DEF IInv, TypesOK, NextHeadPiece, FitInv, FitsIsWhole, IoTypeOK, CallTypeOK, ChipTypeOK, TaskInv, Sending, Room, SizeInv, InRw
<1> QED BY <1>1, <1>3, <1>4, <1>5, <1>6, <1>7, <1>8, <1>9 DEF IInv, TypesOK

LEMMA EndWithHeadStep ==
    ASSUME IInv, EndWithHead
    PROVE  IInv' /\ QueueStep
<1>1. /\ ChipTypeOK' /\ ChipInv' /\ QueueStep
      /\ UNCHANGED << dir, mem, ptr, latched, net, out, Used, Size >>
  BY ChipStill DEF IInv, TypesOK, EndWithHead
<1>2. off' = off /\ left' = left /\ pc' = "idle" /\ task' = "none"
  BY DEF EndWithHead
<1>3. CallTypeOK'
  BY <1>1, Bounds, <1>2 DEF IInv, TypesOK, EndWithHead, callVars, CallTypeOK, ChipTypeOK
<1>4. IoTypeOK'
  BY <1>1, Bounds, <1>2 DEF IInv, TypesOK, EndWithHead, callVars, IoTypeOK
<1>5. SizeInv'
  BY <1>1, Bounds, <1>2 DEF IInv, TypesOK, EndWithHead, callVars, SizeInv, CallTypeOK, InRw
<1>6. CopyInv'
  BY <1>1, Bounds, <1>2 DEF IInv, TypesOK, EndWithHead, callVars, CopyInv, CallTypeOK, InRw, Done, ChipInv, ChipTypeOK, SizeInv
<1>7. DrainInv'
  BY <1>1, Bounds, <1>2 DEF IInv, TypesOK, EndWithHead, callVars, DrainInv, Draining, CallTypeOK
<1>8. TaskInv'
  BY <1>2 DEF TaskInv, Sending, InRw
<1>9. FitInv'
  BY <1>1, Bounds, <1>2 DEF IInv, TypesOK, EndWithHead, callVars, FitInv, FitsIsWhole, IoTypeOK, CallTypeOK, ChipTypeOK, TaskInv, Sending, Room, SizeInv, InRw
<1> QED BY <1>1, <1>3, <1>4, <1>5, <1>6, <1>7, <1>8, <1>9 DEF IInv, TypesOK

LEMMA SendFileStep ==
    ASSUME IInv, SendFile
    PROVE  IInv' /\ QueueStep
<1>1. /\ ChipTypeOK' /\ ChipInv' /\ QueueStep
      /\ UNCHANGED << dir, mem, ptr, latched, net, out, Used, Size >>
  BY ChipStill DEF IInv, TypesOK, SendFile
<1>2. left' \in Nat /\ left' \in Offsets /\ left' \in Sizes /\ off' = off /\ pc' = "next"
  <2>1. left' \in Sizes /\ off' = off /\ pc' = "next"
    BY DEF SendFile
  <2>2. PICK h \in Heads : TRUE
    BY SizesAssumption
  <2>3. left' \in Nat /\ \A k \in 0 .. left' : k \in Offsets
    BY <2>1, <2>2, HeadLengths
  <2>4. left' \in 0 .. left'
    BY <2>3
  <2> QED BY <2>1, <2>3, <2>4
<1>3. CallTypeOK'
  BY <1>1, Bounds, <1>2 DEF IInv, TypesOK, SendFile, callVars, CallTypeOK, ChipTypeOK
<1>4. IoTypeOK'
  BY <1>1, Bounds, <1>2 DEF IInv, TypesOK, SendFile, callVars, IoTypeOK
<1>5. SizeInv'
  BY <1>1, Bounds, <1>2 DEF IInv, TypesOK, SendFile, callVars, SizeInv, CallTypeOK, InRw
<1>6. CopyInv'
  BY <1>1, Bounds, <1>2 DEF IInv, TypesOK, SendFile, callVars, CopyInv, CallTypeOK, InRw, Done, ChipInv, ChipTypeOK, SizeInv
<1>7. DrainInv'
  BY <1>1, Bounds, <1>2 DEF IInv, TypesOK, SendFile, callVars, DrainInv, Draining, CallTypeOK
<1>8. TaskInv'
  <2>1. PICK h \in Heads : off + left + 0 <= h
    BY DEF SendFile, IInv, TaskInv, Sending, Room
  <2>2. h \in Nat /\ off \in Nat /\ left = 0 /\ h + left' \in Totals
    BY <1>2, <2>1, HeadLengths, Bounds DEF SendFile, IInv, TypesOK, IoTypeOK
  <2>3. off' + left' + 0 <= h + left'
    <3> DEFINE b == left'
    <3>1. b \in Nat /\ off' = off
      BY <1>2
    <3> HIDE DEF b
    <3>2. off + b + 0 <= h + b
      BY <2>1, <2>2, <3>1
    <3> QED BY <3>1, <3>2 DEF b
  <2>4. task' \in {"rom", "mmc"} /\ dir' = "write"
    BY <1>1 DEF SendFile, IInv, TaskInv, Sending
  <2>5. (\E t \in Room : off + left + (IF pc = "next" THEN 0 ELSE req) <= t)'
    BY <1>2, <2>2, <2>3, <2>4 DEF Room
  <2> QED BY <1>2, <2>4, <2>5 DEF TaskInv, Sending, InRw
<1>9. FitInv'
  BY <1>1, Bounds, <1>2 DEF IInv, TypesOK, SendFile, callVars, FitInv, FitsIsWhole, IoTypeOK, CallTypeOK, ChipTypeOK, TaskInv, Sending, Room, SizeInv, InRw
<1> QED BY <1>1, <1>3, <1>4, <1>5, <1>6, <1>7, <1>8, <1>9 DEF IInv, TypesOK

LEMMA NextRomChunkStep ==
    ASSUME IInv, NextRomChunk
    PROVE  IInv' /\ QueueStep
<1>1. /\ ChipTypeOK' /\ ChipInv' /\ QueueStep
      /\ UNCHANGED << dir, mem, ptr, latched, net, out, Used, Size >>
  BY ChipStill DEF IInv, TypesOK, NextRomChunk
<1>2. PICK s \in Room : off + left + 0 <= s
  BY DEF NextRomChunk, IInv, TaskInv, Sending, Room
<1>a. /\ s \in Nat /\ \A k \in 0 .. s : k \in Offsets
      /\ off \in Nat /\ left \in Nat /\ req \in 0 .. CHUNK /\ n \in 0 .. CHUNK /\ CHUNK \in Nat
  BY Bounds, Lengths DEF IInv, TypesOK, IoTypeOK, CallTypeOK
<1>b. /\ req' \in 0 .. CHUNK /\ left' \in Nat /\ left' <= left /\ left' \in Offsets
      /\ off' = off /\ off' \in Nat /\ (pc' = "status" => left' + req' <= left)
  <2> DEFINE k == Smaller(left, CHUNK)
  <2>1. k \in Nat /\ k <= left /\ k <= CHUNK
    BY <1>a, SmallerIs
  <2> HIDE DEF k
  <2>2. \/ pc' = "idle" /\ UNCHANGED << left, req >>
        \/ req' = k /\ left' = left - req'
    BY DEF NextRomChunk, k
  <2>3. /\ req' \in 0 .. CHUNK /\ left' \in Nat /\ left' <= left
        /\ (pc' = "status" => left' + req' <= left)
    BY <1>a, <2>1, <2>2
  <2>4. left' \in 0 .. s
    BY <1>2, <1>a, <2>3
  <2> QED BY <1>a, <2>3, <2>4 DEF NextRomChunk
<1>3. CallTypeOK'
  BY <1>1, Bounds, <1>2, <1>a, <1>b DEF IInv, TypesOK, NextRomChunk, CallTypeOK, ChipTypeOK
<1>4. IoTypeOK'
  BY <1>1, Bounds, <1>2, <1>a, <1>b DEF IInv, TypesOK, NextRomChunk, IoTypeOK
<1>5. SizeInv'
  BY <1>1, Bounds, <1>2, <1>a, <1>b DEF IInv, TypesOK, NextRomChunk, SizeInv, CallTypeOK, InRw
<1>6. CopyInv'
  BY <1>1, Bounds, <1>2, <1>a, <1>b DEF IInv, TypesOK, NextRomChunk, CopyInv, CallTypeOK, InRw, Done, ChipInv, ChipTypeOK, SizeInv
<1>7. DrainInv'
  BY <1>1, Bounds, <1>2, <1>a, <1>b DEF IInv, TypesOK, NextRomChunk, DrainInv, Draining, CallTypeOK
<1>8. TaskInv'
  <2>1. Sending' => off' + left' + (IF pc' = "next" THEN 0 ELSE req') <= s
    <3>1. Sending' => pc' = "status"
      BY DEF Sending, NextRomChunk
    <3>2. pc' = "status" => off' + left' + req' <= s
      <4> DEFINE a == off'
                 b == left'
                 c == req'
      <4>1. pc' = "status" => b + c <= left
        BY <1>b
      <4>2. a = off /\ b \in Nat /\ c \in 0 .. CHUNK
        BY <1>b
      <4> HIDE DEF a, b, c
      <4>3. pc' = "status" => a + b + c <= s
        BY <1>2, <1>a, <4>1, <4>2
      <4> QED BY <4>3 DEF a, b, c
    <3> QED BY <3>1, <3>2
  <2>2. Sending' => s \in Room'
    BY DEF NextRomChunk, Sending, Room
  <2> QED BY <2>1, <2>2, Bounds, <1>1 DEF IInv, TypesOK, NextRomChunk, TaskInv, Sending, InRw, CallTypeOK, IoTypeOK
<1>9. FitInv'
  BY <1>1, Bounds, <1>2, <1>a, <1>b DEF IInv, TypesOK, NextRomChunk, FitInv, FitsIsWhole, IoTypeOK, CallTypeOK, ChipTypeOK, TaskInv, Sending, Room, SizeInv, InRw
<1> QED BY <1>1, <1>3, <1>4, <1>5, <1>6, <1>7, <1>8, <1>9 DEF IInv, TypesOK

LEMMA NextMmcChunkStep ==
    ASSUME IInv, NextMmcChunk
    PROVE  IInv' /\ QueueStep
<1>1. /\ ChipTypeOK' /\ ChipInv' /\ QueueStep
      /\ UNCHANGED << dir, mem, ptr, latched, net, out, Used, Size >>
  BY ChipStill DEF IInv, TypesOK, NextMmcChunk
<1>2. PICK s \in Room : off + left + 0 <= s
  BY DEF NextMmcChunk, IInv, TaskInv, Sending, Room
<1>a. /\ s \in Nat /\ \A k \in 0 .. s : k \in Offsets
      /\ off \in Nat /\ left \in Nat /\ req \in 0 .. CHUNK /\ n \in 0 .. CHUNK /\ CHUNK \in Nat
  BY Bounds, Lengths DEF IInv, TypesOK, IoTypeOK, CallTypeOK
<1>b. /\ req' \in 0 .. CHUNK /\ left' \in Nat /\ left' <= left /\ left' \in Offsets
      /\ off' = off /\ off' \in Nat /\ (pc' = "status" => left' + req' <= left)
  <2> DEFINE k == Smaller(left, CHUNK)
  <2>1. k \in Nat /\ k <= left /\ k <= CHUNK
    BY <1>a, SmallerIs
  <2> HIDE DEF k
  <2>2. \/ req' = k /\ left' = left - req'
        \/ req' \in 0 .. (k - 1) /\ left' = 0
    BY DEF NextMmcChunk, k
  <2>3. /\ req' \in 0 .. CHUNK /\ left' \in Nat /\ left' <= left
        /\ (pc' = "status" => left' + req' <= left)
    BY <1>a, <2>1, <2>2
  <2>4. left' \in 0 .. s
    BY <1>2, <1>a, <2>3
  <2> QED BY <1>a, <2>3, <2>4 DEF NextMmcChunk
<1>3. CallTypeOK'
  BY <1>1, Bounds, <1>2, <1>a, <1>b DEF IInv, TypesOK, NextMmcChunk, CallTypeOK, ChipTypeOK
<1>4. IoTypeOK'
  BY <1>1, Bounds, <1>2, <1>a, <1>b DEF IInv, TypesOK, NextMmcChunk, IoTypeOK
<1>5. SizeInv'
  BY <1>1, Bounds, <1>2, <1>a, <1>b DEF IInv, TypesOK, NextMmcChunk, SizeInv, CallTypeOK, InRw
<1>6. CopyInv'
  BY <1>1, Bounds, <1>2, <1>a, <1>b DEF IInv, TypesOK, NextMmcChunk, CopyInv, CallTypeOK, InRw, Done, ChipInv, ChipTypeOK, SizeInv
<1>7. DrainInv'
  BY <1>1, Bounds, <1>2, <1>a, <1>b DEF IInv, TypesOK, NextMmcChunk, DrainInv, Draining, CallTypeOK
<1>8. TaskInv'
  <2>1. Sending' => off' + left' + (IF pc' = "next" THEN 0 ELSE req') <= s
    <3>1. Sending' => pc' = "status"
      BY DEF Sending, NextMmcChunk
    <3>2. pc' = "status" => off' + left' + req' <= s
      <4> DEFINE a == off'
                 b == left'
                 c == req'
      <4>1. pc' = "status" => b + c <= left
        BY <1>b
      <4>2. a = off /\ b \in Nat /\ c \in 0 .. CHUNK
        BY <1>b
      <4> HIDE DEF a, b, c
      <4>3. pc' = "status" => a + b + c <= s
        BY <1>2, <1>a, <4>1, <4>2
      <4> QED BY <4>3 DEF a, b, c
    <3> QED BY <3>1, <3>2
  <2>2. Sending' => s \in Room'
    BY DEF NextMmcChunk, Sending, Room
  <2> QED BY <2>1, <2>2, Bounds, <1>1 DEF IInv, TypesOK, NextMmcChunk, TaskInv, Sending, InRw, CallTypeOK, IoTypeOK
<1>9. FitInv'
  BY <1>1, Bounds, <1>2, <1>a, <1>b DEF IInv, TypesOK, NextMmcChunk, FitInv, FitsIsWhole, IoTypeOK, CallTypeOK, ChipTypeOK, TaskInv, Sending, Room, SizeInv, InRw
<1> QED BY <1>1, <1>3, <1>4, <1>5, <1>6, <1>7, <1>8, <1>9 DEF IInv, TypesOK

LEMMA WriteStatusStep ==
    ASSUME IInv, WriteStatus
    PROVE  IInv' /\ QueueStep
<1>1. /\ ChipTypeOK' /\ ChipInv' /\ QueueStep
      /\ UNCHANGED << dir, mem, ptr, latched, net, out, Used, Size >>
  BY ChipStill DEF IInv, TypesOK, WriteStatus
<1>2. PICK s \in Room : off + left + req <= s
  BY DEF WriteStatus, IInv, TaskInv, Sending, Room
<1>a. /\ s \in Nat /\ \A k \in 0 .. s : k \in Offsets
      /\ off \in Nat /\ left \in Nat /\ req \in 0 .. CHUNK /\ n \in 0 .. CHUNK /\ CHUNK \in Nat
  BY Bounds, Lengths DEF IInv, TypesOK, IoTypeOK, CallTypeOK
<1>b. off' \in {off, off + req} /\ off' \in Nat /\ off' \in Offsets /\ left' = left /\ req' = req
  <2>1. off' \in {off, off + req} /\ left' = left /\ req' = req
    BY DEF WriteStatus, Enter, ChunkDone
  <2>2. off' \in 0 .. s
    BY <1>2, <1>a, <2>1
  <2> QED BY <1>a, <2>1, <2>2
<1>3. CallTypeOK'
  <2>1. Len(buf') <= CHUNK
    BY <1>2, <1>a, <1>b DEF WriteStatus, Enter, Bytes, IInv, TypesOK, CallTypeOK
  <2> QED BY <1>1, <2>1, Bounds DEF IInv, TypesOK, WriteStatus, Enter, ChunkDone, CallTypeOK
<1>4. IoTypeOK'
  <2>1. task' \in {"none", "read", "head", "rom", "mmc", "closing"}
    BY DEF WriteStatus, Enter, ChunkDone, IInv, TypesOK, IoTypeOK
  <2>2. cut' \in BOOLEAN
    BY DEF WriteStatus, IInv, TypesOK, IoTypeOK
  <2> QED BY <1>b, <2>1, <2>2 DEF WriteStatus, IInv, TypesOK, IoTypeOK
<1>5. SizeInv'
  BY <1>1, Bounds, <1>2, <1>a, <1>b DEF IInv, TypesOK, WriteStatus, Enter, ChunkDone, SizeInv, CallTypeOK, InRw
<1>6. CopyInv'
  <2>1. pc' \in {"low", "idle", "next"} /\ dir = "write"
    BY DEF WriteStatus, Enter, ChunkDone, IInv, TaskInv, Sending, Room
  <2>2. Bytes(off, req) \in Seq(Values) /\ Len(Bytes(off, req)) = req
    <3>1. ASSUME NEW i \in 1 .. req
          PROVE  off + i - 1 \in Values
      <4>1. off + i - 1 \in 0 .. s
        BY <1>2, <1>a
      <4> QED BY <1>a, <4>1 DEF Values
    <3> QED BY <1>a, <3>1 DEF Bytes
  <2>3. /\ buf' \in Seq(Values)
        /\ pc' = "low" => Len(buf') = req'
    BY <2>2 DEF WriteStatus, Enter, ChunkDone, IInv, CopyInv
  <2> QED BY <1>1, <2>1, <2>3 DEF CopyInv, InRw
<1>7. DrainInv'
  BY <1>1, Bounds, <1>2, <1>a, <1>b DEF IInv, TypesOK, WriteStatus, Enter, ChunkDone, DrainInv, Draining, CallTypeOK
<1>8. TaskInv'
  <2>1. Sending' => off' + left' + (IF pc' = "next" THEN 0 ELSE req') <= s
    <3>1. \/ pc' = "low" /\ off' = off
          \/ pc' = "next" /\ off' = off + req
          \/ ~Sending'
      BY DEF Sending, WriteStatus, Enter, ChunkDone
    <3>2. (off + req) + left + 0 <= s
      BY <1>2, <1>a
    <3> QED BY <1>2, <1>b, <3>1, <3>2
  <2>2. Sending' => s \in Room'
    BY DEF WriteStatus, ChunkDone, Sending, Room
  <2> QED BY <2>1, <2>2, Bounds, <1>1 DEF IInv, TypesOK, WriteStatus, Enter, ChunkDone, TaskInv, Sending, InRw, CallTypeOK, IoTypeOK
<1>9. FitInv'
  <2>1. pc' \in {"low", "idle", "next"} /\ dir = "write" /\ off' >= off /\ pc = "status" /\ cut' = cut
    BY <1>a, <1>b DEF WriteStatus, Enter, ChunkDone, IInv, TaskInv, Sending, Room
  <2>2. Used <= off /\ (cut => off > RING)
    BY <1>a, <2>1 DEF IInv, FitInv, FitsIsWhole
  <2> QED BY <1>1, <1>a, <1>b, <2>1, <2>2, Bounds DEF FitInv, FitsIsWhole
<1> QED BY <1>1, <1>3, <1>4, <1>5, <1>6, <1>7, <1>8, <1>9 DEF IInv, TypesOK

LEMMA WriteReturnsStep ==
    ASSUME IInv, WriteReturns
    PROVE  IInv' /\ QueueStep
<1>1. /\ ChipTypeOK' /\ ChipInv' /\ QueueStep
      /\ UNCHANGED << dir, mem, ptr, latched, net, out, Used, Size >>
  BY ChipStill DEF IInv, TypesOK, WriteReturns
<1>2. PICK s \in Room : off + left + req <= s
  BY DEF WriteReturns, IInv, TaskInv, Sending, Room
<1>a. /\ s \in Nat /\ \A k \in 0 .. s : k \in Offsets
      /\ off \in Nat /\ left \in Nat /\ req \in 0 .. CHUNK /\ n \in 0 .. CHUNK /\ CHUNK \in Nat
  BY Bounds, Lengths DEF IInv, TypesOK, IoTypeOK, CallTypeOK
<1>b. off' \in {off, off + req} /\ off' \in Nat /\ off' \in Offsets /\ left' = left /\ req' = req
  <2>1. off' \in {off, off + req} /\ left' = left /\ req' = req
    BY DEF WriteReturns, callVars, ChunkDone
  <2>2. off' \in 0 .. s
    BY <1>2, <1>a, <2>1
  <2> QED BY <1>a, <2>1, <2>2
<1>3. CallTypeOK'
  BY <1>1, Bounds, <1>2, <1>a, <1>b DEF IInv, TypesOK, WriteReturns, callVars, ChunkDone, CallTypeOK, ChipTypeOK
<1>4. IoTypeOK'
  <2>1. task' \in {"none", "read", "head", "rom", "mmc", "closing"}
    BY DEF WriteReturns, callVars, ChunkDone, IInv, TypesOK, IoTypeOK
  <2>2. cut' \in BOOLEAN
    BY DEF WriteReturns, IInv, TypesOK, IoTypeOK
  <2> QED BY <1>b, <2>1, <2>2 DEF WriteReturns, IInv, TypesOK, IoTypeOK
<1>5. SizeInv'
  BY <1>1, Bounds, <1>2, <1>a, <1>b DEF IInv, TypesOK, WriteReturns, callVars, ChunkDone, SizeInv, CallTypeOK, InRw
<1>6. CopyInv'
  BY <1>1, Bounds, <1>2, <1>a, <1>b DEF IInv, TypesOK, WriteReturns, callVars, ChunkDone, CopyInv, CallTypeOK, InRw, Done, ChipInv, ChipTypeOK, SizeInv
<1>7. DrainInv'
  BY <1>1, Bounds, <1>2, <1>a, <1>b DEF IInv, TypesOK, WriteReturns, callVars, ChunkDone, DrainInv, Draining, CallTypeOK
<1>8. TaskInv'
  <2>1. Sending' => off' + left' + (IF pc' = "next" THEN 0 ELSE req') <= s
    <3>1. \/ pc' = "status" /\ off' = off
          \/ pc' = "next" /\ off' = off + req
          \/ ~Sending'
      BY DEF Sending, WriteReturns, callVars, ChunkDone
    <3>2. (off + req) + left + 0 <= s
      BY <1>2, <1>a
    <3> QED BY <1>2, <1>b, <3>1, <3>2
  <2>2. Sending' => s \in Room'
    BY DEF WriteReturns, ChunkDone, Sending, Room
  <2> QED BY <2>1, <2>2, Bounds, <1>1 DEF IInv, TypesOK, WriteReturns, callVars, ChunkDone, TaskInv, Sending, InRw, CallTypeOK, IoTypeOK
<1>9. FitInv'
  <2>1. dir = "write" /\ pc = "ret" /\ n <= req /\ Used <= off + n /\ (n # 0 /\ n < req => off + req > RING) /\ (cut => off > RING)
    BY DEF WriteReturns, IInv, TaskInv, Sending, Room, FitInv, SizeInv, FitsIsWhole
  <2>2. \/ n = 0 /\ pc' = "status" /\ UNCHANGED << off, cut >>
        \/ n # 0 /\ pc' \in {"idle", "next"} /\ off' = off + req /\ (cut' => (cut \/ n < req))
    BY DEF WriteReturns, ChunkDone
  <2>3. Used <= off' /\ (cut' => off' > RING)
    <3>1. Used \in Nat /\ RING \in Nat
      BY Bounds
    <3>2. CASE n = 0
      BY <1>a, <2>1, <2>2, <3>1, <3>2
    <3>3. CASE n # 0
      <4>1. off' = off + req /\ (cut' => (cut \/ n < req))
        BY <2>2, <3>3
      <4>2. Used <= off'
        BY <1>a, <2>1, <3>1, <4>1
      <4>3. n < req => off' > RING
        BY <1>a, <2>1, <3>3, <4>1
      <4>4. ASSUME cut PROVE off' > RING
        <5>1. off > RING
          BY <2>1, <4>4
        <5> QED BY <1>a, <3>1, <4>1, <5>1
      <4> QED BY <4>1, <4>2, <4>3, <4>4
    <3> QED BY <3>2, <3>3
  <2>4. pc' \in {"status", "idle", "next"}
    BY <2>2
  <2> QED BY <1>1, <1>a, <1>b, <2>3, <2>4, Bounds DEF FitInv, FitsIsWhole
<1> QED BY <1>1, <1>3, <1>4, <1>5, <1>6, <1>7, <1>8, <1>9 DEF IInv, TypesOK

LEMMA CloseStep ==
    ASSUME IInv, Close
    PROVE  IInv' /\ QueueStep
<1>1. /\ ChipTypeOK' /\ ChipInv' /\ QueueStep
      /\ UNCHANGED << dir, mem, ptr, latched, net, out, Used, Size >>
  BY ChipStill DEF IInv, TypesOK, Close
<1>3. CallTypeOK'
  BY <1>1, Bounds DEF IInv, TypesOK, Close, callVars, CallTypeOK, ChipTypeOK
<1>4. IoTypeOK'
  BY <1>1, Bounds DEF IInv, TypesOK, Close, callVars, IoTypeOK
<1>5. SizeInv'
  BY <1>1, Bounds DEF IInv, TypesOK, Close, callVars, SizeInv, CallTypeOK, InRw
<1>6. CopyInv'
  BY <1>1, Bounds DEF IInv, TypesOK, Close, callVars, CopyInv, CallTypeOK, InRw, Done, ChipInv, ChipTypeOK, SizeInv
<1>7. DrainInv'
  BY <1>1, Bounds DEF IInv, TypesOK, Close, callVars, DrainInv, Draining, CallTypeOK
<1>8. TaskInv'
  BY <1>1, Bounds DEF IInv, TypesOK, Close, callVars, TaskInv, Sending, Room, IoTypeOK, CallTypeOK, InRw
<1>9. FitInv'
  BY <1>1, Bounds DEF IInv, TypesOK, Close, callVars, FitInv, FitsIsWhole, IoTypeOK, CallTypeOK, ChipTypeOK, TaskInv, Sending, Room, SizeInv, InRw
<1> QED BY <1>1, <1>3, <1>4, <1>5, <1>6, <1>7, <1>8, <1>9 DEF IInv, TypesOK

LEMMA PeerGoneStep ==
    ASSUME IInv, PeerGone
    PROVE  IInv' /\ QueueStep
<1>1. /\ ChipTypeOK' /\ ChipInv' /\ QueueStep
      /\ UNCHANGED << dir, mem, ptr, latched, net, out, Used, Size >>
  BY ChipStill DEF IInv, TypesOK, PeerGone
<1>3. CallTypeOK'
  BY <1>1, Bounds DEF IInv, TypesOK, PeerGone, callVars, CallTypeOK, ChipTypeOK
<1>4. IoTypeOK'
  BY <1>1, Bounds DEF IInv, TypesOK, PeerGone, callVars, IoTypeOK
<1>5. SizeInv'
  BY <1>1, Bounds DEF IInv, TypesOK, PeerGone, callVars, SizeInv, CallTypeOK, InRw
<1>6. CopyInv'
  BY <1>1, Bounds DEF IInv, TypesOK, PeerGone, callVars, CopyInv, CallTypeOK, InRw, Done, ChipInv, ChipTypeOK, SizeInv
<1>7. DrainInv'
  BY <1>1, Bounds DEF IInv, TypesOK, PeerGone, callVars, DrainInv, Draining, CallTypeOK
<1>8. TaskInv'
  BY <1>1, Bounds DEF IInv, TypesOK, PeerGone, callVars, TaskInv, Sending, Room, IoTypeOK, CallTypeOK, InRw
<1>9. FitInv'
  BY <1>1, Bounds DEF IInv, TypesOK, PeerGone, callVars, FitInv, FitsIsWhole, IoTypeOK, CallTypeOK, ChipTypeOK, TaskInv, Sending, Room, SizeInv, InRw
<1> QED BY <1>1, <1>3, <1>4, <1>5, <1>6, <1>7, <1>8, <1>9 DEF IInv, TypesOK

(* The address that a byte of the call is copied from, or to.              *)
LEMMA CopyAddress ==
    ASSUME IInv, CopyByte
    PROVE  /\ Done \in Nat /\ Done + 1 <= n /\ n <= Size /\ n <= req
           /\ n \in Nat /\ len \in Nat /\ len > 0 /\ Done' = Done + 1
           /\ Cell(addr) = CellAt(latched, Done)
           /\ addr' \in Pointer /\ Value(addr') = (latched + (Done + 1)) % WRAP
<1>1. /\ pc = "copy" /\ len > 0 /\ len' = len - 1 /\ n' = n /\ addr' = Advanced(addr)
      /\ n \in Nat /\ len \in Nat /\ len <= n /\ n <= Size /\ n <= req
  BY Bounds DEF CopyByte, IInv, TypesOK, CallTypeOK, SizeInv
<1>2. Done \in Nat /\ Done + 1 <= n /\ Done' = Done + 1
  BY <1>1 DEF Done
<1>3. addr \in Pointer /\ latched \in Nat /\ Value(addr) = (latched + Done) % WRAP
  BY <1>1, Rings DEF IInv, TypesOK, CallTypeOK, ChipTypeOK, CopyInv, Pages
<1>4. latched + Done \in Nat /\ (latched + Done) + 1 = latched + (Done + 1)
  BY <1>2, <1>3
<1>5. Cell(addr) = CellAt(latched, Done)
  <2>1. Cell(addr) = ((latched + Done) % WRAP) % RING
    BY <1>3, Pointers
  <2> QED BY <1>4, <2>1, WrapKeepsCell DEF CellAt
<1>6. addr' \in Pointer /\ Value(addr') = (latched + (Done + 1)) % WRAP
  <2>1. addr' \in Pointer /\ Value(addr') = (((latched + Done) % WRAP) + 1) % WRAP
    BY <1>1, <1>3, NextAddress
  <2>2. (((latched + Done) % WRAP) + 1) % WRAP = ((latched + Done) + 1) % WRAP
    BY <1>4, Rings, ModAdd
  <2> QED BY <1>4, <2>1, <2>2
<1> QED BY <1>1, <1>2, <1>5, <1>6

LEMMA CopyByteStep ==
    ASSUME IInv, CopyByte, UNCHANGED ioVars
    PROVE  IInv' /\ QueueStep
<1>1. /\ Done \in Nat /\ Done + 1 <= n /\ n <= Size /\ n <= req
      /\ n \in Nat /\ len \in Nat /\ len > 0 /\ Done' = Done + 1
      /\ Cell(addr) = CellAt(latched, Done)
      /\ addr' \in Pointer /\ Value(addr') = (latched + (Done + 1)) % WRAP
  BY CopyAddress
<1>2. /\ pc = "copy" /\ len' = len - 1 /\ pc' = pc
      /\ UNCHANGED << dir, ptr, latched, net, out, req, low, n, high, sr, task, left, off, cut >>
  BY DEF CopyByte, ioVars
<1>3. /\ buf \in Seq(Values) /\ ChipTypeOK /\ ChipInv
      /\ (dir = "write" => Len(buf) = req) /\ (dir = "read" => Len(buf) = Done)
      /\ \A i \in 1 .. Done : buf[i] = mem[CellAt(latched, i - 1)]
  BY <1>2 DEF IInv, TypesOK, CopyInv, InRw
<1>4. latched \in Nat /\ RING \in Nat /\ Used \in Nat /\ CHUNK \in Nat /\ req \in 0 .. CHUNK /\ Size <= RING
      /\ (dir = "write" => Size = RING - Used) /\ dir \in {"read", "write"}
  BY Bounds, Rings DEF IInv, TypesOK, ChipTypeOK, CallTypeOK, Pages
<1> DEFINE Copied ==
      /\ ChipTypeOK' /\ ChipInv' /\ QueueStep /\ UNCHANGED << Used, Size >>
      /\ buf' \in Seq(Values) /\ Len(buf') <= CHUNK
      /\ (dir = "write" => Len(buf') = req) /\ (dir = "read" => Len(buf') = Done + 1)
      /\ \A i \in 1 .. Done + 1 : buf'[i] = mem'[CellAt(latched, i - 1)]
<1>5. Copied
  <2>1. ASSUME dir = "read"
        PROVE  Copied
    <3>1. buf' = Append(buf, mem[CellAt(latched, Done)]) /\ UNCHANGED mem
      BY <1>1, <2>1 DEF CopyByte
    <3>2. /\ ChipTypeOK' /\ ChipInv' /\ QueueStep /\ UNCHANGED << Used, Size >>
      BY <1>2, <1>3, <3>1, ChipStill DEF chipVars
    <3>3. mem[CellAt(latched, Done)] \in Values
      <4>1. Done \in 0 .. (RING - 1)
        BY <1>1, <1>4, Bounds
      <4>2. CellAt(latched, Done) \in 0 .. (RING - 1)
        BY <1>4, <4>1, Cells
      <4> QED BY <1>3, <4>2 DEF ChipTypeOK
    <3>4. /\ buf' \in Seq(Values) /\ Len(buf') = Done + 1 /\ buf'[Done + 1] = mem[CellAt(latched, Done)]
          /\ \A i \in 1 .. Done : buf'[i] = buf[i]
      BY <1>1, <1>3, <2>1, <3>1, <3>3
    <3>5. \A i \in 1 .. Done + 1 : buf'[i] = mem[CellAt(latched, i - 1)]
      <4> SUFFICES ASSUME NEW i \in 1 .. Done + 1
                   PROVE  buf'[i] = mem[CellAt(latched, i - 1)]
        OBVIOUS
      <4>1. CASE i = Done + 1
        <5>1. i - 1 = Done
          BY <1>1, <4>1
        <5> QED BY <3>4, <4>1, <5>1
      <4>2. CASE i # Done + 1
        <5>1. i \in 1 .. Done
          BY <1>1, <4>2
        <5> QED BY <1>3, <3>4, <5>1
      <4> QED BY <4>1, <4>2
    <3> QED BY <1>1, <1>4, <2>1, <3>1, <3>2, <3>4, <3>5
  <2>2. ASSUME dir = "write"
        PROVE  Copied
    <3> DEFINE b == buf[Done + 1]
    <3>1. /\ mem' = [mem EXCEPT ![CellAt(latched, Done)] = b] /\ UNCHANGED buf
      <4>1. n - len + 1 = Done + 1
        BY DEF Done
      <4> QED BY <1>1, <2>2, <4>1 DEF CopyByte
    <3>2. b \in Values /\ Done \in 0 .. (RING - Used - 1)
      <4>1. Done + 1 \in 1 .. Len(buf)
        BY <1>1, <1>3, <1>4, <2>2
      <4> QED BY <1>1, <1>3, <1>4, <2>2, <4>1
    <3> HIDE DEF b
    <3>3. UNCHANGED << dir, latched, net, ptr, out >>
      BY <1>2
    <3>4. /\ ChipTypeOK' /\ ChipInv' /\ UNCHANGED << Used, Size, Waiting >>
          /\ mem'[CellAt(latched, Done)] = b
          /\ \A j \in 0 .. (Done - 1) : mem'[CellAt(latched, j)] = mem[CellAt(latched, j)]
      BY <1>3, <2>2, <3>1, <3>2, <3>3, WriteCell
    <3>5. \A i \in 1 .. Done + 1 : buf[i] = mem'[CellAt(latched, i - 1)]
      <4> SUFFICES ASSUME NEW i \in 1 .. Done + 1
                   PROVE  buf[i] = mem'[CellAt(latched, i - 1)]
        OBVIOUS
      <4>1. CASE i = Done + 1
        <5>1. i - 1 = Done
          BY <1>1, <4>1
        <5> QED BY <3>4, <4>1, <5>1 DEF b
      <4>2. CASE i # Done + 1
        <5>1. i \in 1 .. Done /\ i - 1 \in 0 .. (Done - 1)
          BY <1>1, <4>2
        <5> QED BY <1>3, <3>4, <5>1
      <4> QED BY <4>1, <4>2
    <3>6. QueueStep
      BY <1>2, <3>4 DEF QueueStep
    <3> QED BY <1>3, <1>4, <2>2, <3>1, <3>4, <3>5, <3>6
  <2> QED BY <1>4, <2>1, <2>2
<1>6. CallTypeOK'
  <2>1. len' \in 0 .. CHUNK
    <3>1. len \in 0 .. CHUNK
      BY DEF IInv, TypesOK, CallTypeOK
    <3> QED BY <1>1, <1>2, <1>4, <3>1
  <2>2. Len(buf') <= CHUNK /\ Len(out') <= CHUNK
    BY <1>2, <1>5 DEF IInv, TypesOK, CallTypeOK
  <2> QED BY <1>1, <1>2, <2>1, <2>2 DEF IInv, TypesOK, CallTypeOK
<1>7. IoTypeOK'
  BY <1>2 DEF IInv, TypesOK, IoTypeOK
<1>8. SizeInv'
  BY <1>1, <1>2, <1>5, Bounds DEF IInv, SizeInv
<1>9. CopyInv'
  <2>1. (Value(addr) = (latched + Done) % WRAP)'
    BY <1>1, <1>2 DEF Value
  <2> QED BY <1>1, <1>2, <1>5, <2>1 DEF CopyInv, CellAt
<1>10. DrainInv'
  BY <1>2 DEF DrainInv, Draining
<1>11. TaskInv'
  BY <1>2 DEF IInv, TaskInv, Sending, Room, InRw
<1>12. FitInv'
  BY <1>2, <1>5 DEF IInv, FitInv, FitsIsWhole
<1> QED BY <1>5, <1>6, <1>7, <1>8, <1>9, <1>10, <1>11, <1>12 DEF IInv, TypesOK

(* What the callers and the chip find when no call is under way.           *)
LEMMA Forgets ==
    ASSUME Forget
    PROVE  /\ low' = 0 /\ high' = 0 /\ addr' \in Pointer
           /\ buf' = << >> /\ buf' \in Seq(Values) /\ Len(buf') = 0
<1>1. HIGHS \in Nat \ {0} /\ BYTE \in Nat \ {0}
  BY SockAssumption
<1> QED BY <1>1 DEF Forget, Pointer

LEMMA CommitStep ==
    ASSUME IInv, Commit, UNCHANGED ioVars
    PROVE  IInv' /\ QueueStep
<1>1. /\ pc = "copy" /\ len = 0 /\ pc' = "ret" /\ Command(addr)
      /\ UNCHANGED << req, n, len, sr, task, left, off, cut >>
      /\ (dir = "read" => out' = buf) /\ (dir = "write" => out' = out)
  BY DEF Commit, ioVars, IInv, TypesOK, ChipTypeOK
<1>2. /\ low' = 0 /\ high' = 0 /\ addr' \in Pointer
      /\ buf' = << >> /\ buf' \in Seq(Values) /\ Len(buf') = 0
  BY Forgets DEF Commit
<1>3. /\ ChipTypeOK /\ ChipInv /\ addr \in Pointer /\ n \in 0 .. CHUNK /\ n > 0 /\ n <= Size /\ n <= req
      /\ dir \in {"read", "write"} /\ off \in Nat
  BY <1>1, Bounds DEF IInv, TypesOK, ChipTypeOK, CallTypeOK, IoTypeOK, SizeInv
<1>4. /\ n \in Nat /\ Done = n /\ Value(addr) = (latched + n) % WRAP
      /\ buf \in Seq(Values) /\ (dir = "read" => Len(buf) = n) /\ (dir = "write" => Len(buf) = req)
      /\ \A i \in 1 .. n : buf[i] = mem[CellAt(latched, i - 1)]
  <2>1. n \in Nat /\ Done = n
    BY <1>1, <1>3, Bounds DEF Done
  <2> QED BY <1>1, <2>1 DEF IInv, CopyInv, InRw
<1>5. ASSUME dir = "read"
      PROVE  /\ ChipTypeOK' /\ ChipInv' /\ Queue!Take /\ Len(out') <= CHUNK
  <2>1. n \in 1 .. Used /\ n \in 0 .. Used
    BY <1>3, <1>5, Bounds
  <2>2. out' = buf /\ out' \in Seq(Values)
    BY <1>1, <1>4, <1>5
  <2>3. ChipTypeOK' /\ ChipInv' /\ Waiting' = Queue!After(n)
    BY <1>1, <1>3, <1>4, <1>5, <2>1, <2>2, ReceiveQueue
  <2>4. /\ Waiting \in Seq(Values) /\ Len(Waiting) = Used
        /\ \A i \in 1 .. Used : Waiting[i] = mem[CellAt(latched, i - 1)]
    <3>1. First = latched
      BY <1>5 DEF First
    <3> QED BY <1>3, <3>1, WaitingBytes DEF ChipInv
  <2>5. buf = SubSeq(Waiting, 1, n)
    <3> DEFINE s == SubSeq(Waiting, 1, n)
    <3>1. \A i \in 1 .. n : i \in 1 .. Used /\ Waiting[i] \in Values
      BY <2>1, <2>4, Bounds
    <3>2. s \in Seq(Values) /\ Len(s) = n /\ \A i \in 1 .. n : s[i] = Waiting[i]
      BY <1>4, <2>1, <2>4, <3>1
    <3> HIDE DEF s
    <3>3. \A i \in 1 .. n : buf[i] = s[i]
      BY <1>4, <2>4, <3>1, <3>2
    <3>4. buf = s
      BY <1>4, <1>5, <3>2, <3>3, SeqEqual
    <3> QED BY <3>4 DEF s
  <2>6. Queue!Take
    BY <2>1, <2>2, <2>3, <2>4, <2>5 DEF Queue!Take
  <2>7. Len(out') <= CHUNK
    BY <1>3, <1>4, <1>5, <2>2, Bounds
  <2> QED BY <2>3, <2>6, <2>7
<1>6. ASSUME dir = "write"
      PROVE  /\ ChipTypeOK' /\ ChipInv' /\ Queue!Put /\ Used' = Used + n /\ Len(out') <= CHUNK
  <2>1. n \in 1 .. (RING - Used)
    BY <1>3, <1>4, <1>6, Bounds
  <2>2. out' = out
    BY <1>1, <1>6
  <2>3. Len(out') <= CHUNK
    BY <2>2 DEF IInv, TypesOK, CallTypeOK
  <2>4. n <= Len(buf)
    BY <1>3, <1>4, <1>6
  <2> QED BY <1>1, <1>3, <1>4, <1>6, <2>1, <2>2, <2>3, <2>4, SendQueue
<1>7. ChipTypeOK' /\ ChipInv' /\ QueueStep /\ Len(out') <= CHUNK
  BY <1>3, <1>5, <1>6 DEF QueueStep, Queue!Next
<1>8. dir' = dir /\ ptr' = addr
  BY <1>1 DEF Command
<1>9. CallTypeOK'
  BY <1>1, <1>2, <1>3, <1>7, <1>8, Bounds DEF IInv, TypesOK, CallTypeOK
<1>10. IoTypeOK'
  BY <1>1 DEF IInv, TypesOK, IoTypeOK
<1>11. SizeInv'
  BY <1>1, <1>3 DEF SizeInv
<1>12. CopyInv'
  BY <1>1, <1>2 DEF CopyInv, InRw
<1>13. DrainInv'
  BY <1>1 DEF DrainInv, Draining
<1>14. TaskInv'
  BY <1>1, <1>8 DEF IInv, TaskInv, Sending, Room, InRw
<1>15. FitInv'
  <2>1. (dir = "write" => Used <= off + IF pc = "ret" THEN n ELSE 0)'
    <3>1. dir = "write" => Used <= off
      BY <1>1, <1>3, Bounds DEF IInv, FitInv
    <3>2. dir' = "write" => Used' = Used + n
      BY <1>6, <1>8
    <3> QED BY <1>1, <1>3, <1>4, <1>8, <3>1, <3>2, Bounds
  <2>2. (pc \in {"ptr", "copy", "ret"} /\ dir = "write" /\ n # 0 /\ n < req => off + req > RING)'
    BY <1>1, <1>8 DEF IInv, FitInv
  <2>3. FitsIsWhole'
    BY <1>1 DEF IInv, FitInv, FitsIsWhole
  <2> QED BY <1>1, <2>1, <2>2, <2>3 DEF FitInv
<1> QED BY <1>7, <1>9, <1>10, <1>11, <1>12, <1>13, <1>14, <1>15 DEF IInv, TypesOK

LEMMA DrainCommitStep ==
    ASSUME IInv, DrainCommit, UNCHANGED ioVars
    PROVE  IInv' /\ QueueStep
<1> DEFINE k == high * BYTE + low
           q == PointerOf(Value(addr) + high * BYTE + low)
<1>1. /\ pc = "drain_commit" /\ pc' = "drained" /\ Command(q) /\ out' = out
      /\ UNCHANGED << req, n, len, sr, task, left, off, cut >>
  BY DEF DrainCommit, ioVars
<1>2. /\ low' = 0 /\ high' = 0 /\ addr' \in Pointer
      /\ buf' = << >> /\ buf' \in Seq(Values) /\ Len(buf') = 0
  BY Forgets DEF DrainCommit
<1>3. /\ ChipTypeOK /\ ChipInv /\ dir = "read" /\ addr = ptr /\ k <= Size
      /\ high \in Nat /\ low \in Nat /\ Value(ptr) = latched /\ latched \in Nat /\ out \in Seq(Values)
  BY <1>1, Bounds, Rings DEF IInv, TypesOK, ChipTypeOK, CallTypeOK, DrainInv, Draining, ChipInv, Pages
<1>4. k \in 0 .. Used
  <2>1. high * BYTE \in Nat
    BY <1>3, Bounds
  <2> QED BY <1>3, <2>1, Bounds
<1>5. q \in Pointer /\ Value(q) = (latched + k) % WRAP
  <2>1. latched + high * BYTE + low = latched + k /\ latched + k \in Nat
    BY <1>3, <1>4, Bounds
  <2>2. q = PointerOf(latched + k)
    BY <1>3, <2>1
  <2> QED BY <2>1, <2>2, PointerBack
<1> HIDE DEF k, q
<1>6. ChipTypeOK' /\ ChipInv' /\ Waiting' = Queue!After(k) /\ (k = 0 => Waiting' = Waiting)
  BY <1>1, <1>3, <1>4, <1>5, ReceiveQueue
<1>7. QueueStep
  <2>1. Len(Waiting) = Used
    BY <1>3, WaitingBytes DEF ChipInv
  <2>2. ASSUME k # 0 PROVE Queue!Drop
    <3>1. k \in 1 .. Len(Waiting)
      BY <1>4, <2>1, <2>2, Bounds
    <3> QED BY <1>1, <1>6, <3>1 DEF Queue!Drop
  <2>3. ASSUME k = 0 PROVE UNCHANGED << Waiting, out >>
    BY <1>1, <1>6, <2>3
  <2> QED BY <2>2, <2>3 DEF QueueStep, Queue!Next
<1>8. dir' = dir /\ ptr' = q
  BY <1>1 DEF Command
<1>9. CallTypeOK'
  BY <1>1, <1>2, <1>5, <1>8, Bounds DEF IInv, TypesOK, CallTypeOK
<1>10. IoTypeOK'
  BY <1>1 DEF IInv, TypesOK, IoTypeOK
<1>11. SizeInv'
  BY <1>1 DEF SizeInv
<1>12. CopyInv'
  BY <1>1, <1>2 DEF CopyInv, InRw
<1>13. DrainInv'
  BY <1>1 DEF DrainInv, Draining
<1>14. TaskInv'
  BY <1>1, <1>3, <1>8 DEF IInv, TaskInv, Sending, Room, InRw
<1>15. FitInv'
  BY <1>1, <1>3, <1>8 DEF IInv, FitInv, FitsIsWhole
<1> QED BY <1>6, <1>7, <1>9, <1>10, <1>11, <1>12, <1>13, <1>14, <1>15 DEF IInv, TypesOK

(* Between two connections, and after a reset: no call, and no bytes.      *)
Quiet ==
    /\ NoCall(req, low, n, len, addr, buf, high)
    /\ NoTask(pc, sr, task, left, off, cut)

LEMMA QuietInv ==
    ASSUME ChipTypeOK, ChipInv, Used = 0, ptr \in Pointer, Len(out) <= CHUNK, Quiet
    PROVE  IInv
<1>1. /\ req = 0 /\ low = 0 /\ n = 0 /\ len = 0 /\ high = 0 /\ buf = << >>
      /\ addr = [h |-> 0, l |-> 0]
      /\ pc = "idle" /\ sr = "ESTABLISHED" /\ task = "none" /\ left = 0 /\ off = 0 /\ cut = FALSE
  BY DEF Quiet, NoCall, NoTask
<1>2. /\ BYTE \in Nat \ {0, 1} /\ HIGHS \in Nat \ {0} /\ PAGES \in Nat /\ CHUNK = BYTE - 1 /\ 0 \in Offsets
  <2>1. PICK h \in Heads, s \in Sizes : TRUE
    BY SizesAssumption
  <2>2. s \in Nat /\ 0 \in 0 .. s
    BY SizesAssumption
  <2>3. 0 \in Offsets
    BY <2>2, HeadLengths
  <2> QED BY <2>3, SockAssumption DEF CHUNK
<1>3. /\ buf \in Seq(Values) /\ Len(buf) = 0
  BY <1>1
<1>4. CallTypeOK
  BY <1>1, <1>2, <1>3 DEF CallTypeOK, Pointer
<1>5. IoTypeOK
  BY <1>1, <1>2 DEF IoTypeOK
<1>6. SizeInv /\ DrainInv /\ TaskInv
  BY <1>1 DEF SizeInv, DrainInv, Draining, TaskInv, Sending, Room, InRw
<1>7. CopyInv
  BY <1>1, <1>3 DEF CopyInv, InRw
<1>8. FitInv
  BY <1>1 DEF FitInv, FitsIsWhole
<1> QED BY <1>4, <1>5, <1>6, <1>7, <1>8 DEF IInv, TypesOK

LEMMA NextConnectionStep ==
    ASSUME IInv, NextConnection
    PROVE  IInv' /\ QueueStep
<1>1. ChipTypeOK' /\ ChipInv' /\ (Used = 0)' /\ (ptr \in Pointer)' /\ out' = out /\ QueueStep
  BY EmptiedQueue DEF IInv, TypesOK, NextConnection
<1>2. (Len(out) <= CHUNK)' /\ Quiet'
  BY <1>1 DEF IInv, TypesOK, CallTypeOK, NextConnection, Quiet, NoCall, NoTask
<1>3. IInv'
  BY <1>1, <1>2, QuietInv, PTL
<1> QED BY <1>1, <1>3

(* A chip that was reset. *)
LEMMA FreshChip ==
    ASSUME dir \in {"read", "write"}, Fresh(latched, net, ptr, mem, out)
    PROVE  /\ ChipTypeOK /\ ChipInv /\ Used = 0 /\ ptr \in Pointer /\ Len(out) <= CHUNK
           /\ Waiting = << >> /\ out = << >>
<1>1. /\ latched = 0 /\ net = 0 /\ ptr = PointerOf(0) /\ out = << >>
      /\ mem = [c \in 0 .. (RING - 1) |-> NoByte]
  BY DEF Fresh
<1>2. 0 \in Pages /\ WRAP \in Nat \ {0} /\ RING \in Nat /\ CHUNK \in Nat
  BY Rings, SockAssumption DEF Pages, CHUNK
<1>3. ChipTypeOK
  BY <1>1, <1>2 DEF ChipTypeOK, Values
<1>4. Used = 0
  <2>1. Used = Distance(0, 0)
    BY <1>1 DEF Used, First, Last
  <2> QED BY <1>2, <2>1, Distances
<1>5. ptr \in Pointer /\ Value(ptr) = latched
  <2>1. 0 % WRAP = 0
    BY <1>2
  <2> QED BY <1>1, <2>1, PointerBack
<1>6. out \in Seq(Values) /\ Len(out) <= CHUNK
  BY <1>1, <1>2
<1>7. ChipInv
  BY <1>2, <1>4, <1>5, <1>6 DEF ChipInv
<1>8. Waiting = << >>
  BY <1>3, <1>4, NoBytes
<1> QED BY <1>1, <1>3, <1>4, <1>5, <1>6, <1>7, <1>8

LEMMA RestartStep ==
    ASSUME IInv, Restart
    PROVE  IInv' /\ QueueStep
<1>1. (dir \in {"read", "write"})' /\ Fresh(latched, net, ptr, mem, out)' /\ Quiet'
  BY DEF IInv, TypesOK, ChipTypeOK, Restart, Quiet, NoCall, NoTask, Fresh, PointerOf
<1>2. /\ (ChipTypeOK /\ ChipInv /\ Used = 0 /\ ptr \in Pointer /\ Len(out) <= CHUNK)'
      /\ (Waiting = << >> /\ out = << >>)'
  BY <1>1, FreshChip, PTL
<1>3. IInv'
  BY <1>1, <1>2, QuietInv, PTL
<1>4. Queue!Reset
  BY <1>2 DEF Queue!Reset
<1> QED BY <1>3, <1>4 DEF QueueStep, Queue!Next

(* More data, or more room, than when the size was read does no harm.      *)
LEMMA RoomGrows ==
    ASSUME SizeInv, UNCHANGED << pc, low, req, n, len >>,
           Size' = Size + 1, Size \in Int, low \in Nat, n \in Nat
    PROVE  SizeInv'
<1> DEFINE size == Size
           next == Size'
<1>1. next = size + 1 /\ size \in Int
  OBVIOUS
<1>2. \A k \in Nat : k <= size => k <= next
  <2> HIDE DEF size, next
  <2> QED BY <1>1
<1>3. \A k \in Nat : k <= Size => k <= Size'
  BY <1>2
<1> HIDE DEF size, next
<1> QED BY <1>3 DEF SizeInv

LEMMA PeerSendsStep ==
    ASSUME IInv, PeerSends
    PROVE  IInv' /\ QueueStep
<1>1. /\ ChipTypeOK' /\ ChipInv' /\ Queue!Put /\ Size' = Size + 1 /\ First' = First
      /\ \A j \in 0 .. (Used - 1) : mem'[CellAt(First, j)] = mem[CellAt(First, j)]
  BY ArriveQueue DEF IInv, TypesOK, PeerSends
<1>2. /\ dir = "read" /\ dir' = dir /\ First = latched
      /\ UNCHANGED << ptr, latched, out, pc, req, low, n, len, addr, buf, high, sr, task, left, off, cut >>
  BY DEF PeerSends, Arrive, callVars, ioVars, First
<1>3. CallTypeOK'
  BY <1>2 DEF IInv, TypesOK, CallTypeOK
<1>4. IoTypeOK'
  BY <1>2 DEF IInv, TypesOK, IoTypeOK
<1>5. SizeInv'
  BY <1>1, <1>2, Bounds, RoomGrows DEF IInv, TypesOK, CallTypeOK
<1>6. CopyInv'
  <2>1. ASSUME pc = "copy", NEW i \in 1 .. Done
        PROVE  mem'[CellAt(latched, i - 1)] = mem[CellAt(latched, i - 1)]
    <3>1. Done <= Size /\ Size = Used /\ Done \in Int /\ Used \in Nat
      BY <1>2, <2>1, Bounds DEF IInv, TypesOK, CallTypeOK, SizeInv, Done
    <3>2. i - 1 \in 0 .. (Used - 1)
      BY <3>1
    <3> QED BY <1>1, <1>2, <3>2
  <2>2. Done' = Done
    BY <1>2 DEF Done
  <2> QED BY <1>2, <2>1, <2>2 DEF IInv, CopyInv, InRw, Value
<1>7. DrainInv'
  BY <1>1, <1>2, Bounds DEF IInv, TypesOK, CallTypeOK, DrainInv, Draining
<1>8. TaskInv'
  BY <1>2 DEF IInv, TaskInv, Sending, Room, InRw
<1>9. FitInv'
  BY <1>2 DEF IInv, FitInv, FitsIsWhole
<1> QED BY <1>1, <1>3, <1>4, <1>5, <1>6, <1>7, <1>8, <1>9 DEF IInv, TypesOK, QueueStep, Queue!Next

LEMMA PeerTakesStep ==
    ASSUME IInv, PeerTakes
    PROVE  IInv' /\ QueueStep
<1>1. /\ ChipTypeOK' /\ ChipInv' /\ Queue!Take
      /\ Size' = Size + 1 /\ Used' = Used - 1 /\ Used > 0 /\ Len(out') = 1
      /\ \A j \in 1 .. (RING - 1) : mem'[CellAt(First, j)] = mem[CellAt(First, j)]
  BY SentQueue DEF IInv, TypesOK, PeerTakes
<1>2. /\ dir = "write" /\ dir' = dir
      /\ UNCHANGED << ptr, latched, pc, req, low, n, len, addr, buf, high, sr, task, left, off, cut >>
  BY DEF PeerTakes, Sent, callVars, ioVars
<1>3. CallTypeOK'
  BY <1>1, <1>2, Bounds DEF IInv, TypesOK, CallTypeOK
<1>4. IoTypeOK'
  BY <1>2 DEF IInv, TypesOK, IoTypeOK
<1>5. SizeInv'
  BY <1>1, <1>2, Bounds, RoomGrows DEF IInv, TypesOK, CallTypeOK
<1>6. CopyInv'
  <2>1. ASSUME pc = "copy", NEW i \in 1 .. Done
        PROVE  mem'[CellAt(latched, i - 1)] = mem[CellAt(latched, i - 1)]
    <3>1. /\ Done <= Size /\ Size = RING - Used /\ Done \in Int /\ Used \in Nat /\ RING \in Nat
          /\ First \in Nat /\ Last = latched /\ (First + Used) % WRAP = latched
      BY <1>2, <2>1, Bounds, UsedBytes DEF IInv, TypesOK, CallTypeOK, SizeInv, Done, Last
    <3> DEFINE j == Used + (i - 1)
    <3>2. j \in 1 .. (RING - 1) /\ i - 1 \in Nat /\ First + Used \in Nat
          /\ (First + Used) + (i - 1) = First + j
      BY <1>1, <3>1
    <3>3. CellAt((First + Used) % WRAP, i - 1) = CellAt(First + Used, i - 1)
      BY <3>2, WrapKeepsCell
    <3>4. CellAt(latched, i - 1) = CellAt(First, j)
      BY <3>1, <3>2, <3>3 DEF CellAt
    <3> HIDE DEF j
    <3> QED BY <1>1, <3>2, <3>4
  <2>2. Done' = Done
    BY <1>2 DEF Done
  <2> QED BY <1>2, <2>1, <2>2 DEF IInv, CopyInv, InRw, Value
<1>7. DrainInv'
  BY <1>2 DEF IInv, DrainInv, Draining
<1>8. TaskInv'
  BY <1>2 DEF IInv, TaskInv, Sending, Room, InRw
<1>9. FitInv'
  <2>1. off \in Nat /\ n \in Nat /\ Used' \in Nat /\ Used \in Nat /\ Used' <= Used
    <3>1. off \in Nat /\ n \in Nat
      BY Bounds DEF IInv, TypesOK, IoTypeOK, CallTypeOK
    <3>2. Used' \in Nat /\ Used \in Nat /\ Used' <= Used
      BY <1>1, Bounds
    <3> QED BY <3>1, <3>2
  <2>2. (Size < BYTE)' => Size < BYTE
    BY <1>1, Bounds
  <2>3. (dir = "write" => Used <= off + IF pc = "ret" THEN n ELSE 0)'
    BY <1>2, <2>1 DEF IInv, FitInv
  <2> QED BY <1>2, <2>2, <2>3 DEF IInv, FitInv, FitsIsWhole
<1> QED BY <1>1, <1>3, <1>4, <1>5, <1>6, <1>7, <1>8, <1>9 DEF IInv, TypesOK, QueueStep, Queue!Next
-----------------------------------------------------------------------------
LEMMA InitInv ==
    ASSUME Init
    PROVE  IInv /\ Queue!Init
<1>1. /\ ChipTypeOK /\ ChipInv /\ Used = 0 /\ ptr \in Pointer /\ Len(out) <= CHUNK
      /\ Waiting = << >> /\ out = << >>
  BY FreshChip DEF Init
<1>2. Quiet
  BY DEF Init, Quiet
<1> QED BY <1>1, <1>2, QuietInv DEF Queue!Init

LEMMA StepInv ==
    ASSUME IInv, [Next]_vars
    PROVE  IInv' /\ QueueStep
<1>1. ASSUME Rw, UNCHANGED ioVars
      PROVE  IInv' /\ QueueStep
  BY <1>1, ReadLowStep, ReadHighStep, ReadPtrStep, CopyByteStep, CommitStep DEF Rw
<1>2. ASSUME Drain, UNCHANGED ioVars
      PROVE  IInv' /\ QueueStep
  BY <1>2, DrainPtrStep, DrainHighStep, DrainLowStep, DrainCommitStep DEF Drain
<1>3. CASE Program
  BY <1>1, <1>2, <1>3, SockReadStep, ReadReturnsStep, ReadStatusStep, SendResponseStep, NextHeadPieceStep,
     EndWithHeadStep, SendFileStep, NextRomChunkStep, NextMmcChunkStep, WriteStatusStep, WriteReturnsStep, CloseStep, NextConnectionStep DEF Program
<1>4. CASE Peer
  BY <1>4, PeerSendsStep, PeerTakesStep, PeerGoneStep DEF Peer
<1>5. CASE Restart
  BY <1>5, RestartStep
<1>6. CASE UNCHANGED vars
  <2>1. /\ ChipTypeOK' /\ ChipInv' /\ QueueStep
        /\ UNCHANGED << dir, mem, ptr, latched, net, out, Used, Size >>
    BY <1>6, ChipStill DEF IInv, TypesOK, vars
  <2>2. UNCHANGED << req, low, n, len, addr, buf, high, pc, sr, task, left, off, cut >>
    BY <1>6 DEF vars, callVars, ioVars
  <2> QED BY <2>1, <2>2 DEF IInv, TypesOK, CallTypeOK, IoTypeOK, SizeInv, CopyInv, Value, Done, InRw, DrainInv,
        Draining, TaskInv, Sending, Room, FitInv, FitsIsWhole
<1> QED BY <1>3, <1>4, <1>5, <1>6 DEF Next

LEMMA AlwaysIInv == Spec => []IInv
<1>1. Init => IInv
  BY InitInv
<1>2. IInv /\ [Next]_vars => IInv'
  BY StepInv
<1> QED BY <1>1, <1>2, PTL DEF Spec

(* Every register, pointer and counter of w5100.c and its callers stays in *)
(* its range, and no call moves more bytes than it was asked for.          *)
THEOREM TypeCorrect == Spec => []TypeOK
<1>1. IInv => TypeOK
  BY DEF IInv, TypesOK, ChipTypeOK, CallTypeOK, IoTypeOK, TypeOK, Values
<1> QED BY <1>1, AlwaysIInv, PTL

(* A response that fits into the transmit buffer is never cut short: only  *)
(* what lies past RING bytes, those of its head and of its file counted    *)
(* together, can be (w5100.c:103-111, httpd.c:55, 161, 316).               *)
THEOREM FittingIsWhole == Spec => []FitsIsWhole
<1>1. IInv => FitsIsWhole
  BY DEF IInv, FitInv
<1> QED BY <1>1, AlwaysIInv, PTL

(* w5100.c, step by step against a chip that works at any time, implements *)
(* the queue of bytes of ByteQueue.                                        *)
THEOREM BufferIsAQueue == Spec => QueueSpec
<1>1. Init => Queue!Init
  BY InitInv
<1>2. IInv /\ [Next]_vars => [Queue!Next]_<< Waiting, out >>
  BY StepInv DEF QueueStep
<1> QED BY <1>1, <1>2, AlwaysIInv, PTL DEF Spec, QueueSpec, Queue!Spec, Queue!vars
===============================================================================
