----------------------------- MODULE NicProofs -----------------------------
(* For every length of the receive ring and every set of frames: the       *)
(* driver's pointer stays in step with the card's, so that frames are      *)
(* received once and in order, and no frame in the ring is written over.   *)
(* For every machine: each driver uses the function it should.  At the     *)
(* end, for any number of transmit buffers: frames leave the card in order.*)
EXTENDS Nic, FiniteSetTheorems, SequenceTheorems, WellFoundedInduction, TLAPS

-----------------------------------------------------------------------------
(* Remainders.  Two numbers are the same to n if they differ by a multiple *)
(* of it.                                                                  *)
Same(x, y, n) == \E q \in Int : x = y + q * n

(* Quotient and remainder, of a negative number too.                       *)
LEMMA DivMod ==
  ASSUME NEW x \in Int, NEW n \in Nat \ {0}
  PROVE  x = n * (x \div n) + (x % n) /\ x % n \in 0 .. n - 1 /\ x \div n \in Int
  OBVIOUS

(* A number is the same as its remainder.                                  *)
LEMMA ModSame ==
  ASSUME NEW x \in Int, NEW n \in Nat \ {0}
  PROVE  Same(x, x % n, n)
  <1>1. x = n * (x \div n) + (x % n) /\ x \div n \in Int
      BY DivMod
  <1>2. x = (x % n) + (x \div n) * n
      BY <1>1
  <1> QED
      BY <1>1, <1>2 DEF Same

(* It does not matter in which order the two are named.                    *)
LEMMA SameSym ==
  ASSUME NEW x \in Int, NEW y \in Int, NEW n \in Nat \ {0}, Same(x, y, n)
  PROVE  Same(y, x, n)
  <1>1. PICK q \in Int : x = y + q * n
      BY DEF Same
  <1>2. -q \in Int /\ (-q) * n = - (q * n) /\ q * n \in Int
      BY ONLY q \in Int, n \in Nat
  <1>3. y = x + (-q) * n
      BY <1>1, <1>2
  <1> QED
      BY <1>2, <1>3 DEF Same

(* Sums of the same are the same.                                          *)
LEMMA SameAdd ==
  ASSUME NEW x \in Int, NEW y \in Int, NEW u \in Int, NEW v \in Int, NEW n \in Nat \ {0},
         Same(x, y, n), Same(u, v, n)
  PROVE  Same(x + u, y + v, n)
  <1>1. PICK q \in Int : x = y + q * n
      BY DEF Same
  <1>2. PICK p \in Int : u = v + p * n
      BY DEF Same
  <1>3. (q + p) * n = q * n + p * n /\ q * n \in Int /\ p * n \in Int
      BY ONLY q \in Int, n \in Nat, p \in Int
  <1>4. q + p \in Int /\ x + u = (y + v) + (q + p) * n
      BY <1>1, <1>2, <1>3
  <1> QED
      BY ONLY <1>4 DEF Same

(* To a divisor as well.                                                   *)
LEMMA SameDiv ==
  ASSUME NEW x \in Int, NEW y \in Int, NEW n \in Nat, NEW k \in Nat, Same(x, y, k * n)
  PROVE  Same(x, y, n)
  <1>1. PICK q \in Int : x = y + q * (k * n)
      BY DEF Same
  <1>2. q * (k * n) = (q * k) * n /\ q * k \in Int
      BY ONLY q \in Int, n \in Nat, k \in Nat
  <1> QED
      BY <1>1, <1>2 DEF Same

(* The remainder is the only such number below n.                          *)
LEMMA SameMod ==
  ASSUME NEW x \in Int, NEW n \in Nat \ {0}, NEW y \in 0 .. n - 1, Same(x, y, n)
  PROVE  x % n = y
  <1> DEFINE r == x % n
             p == x \div n
  <1>1. x = n * p + r /\ p \in Int /\ r \in 0 .. n - 1
      BY DivMod
  <1>2. PICK q \in Int : x = y + q * n
      BY DEF Same
  <1> HIDE DEF p, r
  <1>3. n * p = p * n /\ p * n \in Int /\ q * n \in Int
      BY <1>1
  <1>4. CASE p < q
    <2>1. (p + 1) * n <= q * n /\ (p + 1) * n = p * n + n
        BY <1>1, <1>4
    <2> QED
        BY <1>1, <1>2, <1>3, <2>1
  <1>5. CASE q < p
    <2>1. (q + 1) * n <= p * n /\ (q + 1) * n = q * n + n
        BY <1>1, <1>5
    <2> QED
        BY <1>1, <1>2, <1>3, <2>1
  <1>6. CASE p = q
    <2>1. p * n = q * n
        BY <1>6
    <2> QED
        BY <1>1, <1>2, <1>3, <2>1 DEF r
  <1> QED
      BY <1>1, <1>4, <1>5, <1>6

(* Numbers that are the same have the same remainder.                      *)
LEMMA SameRest ==
  ASSUME NEW x \in Int, NEW y \in Int, NEW n \in Nat \ {0}, Same(x, y, n)
  PROVE  x % n = y % n
  <1>1. y % n \in 0 .. n - 1 /\ Same(y, y % n, n)
      BY DivMod, ModSame
  <1>2. PICK q \in Int : x = y + q * n
      BY DEF Same
  <1>3. PICK p \in Int : y = (y % n) + p * n
      BY <1>1 DEF Same
  <1> DEFINE z == y % n
  <1>4. x = z + (q + p) * n /\ q + p \in Int
    <2>1. z \in Int /\ y = z + p * n
        BY <1>1, <1>3
    <2> HIDE DEF z
    <2>2. (q + p) * n = q * n + p * n /\ q * n \in Int /\ p * n \in Int
        BY ONLY q \in Int, n \in Nat, p \in Int
    <2> QED
        BY <1>2, <2>1, <2>2
  <1>5. Same(x, z, n)
      BY ONLY <1>4 DEF Same
  <1> QED
      BY <1>1, <1>5, SameMod

(* Every number is the same as itself.                                     *)
LEMMA SameSelf ==
  ASSUME NEW x \in Int, NEW n \in Nat
  PROVE  Same(x, x, n)
  <1>1. x = x + 0 * n
      OBVIOUS
  <1> QED
      BY <1>1 DEF Same

(* So are the negatives.                                                   *)
LEMMA SameMinus ==
  ASSUME NEW x \in Int, NEW y \in Int, NEW n \in Nat \ {0}, Same(x, y, n)
  PROVE  Same(-x, -y, n)
  <1>1. PICK q \in Int : x = y + q * n
      BY DEF Same
  <1>2. -q \in Int /\ (-q) * n = - (q * n) /\ q * n \in Int
      BY ONLY q \in Int, n \in Nat
  <1>3. -x = -y + (-q) * n
      BY <1>1, <1>2
  <1> QED
      BY <1>2, <1>3 DEF Same

(* A remainder may be taken before a sum, with the same or with a wider    *)
(* modulus.                                                                *)
LEMMA ModAdd ==
  ASSUME NEW x \in Int, NEW y \in Int, NEW n \in Nat \ {0}, NEW k \in Nat \ {0}
  PROVE  ((x % (k * n)) + y) % n = (x + y) % n
  <1> DEFINE m == k * n
             z == x % m
  <1>1. m \in Nat \ {0}
    <2>1. k * n >= 1 * n
        BY ONLY k \in Nat \ {0}, n \in Nat
    <2> QED
        BY <2>1
  <1>2. z \in Int /\ Same(x, z, m)
    <2> HIDE DEF m
    <2>1. z \in Int
        BY <1>1
    <2>2. Same(x, x % m, m)
        BY <1>1, ModSame
    <2> QED
        BY <2>1, <2>2
  <1> HIDE DEF z
  <1>3. Same(x, z, n)
      BY <1>2, SameDiv
  <1>4. Same(x + y, z + y, n)
      BY <1>2, <1>3, SameSelf, SameAdd
  <1>5. x + y \in Int /\ z + y \in Int
      BY <1>2
  <1>6. (x + y) % n = (z + y) % n
      BY ONLY <1>4, <1>5, SameRest, n \in Nat \ {0}
  <1> QED
      BY <1>6 DEF z

(* The difference of two remainders.                                       *)
LEMMA ModDiff ==
  ASSUME NEW x \in Int, NEW y \in Int, NEW n \in Nat \ {0}
  PROVE  ((x % n) - (y % n)) % n = (x - y) % n
  <1> DEFINE u == x % n
             v == y % n
  <1>1. u \in Int /\ v \in Int /\ Same(x, u, n) /\ Same(y, v, n)
    <2>1. u \in Int /\ v \in Int
        OBVIOUS
    <2>2. Same(x, x % n, n) /\ Same(y, y % n, n)
        BY ModSame
    <2> QED
        BY <2>1, <2>2
  <1> HIDE DEF u, v
  <1>2. Same(-y, -v, n) /\ -y \in Int /\ -v \in Int
      BY <1>1, SameMinus
  <1>3. Same(x + (-y), u + (-v), n)
      BY <1>1, <1>2, SameAdd
  <1>4. x + (-y) = x - y /\ u + (-v) = u - v /\ x - y \in Int /\ u - v \in Int
      BY <1>1
  <1>5. (x - y) % n = (u - v) % n
      BY ONLY <1>3, <1>4, SameRest, n \in Nat \ {0}
  <1> QED
      BY <1>5 DEF u, v

(* The remainder of a number below n.                                      *)
LEMMA ModSmall ==
  ASSUME NEW n \in Nat \ {0}, NEW x \in 0 .. n - 1
  PROVE  x % n = x
  BY SameSelf, SameMod

(* The remainder of a number just below zero.                              *)
LEMMA ModNeg ==
  ASSUME NEW n \in Nat \ {0}, NEW x \in Int, x < 0, x + n >= 0
  PROVE  x % n = x + n
  <1>1. x = (x + n) + (-1) * n /\ x + n \in 0 .. n - 1
      OBVIOUS
  <1>2. Same(x, x + n, n)
      BY <1>1 DEF Same
  <1> QED
      BY <1>1, <1>2, SameMod

-----------------------------------------------------------------------------
(* The card's ring.                                                        *)

Size(f) == RoundUp4(Plen(f) + 4)

Records == [frame : Frames, at : Nat]

(* The lengths, and the frames, are numbers.                               *)
LEMMA Sizes ==
  /\ RX_RING \in Nat \ {0} /\ PTR_MOD \in Nat \ {0}
  /\ \E k \in Nat \ {0} : PTR_MOD = k * RX_RING
  /\ \A f \in Frames : Plen(f) \in Nat /\ Size(f) \in Nat \ {0} /\ Size(f) % 4 = 0
  <1>1. RX_RING \in Nat \ {0} /\ PTR_MOD \in Nat \ {0} /\ PTR_MOD % RX_RING = 0
      BY NicAssumption
  <1>2. \E k \in Nat \ {0} : PTR_MOD = k * RX_RING
    <2> DEFINE k == PTR_MOD \div RX_RING
    <2>1. PTR_MOD = RX_RING * k + (PTR_MOD % RX_RING) /\ k \in Int
        BY <1>1, DivMod
    <2> HIDE DEF k
    <2>2. PTR_MOD = k * RX_RING
        BY <1>1, <2>1
    <2>3. k > 0
      <3>1. ASSUME k <= 0 PROVE k * RX_RING <= 0
          BY ONLY <3>1, <1>1, <2>1
      <3> QED
          BY <1>1, <2>1, <2>2, <3>1
    <2> QED
        BY <2>1, <2>2, <2>3
  <1>3. ASSUME NEW f \in Frames PROVE Plen(f) \in Nat /\ Size(f) \in Nat \ {0} /\ Size(f) % 4 = 0
    <2>1. f.len \in Nat
        BY NicAssumption DEF ETH_HLEN
    <2> QED
        BY <2>1 DEF Size, Plen, RoundUp4
  <1> QED
      BY <1>1, <1>2, <1>3

(* The frames g lie one after the other from where the driver reads, x, to *)
(* where the card writes, w: the k-th ends o[k] bytes from x.              *)
Laid(o, g, x, w) ==
    /\ o \in [0 .. Len(g) -> Nat] /\ o[0] = 0
    /\ \A k \in 1 .. Len(g) : /\ o[k] = o[k - 1] + Size(g[k].frame)
                              /\ g[k].at = (x + o[k - 1]) % RX_RING
    /\ \A j, k \in 0 .. Len(g) : j <= k => o[j] <= o[k]
    /\ o[Len(g)] < RX_RING
    /\ w = (x + o[Len(g)]) % RX_RING

(* Both pointers are as wide as a multiple of the ring.                    *)
LEMMA ModWide ==
  ASSUME NEW x \in Int, NEW y \in Int
  PROVE  ((x % PTR_MOD) + y) % RX_RING = (x + y) % RX_RING
  <1>1. PICK k \in Nat \ {0} : PTR_MOD = k * RX_RING
      BY Sizes
  <1>2. RX_RING \in Nat \ {0}
      BY Sizes
  <1>3. ((x % (k * RX_RING)) + y) % RX_RING = (x + y) % RX_RING
      BY ONLY <1>2, k \in Nat \ {0}, x \in Int, y \in Int, ModAdd, ZenonT(60)
  <1> QED
      BY <1>1, <1>3, Zenon

(* CAPR runs sixteen bytes behind the driver's pointer.                    *)
LEMMA CaprIs ==
  ASSUME NEW x \in Nat
  PROVE  (((x - 16) % PTR_MOD) + 16) % RX_RING = x % RX_RING
  <1>1. x - 16 \in Int /\ 16 \in Int /\ (x - 16) + 16 = x
      OBVIOUS
  <1>2. (((x - 16) % PTR_MOD) + 16) % RX_RING = ((x - 16) + 16) % RX_RING
      BY ONLY <1>1, ModWide, ZenonT(60)
  <1> QED
      BY <1>1, <1>2

(* A number and its remainder are the same in a difference.                *)
LEMMA ModLeft ==
  ASSUME NEW x \in Int, NEW y \in Int, NEW n \in Nat \ {0}
  PROVE  ((x % n) + y) % n = (x + y) % n
  <1>0. 1 \in Nat \ {0}
      OBVIOUS
  <1>1. ((x % (1 * n)) + y) % n = (x + y) % n
      BY <1>0, ModAdd, Zenon
  <1>2. 1 * n = n
      OBVIOUS
  <1> QED
      BY <1>1, <1>2

(* What the card has to read is what lies between the two pointers.        *)
LEMMA UsedIs ==
  ASSUME NEW x \in Nat, NEW d \in 0 .. RX_RING - 1
  PROVE  (((x + d) % RX_RING) - (((x - 16) % PTR_MOD) + 16)) % RX_RING = d
  <1> DEFINE R == RX_RING
             v == ((x - 16) % PTR_MOD) + 16
  <1>0. R \in Nat \ {0} /\ v \in Int
      BY Sizes
  <1>1. v % R = x % R
      BY CaprIs
  <1> SUFFICES (((x + d) % R) - v) % R = d
      OBVIOUS
  <1> HIDE DEF v, R
  <1>2. x + d \in Int /\ x \in Int /\ -v \in Int /\ (x + d) % R \in Int /\ v % R \in Int /\ x % R \in Int
      BY <1>0
  <1>3. (((x + d) % R) + (-v)) % R = ((x + d) + (-v)) % R
      BY ONLY <1>0, <1>2, ModLeft, ZenonT(60)
  <1>4. (((x + d) % R) - (v % R)) % R = ((x + d) - v) % R
      BY ONLY <1>0, <1>2, ModDiff, ZenonT(60)
  <1>5. (((x + d) % R) - (x % R)) % R = ((x + d) - x) % R
      BY ONLY <1>0, <1>2, ModDiff, ZenonT(60)
  <1>6. (x + d) - x = d /\ (x + d) + (-v) = (x + d) - v /\ ((x + d) % R) + (-v) = ((x + d) % R) - v
      BY <1>0, <1>2
  <1>7. d % R = d
      BY <1>0, ModSmall DEF R
  <1> QED
      BY <1>1, <1>3, <1>4, <1>5, <1>6, <1>7

(* A frame written at the end.                                             *)
LEMMA PutEnd ==
  ASSUME NEW o, NEW g \in Seq(Records), NEW x \in Nat, NEW w, NEW f \in Frames,
         Laid(o, g, x, w), o[Len(g)] + Size(f) < RX_RING
  PROVE  \E p : Laid(p, Append(g, [frame |-> f, at |-> w]), x, (w + Size(f)) % RX_RING)
  <1> DEFINE n == Len(g)
             s == Size(f)
             h == Append(g, [frame |-> f, at |-> w])
             p == [k \in 0 .. n + 1 |-> IF k <= n THEN o[k] ELSE o[n] + s]
  <1>0. n \in Nat /\ s \in Nat \ {0} /\ RX_RING \in Nat \ {0}
      BY Sizes
  <1>1. o[n] \in Nat /\ w = (x + o[n]) % RX_RING /\ w \in Nat
      BY <1>0 DEF Laid
  <1>2. /\ Len(h) = n + 1 /\ h[n + 1] = [frame |-> f, at |-> w]
        /\ \A k \in 1 .. n : h[k] = g[k]
      BY <1>0
  <1>3. h[n + 1].frame = f /\ h[n + 1].at = w
      BY <1>2
  <1> HIDE DEF h
  <1>4. p \in [0 .. n + 1 -> Nat] /\ p[n + 1] = o[n] + s /\ \A k \in 0 .. n : p[k] = o[k]
      BY <1>0, <1>1 DEF Laid
  <1> HIDE DEF p
  <1>5. (w + s) % RX_RING = (x + p[n + 1]) % RX_RING
    <2>1. x + o[n] \in Int /\ s \in Int /\ (x + o[n]) + s = x + (o[n] + s)
      <3> DEFINE d == o[n]
      <3>1. d \in Nat /\ s \in Nat
          BY <1>0, <1>1
      <3> HIDE DEF d, s
      <3>2. x + d \in Int /\ s \in Int /\ (x + d) + s = x + (d + s)
          BY <3>1
      <3> QED
          BY <3>2 DEF d
    <2>2. (((x + o[n]) % RX_RING) + s) % RX_RING = ((x + o[n]) + s) % RX_RING
        BY <1>0, <2>1, ModLeft, Zenon
    <2> QED
        BY <1>1, <1>4, <2>1, <2>2
  <1>6. ASSUME NEW k \in 1 .. n + 1
        PROVE  p[k] = p[k - 1] + Size(h[k].frame) /\ h[k].at = (x + p[k - 1]) % RX_RING
    <2>1. CASE k <= n
      <3>1. k \in 1 .. n /\ k - 1 \in 0 .. n /\ k \in 0 .. n
          BY <1>0, <2>1
      <3> QED
          BY <1>2, <1>4, <3>1 DEF Laid
    <2>2. CASE k = n + 1
      <3>1. k - 1 = n /\ n \in 0 .. n
          BY <1>0, <2>2
      <3> QED
          BY <1>1, <1>3, <1>4, <2>2, <3>1
    <2> QED
        BY <1>0, <2>1, <2>2
  <1>7. ASSUME NEW j \in 0 .. n + 1, NEW k \in 0 .. n + 1, j <= k PROVE p[j] <= p[k]
    <2>0. o[n] <= o[n] + s /\ o[n] + s <= o[n] + s
        BY <1>0, <1>1
    <2>1. CASE k <= n
      <3>1. j \in 0 .. n /\ k \in 0 .. n
          BY <1>0, <1>7, <2>1
      <3> QED
          BY <1>4, <1>7, <3>1 DEF Laid
    <2>2. CASE k = n + 1 /\ j <= n
      <3>1. j \in 0 .. n /\ n \in 0 .. n
          BY <1>0, <2>2
      <3>2. p[j] <= o[n] /\ p[j] \in Nat
        <4>1. p[j] = o[j] /\ o[j] \in Nat
            BY <1>4, <3>1 DEF Laid
        <4>2. o[j] <= o[n]
            BY <2>2, <3>1 DEF Laid
        <4> QED
            BY <4>1, <4>2
      <3> QED
          BY <1>0, <1>1, <1>4, <2>2, <3>2
    <2>3. CASE k = n + 1 /\ j = n + 1
        BY <1>4, <2>0, <2>3
    <2> QED
        BY <1>0, <1>7, <2>1, <2>2, <2>3
  <1>8. p[0] = 0
      BY <1>0, <1>4 DEF Laid
  <1>9. Laid(p, h, x, (w + s) % RX_RING)
      BY <1>2, <1>4, <1>5, <1>6, <1>7, <1>8 DEF Laid
  <1> QED
      BY <1>9 DEF h

(* The first frame given back.                                             *)
LEMMA TakeFront ==
  ASSUME NEW o, NEW g \in Seq(Records), NEW x \in Nat, NEW w, g # <<>>,
         Laid(o, g, x, w)
  PROVE  \E p : Laid(p, Tail(g), (x + Size(g[1].frame)) % PTR_MOD, w)
  <1> DEFINE n == Len(g)
             s == Size(g[1].frame)
             h == Tail(g)
             y == (x + s) % PTR_MOD
             p == [k \in 0 .. n - 1 |-> o[k + 1] - s]
  <1>0. n \in Nat \ {0} /\ s \in Nat \ {0} /\ RX_RING \in Nat \ {0}
    <2>1. n \in Nat \ {0}
        OBVIOUS
    <2>2. g[1] \in Records
        BY <2>1
    <2> QED
        BY <2>1, <2>2, Sizes DEF Records
  <1>1. o[0] = 0 /\ o[1] = s
      BY <1>0 DEF Laid
  <1>2. h \in Seq(Records) /\ Len(h) = n - 1 /\ \A k \in 1 .. n - 1 : h[k] = g[k + 1]
      BY <1>0
  <1>3. \A k \in 1 .. n : o[k] \in Nat /\ s <= o[k]
    <2> TAKE k \in 1 .. n
    <2>1. 1 \in 0 .. n /\ k \in 0 .. n /\ 1 <= k
        BY <1>0
    <2>2. o[1] <= o[k] /\ o[k] \in Nat
        BY <2>1 DEF Laid
    <2> QED
        BY <1>1, <2>2
  <1> HIDE DEF h
  <1>4. p \in [0 .. n - 1 -> Nat] /\ \A k \in 0 .. n - 1 : p[k] = o[k + 1] - s
    <2>1. ASSUME NEW k \in 0 .. n - 1 PROVE o[k + 1] - s \in Nat
      <3>1. k + 1 \in 1 .. n
          BY <1>0
      <3> QED
          BY <1>0, <1>3, <3>1
    <2> QED
        BY <2>1
  <1> HIDE DEF p
  <1>5. \A d \in Nat : (y + d) % RX_RING = (x + (s + d)) % RX_RING
    <2> TAKE d \in Nat
    <2>1. x + s \in Int /\ d \in Int /\ (x + s) + d = x + (s + d)
        BY <1>0
    <2>2. (((x + s) % PTR_MOD) + d) % RX_RING = ((x + s) + d) % RX_RING
        BY ONLY <2>1, ModWide, ZenonT(60)
    <2> QED
        BY <2>1, <2>2
  <1> HIDE DEF y, s
  <1>6. \A k \in 0 .. n - 1 : p[k] \in Nat /\ s + p[k] = o[k + 1]
    <2> TAKE k \in 0 .. n - 1
    <2>1. k + 1 \in 1 .. n
        BY <1>0
    <2>2. p[k] \in Nat /\ p[k] = o[k + 1] - s /\ o[k + 1] \in Nat
        BY <1>3, <1>4, <2>1
    <2> QED
        BY <1>0, <2>2
  <1>7. ASSUME NEW k \in 1 .. n - 1
        PROVE  p[k] = p[k - 1] + Size(h[k].frame) /\ h[k].at = (y + p[k - 1]) % RX_RING
    <2>1. k \in 0 .. n - 1 /\ k - 1 \in 0 .. n - 1 /\ (k - 1) + 1 = k /\ (k + 1) - 1 = k /\ k + 1 \in 1 .. n
        BY <1>0
    <2>2. /\ o[k + 1] = o[k] + Size(g[k + 1].frame)
          /\ g[k + 1].at = (x + o[k]) % RX_RING
      <3>1. /\ o[k + 1] = o[(k + 1) - 1] + Size(g[k + 1].frame)
            /\ g[k + 1].at = (x + o[(k + 1) - 1]) % RX_RING
          BY <2>1 DEF Laid
      <3> QED
          BY <2>1, <3>1
    <2>3. h[k] = g[k + 1]
        BY <1>2
    <2>4. g[k + 1].frame \in Frames
      <3>1. g[k + 1] \in Records
          BY <2>1
      <3> QED
          BY <3>1 DEF Records
    <2>5. Size(g[k + 1].frame) \in Nat
        BY <2>4, Sizes
    <2>6. p[k - 1] \in Nat /\ s + p[k - 1] = o[k] /\ p[k] \in Nat /\ s + p[k] = o[k + 1]
        BY <1>6, <2>1
    <2>7. (y + p[k - 1]) % RX_RING = (x + o[k]) % RX_RING
        BY <1>5, <2>6
    <2>8. p[k] = p[k - 1] + Size(g[k + 1].frame)
      <3> DEFINE a == p[k]
                 b == p[k - 1]
                 z == Size(g[k + 1].frame)
      <3>1. a \in Nat /\ b \in Nat /\ z \in Nat /\ s \in Nat /\ s + a = (s + b) + z
          BY <1>0, <2>2, <2>5, <2>6
      <3> HIDE DEF a, b, z
      <3>2. a = b + z
          BY <3>1
      <3> QED
          BY <3>2 DEF a, b, z
    <2> QED
        BY <2>2, <2>3, <2>7, <2>8
  <1>8. ASSUME NEW j \in 0 .. n - 1, NEW k \in 0 .. n - 1, j <= k PROVE p[j] <= p[k]
    <2>1. j + 1 \in 0 .. n /\ k + 1 \in 0 .. n /\ j + 1 <= k + 1
        BY <1>0, <1>8
    <2>2. o[j + 1] <= o[k + 1]
        BY <2>1 DEF Laid
    <2>3. p[j] \in Nat /\ s + p[j] = o[j + 1] /\ p[k] \in Nat /\ s + p[k] = o[k + 1]
        BY <1>6
    <2> QED
        BY <1>0, <2>2, <2>3
  <1>9. p[0] = 0 /\ p[n - 1] < RX_RING /\ w = (y + p[n - 1]) % RX_RING
    <2>1. /\ 0 \in 0 .. n - 1 /\ n - 1 \in 0 .. n - 1 /\ 0 + 1 = 1 /\ (n - 1) + 1 = n
        BY <1>0
    <2>2. p[0] \in Nat /\ s + p[0] = o[1] /\ p[n - 1] \in Nat /\ s + p[n - 1] = o[n]
        BY <1>6, <2>1
    <2>3. o[n] < RX_RING /\ w = (x + o[n]) % RX_RING
        BY DEF Laid
    <2>4. (y + p[n - 1]) % RX_RING = (x + o[n]) % RX_RING
        BY <1>5, <2>2
    <2>5. p[0] = 0
        BY <1>0, <1>1, <2>2
    <2>6. p[n - 1] <= o[n] /\ o[n] \in Nat
        BY <1>0, <2>2
    <2> QED
        BY <1>0, <2>2, <2>3, <2>4, <2>5, <2>6
  <1>10. Laid(p, h, y, w)
      BY <1>2, <1>4, <1>7, <1>8, <1>9 DEF Laid
  <1> QED
      BY <1>10 DEF h, y, s

-----------------------------------------------------------------------------
(* The invariant.                                                          *)

(* Until rtl8139_init has found a card its ring is empty.                  *)
StartInv ==
    /\ stage # "done" => present = "booting"
    /\ present # "present" => ring = <<>> /\ wp = 0 /\ rx_ptr = 0

RingInv ==
    /\ ring \in Seq(Records)
    /\ rx_ptr \in Nat /\ rx_ptr % 4 = 0
    /\ capr = (rx_ptr - 16) % PTR_MOD
    /\ \E o : Laid(o, ring, rx_ptr, wp)

Seen == IF pc = "advance" THEN 1 ELSE 0

OrderInv ==
    /\ arrived \in Seq(Frames) /\ received \in Seq(Frames)
    /\ pc = "advance" => ring # <<>>
    /\ Len(arrived) = Len(received) + Len(ring) - Seen
    /\ \A k \in 1 .. Len(received) : arrived[k] = received[k]
    /\ \A k \in 1 .. Len(ring) - Seen : arrived[Len(received) + k] = ring[k + Seen].frame

NicInv == StartInv /\ RingInv /\ OrderInv

(* It holds before the card is looked for.                                 *)
LEMMA NicInvInit == Init => NicInv
  <1> SUFFICES ASSUME Init PROVE NicInv
      OBVIOUS
  <1>1. /\ stage = "pci" /\ present = "booting" /\ ring = <<>> /\ wp = 0 /\ rx_ptr = 0
        /\ capr = (0 - 16) % PTR_MOD /\ pc = "idle" /\ arrived = <<>> /\ received = <<>>
      BY DEF Init, PciInit
  <1>2. Laid([k \in 0 .. 0 |-> 0], <<>>, 0, 0)
      BY Sizes DEF Laid
  <1>3. RingInv
      BY <1>1, <1>2 DEF RingInv
  <1>4. OrderInv
      BY <1>1 DEF OrderInv, Seen
  <1> QED
      BY <1>1, <1>3, <1>4 DEF NicInv, StartInv

(* The frames the driver's pointer passes over keep it a multiple of four. *)
LEMMA NextPtrIs ==
  ASSUME NEW x \in Nat, x % 4 = 0, NEW f \in Frames
  PROVE  /\ NextPtr(x, f) = (x + Size(f)) % PTR_MOD
         /\ NextPtr(x, f) \in Nat /\ NextPtr(x, f) % 4 = 0
  <1>0. Plen(f) \in Nat /\ Size(f) \in Nat /\ Size(f) % 4 = 0 /\ PTR_MOD \in Nat \ {0}
      BY Sizes
  <1>1. RoundUp4(x + Plen(f) + 4) = x + Size(f)
    <2> DEFINE l == Plen(f)
    <2> HIDE DEF l
    <2>1. l \in Nat => RoundUp4(x + l + 4) = x + RoundUp4(l + 4)
        BY DEF RoundUp4
    <2> QED
        BY <1>0, <2>1 DEF l, Size
  <1> DEFINE y == x + Size(f)
  <1>2. y \in Nat /\ y % 4 = 0
      BY <1>0
  <1> HIDE DEF y
  <1>3. \E k \in Nat : PTR_MOD = k * 4
    <2>1. PICK k \in Nat \ {0} : PTR_MOD = k * RX_RING
        BY Sizes
    <2>2. RX_RING \in Nat /\ RX_RING % 4 = 0
        BY NicAssumption
    <2>3. PICK j \in Nat : RX_RING = j * 4
        BY <2>2
    <2>4. k * (j * 4) = (k * j) * 4 /\ k * j \in Nat
        BY ONLY k \in Nat, j \in Nat
    <2> QED
        BY <2>1, <2>3, <2>4
  <1>4. (y % PTR_MOD) % 4 = 0 /\ y % PTR_MOD \in Nat
    <2>1. PICK k \in Nat : PTR_MOD = k * 4
        BY <1>3
    <2> DEFINE z == y % PTR_MOD
    <2>2. z \in Nat
        BY <1>0, <1>2
    <2>3. Same(y, y % PTR_MOD, PTR_MOD)
      <3>1. y \in Int
          BY <1>2
      <3> QED
          BY <1>0, <3>1, ModSame, Zenon
    <2> HIDE DEF z
    <2>4. Same(y, z, k * 4)
        BY <2>1, <2>3 DEF z
    <2>5. y \in Int /\ z \in Int /\ 4 \in Nat /\ 4 \in Nat \ {0}
        BY <1>2, <2>2
    <2>6. Same(y, z, 4)
        BY <2>4, <2>5, SameDiv, Zenon
    <2>7. y % 4 = z % 4
        BY <2>5, <2>6, SameRest, Zenon
    <2> QED
        BY <1>2, <2>2, <2>7 DEF z
  <1> QED
      BY <1>1, <1>4 DEF NextPtr, y

(* The steps that leave ring and history alone.                            *)
LEMMA QuietInv ==
  ASSUME NicInv, ring' = ring, wp' = wp, capr' = capr, rx_ptr' = rx_ptr,
         arrived' = arrived, received' = received, pc' = pc \/ (pc' # "advance" /\ pc # "advance"),
         StartInv'
  PROVE  NicInv'
  <1>1. RingInv'
      BY DEF NicInv, RingInv
  <1>2. Seen' = Seen /\ (pc' = "advance" <=> pc = "advance")
      BY DEF Seen
  <1>3. OrderInv'
      BY <1>2 DEF NicInv, OrderInv
  <1> QED
      BY <1>1, <1>3 DEF NicInv

(* The card stores a frame that fits.                                      *)
LEMMA ArriveInv ==
  ASSUME NicInv, NEW f \in Frames, Arrive(f)
  PROVE  NicInv'
  <1>0. /\ present = "present" /\ present' = present /\ stage' = stage
        /\ Used + Size(f) < RX_RING
        /\ ring' = Append(ring, [frame |-> f, at |-> wp])
        /\ wp' = (wp + Size(f)) % RX_RING
        /\ arrived' = Append(arrived, f)
        /\ capr' = capr /\ rx_ptr' = rx_ptr /\ pc' = pc /\ received' = received
      BY DEF Arrive, Size, pciVars
  <1>1. PICK o : Laid(o, ring, rx_ptr, wp)
      BY DEF NicInv, RingInv
  <1>2. /\ ring \in Seq(Records) /\ rx_ptr \in Nat /\ rx_ptr % 4 = 0
        /\ capr = (rx_ptr - 16) % PTR_MOD
      BY DEF NicInv, RingInv
  <1>3. o[Len(ring)] \in 0 .. RX_RING - 1 /\ wp = (rx_ptr + o[Len(ring)]) % RX_RING
      BY <1>1, <1>2, Sizes DEF Laid
  <1>4. Used = o[Len(ring)]
    <2> DEFINE d == o[Len(ring)]
    <2> HIDE DEF d
    <2>1. (((rx_ptr + d) % RX_RING) - (((rx_ptr - 16) % PTR_MOD) + 16)) % RX_RING = d
        BY <1>2, <1>3, UsedIs, Zenon DEF d
    <2> QED
        BY <1>2, <1>3, <2>1 DEF d, Used
  <1>5. \E p : Laid(p, ring', rx_ptr, wp')
    <2>1. o[Len(ring)] + Size(f) < RX_RING
        BY <1>0, <1>4
    <2>2. \E p : Laid(p, Append(ring, [frame |-> f, at |-> wp]), rx_ptr, (wp + Size(f)) % RX_RING)
        BY <1>1, <1>2, <2>1, PutEnd, Zenon
    <2> QED
        BY <1>0, <2>2, Zenon
  <1>6. wp \in Nat
    <2> DEFINE x == rx_ptr + o[Len(ring)]
    <2>1. x \in Nat /\ wp = x % RX_RING /\ RX_RING \in Nat \ {0}
      <3>1. RX_RING \in Nat \ {0}
          BY Sizes
      <3>2. o[Len(ring)] \in Nat
          BY ONLY <1>3, <3>1
      <3> QED
          BY ONLY <1>2, <1>3, <3>1, <3>2 DEF x
    <2> HIDE DEF x
    <2> QED
        BY ONLY <2>1
  <1>7. RingInv'
    <2>1. ring' \in Seq(Records)
        BY <1>0, <1>2, <1>6 DEF Records
    <2> QED
        BY <1>0, <1>2, <1>5, <2>1 DEF RingInv
  <1>8. OrderInv'
    <2> DEFINE n == Len(ring)
               m == Len(received)
               a == Len(arrived)
    <2>1. /\ arrived \in Seq(Frames) /\ received \in Seq(Frames)
          /\ (pc = "advance" => ring # <<>>) /\ a = m + n - Seen
          /\ \A k \in 1 .. m : arrived[k] = received[k]
          /\ \A k \in 1 .. n - Seen : arrived[m + k] = ring[k + Seen].frame
        BY DEF NicInv, OrderInv
    <2>2. n \in Nat /\ m \in Nat /\ a \in Nat /\ Seen \in {0, 1} /\ Seen' = Seen /\ Seen <= n
        BY <1>0, <1>2, <2>1 DEF Seen
    <2>3. /\ arrived' \in Seq(Frames) /\ Len(arrived') = a + 1
          /\ \A k \in 1 .. a : arrived'[k] = arrived[k]
          /\ arrived'[a + 1] = f
        BY <1>0, <2>1
    <2>4. /\ Len(ring') = n + 1
          /\ \A k \in 1 .. n : ring'[k] = ring[k]
          /\ ring'[n + 1].frame = f
        BY <1>0, <1>2
    <2> HIDE DEF n, m, a
    <2>5. ASSUME NEW k \in 1 .. m PROVE arrived'[k] = received[k]
      <3>1. k \in 1 .. a
          BY <2>1, <2>2
      <3> QED
          BY <2>1, <2>3, <3>1
    <2>6. ASSUME NEW k \in 1 .. n + 1 - Seen PROVE arrived'[m + k] = ring'[k + Seen].frame
      <3>1. CASE k <= n - Seen
        <4>1. k \in 1 .. n - Seen /\ k + Seen \in 1 .. n /\ m + k \in 1 .. a
            BY <2>1, <2>2, <3>1
        <4> QED
            BY <2>1, <2>3, <2>4, <4>1
      <3>2. CASE k = n + 1 - Seen
        <4>1. k + Seen = n + 1 /\ m + k = a + 1
            BY <2>1, <2>2, <3>2
        <4> QED
            BY <2>3, <2>4, <4>1
      <3> QED
          BY <2>2, <3>1, <3>2
    <2>7. a + 1 = m + (n + 1) - Seen
        BY <2>1, <2>2
    <2>8. ring' # <<>>
        BY <1>7, <2>2, <2>4 DEF RingInv
    <2> QED
      <3>1. /\ Len(arrived') = Len(received') + Len(ring') - Seen'
            /\ \A k \in 1 .. Len(received') : arrived'[k] = received'[k]
          BY <1>0, <2>2, <2>3, <2>4, <2>5, <2>7 DEF m
      <3>2. \A k \in 1 .. Len(ring') - Seen' : arrived'[Len(received') + k] = ring'[k + Seen'].frame
        <4>1. Len(ring') - Seen' = n + 1 - Seen /\ Len(received') = m
            BY <1>0, <2>2, <2>4 DEF m
        <4> QED
            BY <2>2, <2>6, <4>1
      <3> QED
          BY <1>0, <2>1, <2>3, <2>8, <3>1, <3>2 DEF OrderInv
  <1>9. StartInv'
      BY <1>0 DEF NicInv, StartInv
  <1> QED
      BY <1>7, <1>8, <1>9 DEF NicInv

(* The driver hands the first frame to the network code.                   *)
LEMMA CallbackInv == NicInv /\ Callback => NicInv'
  <1> SUFFICES ASSUME NicInv, Callback PROVE NicInv'
      OBVIOUS
  <1>0. /\ pc = "drain" /\ pc' = "advance" /\ ring # <<>>
        /\ received' = Append(received, Head(ring).frame)
        /\ ring' = ring /\ wp' = wp /\ capr' = capr /\ rx_ptr' = rx_ptr /\ arrived' = arrived
        /\ present' = present /\ stage' = stage
      BY DEF Callback, AtFrame, devVars, pciVars
  <1>1. StartInv' /\ RingInv'
      BY <1>0 DEF NicInv, StartInv, RingInv
  <1> DEFINE n == Len(ring)
             m == Len(received)
             a == Len(arrived)
  <1>2. /\ arrived \in Seq(Frames) /\ received \in Seq(Frames) /\ ring \in Seq(Records)
        /\ a = m + n - Seen
        /\ \A k \in 1 .. m : arrived[k] = received[k]
        /\ \A k \in 1 .. n - Seen : arrived[m + k] = ring[k + Seen].frame
      BY DEF NicInv, OrderInv, RingInv
  <1>3. n \in Nat \ {0} /\ m \in Nat /\ a \in Nat /\ Seen = 0 /\ Seen' = 1
      BY <1>0, <1>2 DEF Seen
  <1>4. ring[1].frame \in Frames /\ Head(ring) = ring[1]
    <2>1. ring[1] \in Records /\ Head(ring) = ring[1]
        BY <1>2, <1>3
    <2> QED
        BY <2>1 DEF Records
  <1>5. /\ received' \in Seq(Frames) /\ Len(received') = m + 1
        /\ \A k \in 1 .. m : received'[k] = received[k]
        /\ received'[m + 1] = ring[1].frame
      BY <1>0, <1>2, <1>4
  <1> HIDE DEF n, m, a
  <1>6. ASSUME NEW k \in 1 .. m + 1 PROVE arrived[k] = received'[k]
    <2>1. CASE k <= m
        BY <1>2, <1>3, <1>5, <2>1
    <2>2. CASE k = m + 1
      <3>1. 1 \in 1 .. n - Seen /\ 1 + Seen = 1
          BY <1>3
      <3>2. arrived[m + 1] = ring[1].frame
          BY <1>2, <3>1
      <3> QED
          BY <1>5, <2>2, <3>2
    <2> QED
        BY <1>3, <2>1, <2>2
  <1>7. ASSUME NEW k \in 1 .. n - 1 PROVE arrived[(m + 1) + k] = ring[k + 1].frame
    <2>1. k + 1 \in 1 .. n - Seen /\ (k + 1) + Seen = k + 1 /\ m + (k + 1) = (m + 1) + k
        BY <1>3
    <2>2. arrived[m + (k + 1)] = ring[(k + 1) + Seen].frame
        BY <1>2, <2>1
    <2> QED
        BY <2>1, <2>2
  <1>8. a = (m + 1) + n - 1
      BY <1>2, <1>3
  <1>9. OrderInv'
    <2>1. /\ Len(arrived') = Len(received') + Len(ring') - Seen'
          /\ \A k \in 1 .. Len(received') : arrived'[k] = received'[k]
        BY <1>0, <1>3, <1>5, <1>6, <1>8 DEF n, a
    <2>2. \A k \in 1 .. Len(ring') - Seen' : arrived'[Len(received') + k] = ring'[k + Seen'].frame
        BY <1>0, <1>3, <1>5, <1>7 DEF n
    <2> QED
        BY <1>0, <1>2, <1>5, <2>1, <2>2 DEF OrderInv
  <1> QED
      BY <1>1, <1>9 DEF NicInv

(* It moves its pointer past it, and CAPR.                                 *)
LEMMA AdvanceInv == NicInv /\ Advance => NicInv'
  <1> SUFFICES ASSUME NicInv, Advance PROVE NicInv'
      OBVIOUS
  <1>0. /\ pc = "advance" /\ pc' = "drain"
        /\ rx_ptr' = NextPtr(rx_ptr, Head(ring).frame)
        /\ capr' = (rx_ptr' - 16) % PTR_MOD
        /\ ring' = Tail(ring) /\ wp' = wp
        /\ arrived' = arrived /\ received' = received
        /\ present' = present /\ stage' = stage
      BY DEF Advance, pciVars
  <1> DEFINE n == Len(ring)
             m == Len(received)
             a == Len(arrived)
  <1>2. /\ arrived \in Seq(Frames) /\ received \in Seq(Frames) /\ ring \in Seq(Records)
        /\ ring # <<>> /\ a = m + n - Seen
        /\ \A k \in 1 .. m : arrived[k] = received[k]
        /\ \A k \in 1 .. n - Seen : arrived[m + k] = ring[k + Seen].frame
      BY <1>0 DEF NicInv, OrderInv, RingInv
  <1>3. n \in Nat \ {0} /\ m \in Nat /\ a \in Nat /\ Seen = 1 /\ Seen' = 0
      BY <1>0, <1>2 DEF Seen
  <1>4. ring[1].frame \in Frames /\ Head(ring) = ring[1]
    <2>1. ring[1] \in Records /\ Head(ring) = ring[1]
        BY <1>2, <1>3
    <2> QED
        BY <2>1 DEF Records
  <1>5. /\ ring' \in Seq(Records) /\ Len(ring') = n - 1
        /\ \A k \in 1 .. n - 1 : ring'[k] = ring[k + 1]
      BY <1>0, <1>2, <1>3
  <1>6. rx_ptr \in Nat /\ rx_ptr % 4 = 0
      BY DEF NicInv, RingInv
  <1>7. rx_ptr' = (rx_ptr + Size(ring[1].frame)) % PTR_MOD /\ rx_ptr' \in Nat /\ rx_ptr' % 4 = 0
      BY <1>0, <1>4, <1>6, NextPtrIs
  <1>8. \E o : Laid(o, ring', rx_ptr', wp')
    <2>1. PICK o : Laid(o, ring, rx_ptr, wp)
        BY DEF NicInv, RingInv
    <2>2. \E p : Laid(p, Tail(ring), (rx_ptr + Size(ring[1].frame)) % PTR_MOD, wp)
        BY <1>2, <1>6, <2>1, TakeFront
    <2> QED
        BY <1>0, <1>7, <2>2
  <1>9. RingInv'
      BY <1>0, <1>5, <1>7, <1>8 DEF RingInv
  <1>10. StartInv'
      BY <1>0, <1>2 DEF NicInv, StartInv
  <1> HIDE DEF n, m, a
  <1>11. ASSUME NEW k \in 1 .. n - 1 PROVE arrived[m + k] = ring'[k + 0].frame
    <2>1. k \in 1 .. n - Seen /\ k + Seen = k + 1 /\ k + 0 = k
        BY <1>3
    <2> QED
        BY <1>2, <1>5, <2>1
  <1>12. a = m + (n - 1) - 0 /\ (n - 1) - 0 = n - 1
      BY <1>2, <1>3
  <1>13. OrderInv'
      BY <1>0, <1>2, <1>3, <1>5, <1>11, <1>12 DEF OrderInv, m, a
  <1> QED
      BY <1>9, <1>10, <1>13 DEF NicInv

(* rtl8139_init finds the ring as it was.                                  *)
LEMMA BringUpInv == NicInv /\ net_bring_up => NicInv'
  <1> SUFFICES ASSUME NicInv, net_bring_up PROVE NicInv'
      OBVIOUS
  <1>0. /\ stage = "net" /\ stage' = "done" /\ pc' = pc
        /\ ring' = ring /\ wp' = wp /\ capr' = capr /\ arrived' = arrived /\ received' = received
        /\ present' \in {"absent", "present"} /\ rx_ptr' \in {0, rx_ptr}
      BY DEF net_bring_up, rtl8139_init, devVars
  <1>1. present = "booting"
      BY <1>0 DEF NicInv, StartInv
  <1>2. ring = <<>> /\ wp = 0 /\ rx_ptr = 0
      BY <1>1 DEF NicInv, StartInv
  <1>3. StartInv' /\ rx_ptr' = rx_ptr
      BY <1>0, <1>2 DEF StartInv
  <1> QED
      BY <1>0, <1>3, QuietInv

(* Every step keeps the invariant.                                         *)
LEMMA NicInvNext == NicInv /\ [Next]_vars => NicInv'
  <1> SUFFICES ASSUME NicInv, [Next]_vars PROVE NicInv'
      OBVIOUS
  <1>1. CASE (pci_init \/ xhci_init \/ bluetooth_detect) /\ UNCHANGED nicVars
    <2>1. /\ stage # "done" /\ present' = present /\ pc' = pc /\ ring' = ring /\ wp' = wp
          /\ capr' = capr /\ rx_ptr' = rx_ptr /\ arrived' = arrived /\ received' = received
        BY <1>1 DEF pci_init, ProbeNext, ProbeEnd, xhci_init, bluetooth_detect, nicVars, devVars
    <2>2. StartInv'
        BY <2>1 DEF NicInv, StartInv
    <2> QED
        BY <2>1, <2>2, QuietInv
  <1>2. CASE ReadIsr \/ AckIsr \/ DrainEnd \/ DrainBreak \/ Transmit
    <2>1. /\ stage' = stage /\ present' = present /\ ring' = ring /\ wp' = wp
          /\ capr' = capr /\ rx_ptr' = rx_ptr /\ arrived' = arrived /\ received' = received
        BY <1>2 DEF ReadIsr, AckIsr, DrainEnd, DrainBreak, Transmit, pciVars, devVars
    <2>2. pc' = pc \/ (pc' # "advance" /\ pc # "advance")
        BY <1>2 DEF ReadIsr, AckIsr, DrainEnd, DrainBreak, Transmit
    <2>3. StartInv'
        BY <2>1 DEF NicInv, StartInv
    <2> QED
        BY <2>1, <2>2, <2>3, QuietInv
  <1>3. CASE UNCHANGED vars
    <2>1. /\ stage' = stage /\ present' = present /\ ring' = ring /\ wp' = wp /\ pc' = pc
          /\ capr' = capr /\ rx_ptr' = rx_ptr /\ arrived' = arrived /\ received' = received
        BY <1>3 DEF vars, pciVars, nicVars, devVars
    <2>2. StartInv'
        BY <2>1 DEF NicInv, StartInv
    <2> QED
        BY <2>1, <2>2, QuietInv
  <1>4. CASE \E f \in Frames : Arrive(f)
      BY <1>4, ArriveInv
  <1> QED
      BY <1>1, <1>2, <1>3, <1>4, BringUpInv, CallbackInv, AdvanceInv DEF Next, Poll

(* So it holds at all times.                                               *)
LEMMA NicInvAlways == Spec => []NicInv
  BY NicInvInit, NicInvNext, PTL DEF Spec

-----------------------------------------------------------------------------
(* Where the driver reads is where the first frame starts, and the card's  *)
(* ring is empty when the pointers meet.                                   *)
LEMMA PointersMeet ==
  ASSUME RingInv
  PROVE  (ring # <<>> => AtFrame) /\ (BufferEmpty <=> ring = <<>>)
  <1>1. PICK o : Laid(o, ring, rx_ptr, wp)
      BY DEF RingInv
  <1>2. /\ ring \in Seq(Records) /\ rx_ptr \in Nat /\ capr = (rx_ptr - 16) % PTR_MOD
        /\ RX_RING \in Nat \ {0}
      BY Sizes DEF RingInv
  <1>3. (capr + 16) % RX_RING = rx_ptr % RX_RING
      BY <1>2, CaprIs
  <1>4. ASSUME ring # <<>> PROVE AtFrame /\ o[Len(ring)] > 0
    <2>1. 1 \in 1 .. Len(ring) /\ Head(ring) = ring[1] /\ ring[1] \in Records /\ Len(ring) \in Nat
        BY <1>2, <1>4
    <2>2. 1 - 1 = 0 /\ 1 \in 0 .. Len(ring) /\ Len(ring) \in 0 .. Len(ring) /\ 1 <= Len(ring)
        BY <2>1
    <2>3. o[1 - 1] = 0 /\ ring[1].at = (rx_ptr + o[1 - 1]) % RX_RING /\ o[1] = o[1 - 1] + Size(ring[1].frame)
        BY <1>1, <2>1, <2>2 DEF Laid
    <2>4. ring[1].at = rx_ptr % RX_RING
        BY <1>2, <2>3
    <2>5. Size(ring[1].frame) \in Nat \ {0}
        BY <2>1, Sizes DEF Records
    <2>6. o[1] <= o[Len(ring)] /\ o[Len(ring)] \in Nat
        BY <1>1, <2>2 DEF Laid
    <2> QED
        BY <1>4, <2>1, <2>3, <2>4, <2>5, <2>6 DEF AtFrame
  <1>5. (rx_ptr + o[Len(ring)]) % RX_RING = rx_ptr % RX_RING <=> ring = <<>>
    <2> DEFINE d == o[Len(ring)]
    <2>1. d \in 0 .. RX_RING - 1
        BY <1>1, <1>2 DEF Laid
    <2>2. ring = <<>> => d = 0
        BY <1>1 DEF Laid
    <2>3. ring # <<>> => d > 0
        BY <1>4
    <2> HIDE DEF d
    <2>4. rx_ptr + d \in Int /\ rx_ptr \in Int /\ (rx_ptr + d) - rx_ptr = d
        BY <1>2, <2>1
    <2>5. (((rx_ptr + d) % RX_RING) - (rx_ptr % RX_RING)) % RX_RING = ((rx_ptr + d) - rx_ptr) % RX_RING
        BY ONLY <1>2, <2>4, ModDiff, ZenonT(60)
    <2>6. d % RX_RING = d
        BY <1>2, <2>1, ModSmall, Zenon
    <2>7. (rx_ptr + d) % RX_RING = rx_ptr % RX_RING => d = 0
      <3> SUFFICES ASSUME (rx_ptr + d) % RX_RING = rx_ptr % RX_RING PROVE d = 0
          OBVIOUS
      <3>1. ((rx_ptr + d) % RX_RING) - (rx_ptr % RX_RING) = 0
          BY <1>2, <2>4
      <3>2. 0 % RX_RING = 0
          BY <1>2
      <3> QED
          BY <2>4, <2>5, <2>6, <3>1, <3>2
    <2>8. d = 0 => (rx_ptr + d) % RX_RING = rx_ptr % RX_RING
        BY <1>2
    <2> QED
        BY <2>2, <2>3, <2>7, <2>8 DEF d
  <1>6. wp = (rx_ptr + o[Len(ring)]) % RX_RING
      BY <1>1 DEF Laid
  <1> QED
      BY <1>3, <1>4, <1>5, <1>6 DEF BufferEmpty

(* What arrived is what was received and what is still in the ring.        *)
LEMMA ArrivedIs ==
  ASSUME RingInv, OrderInv
  PROVE  arrived = received \o [k \in 1 .. Len(ring) - Seen |-> ring[k + Seen].frame]
  <1> DEFINE n == Len(ring) - Seen
             q == [k \in 1 .. n |-> ring[k + Seen].frame]
             m == Len(received)
  <1>1. /\ arrived \in Seq(Frames) /\ received \in Seq(Frames) /\ ring \in Seq(Records)
        /\ (pc = "advance" => ring # <<>>)
        /\ Len(arrived) = m + Len(ring) - Seen
        /\ \A k \in 1 .. m : arrived[k] = received[k]
        /\ \A k \in 1 .. n : arrived[m + k] = ring[k + Seen].frame
      BY DEF OrderInv, RingInv
  <1>2. Seen \in {0, 1} /\ Len(ring) \in Nat /\ n \in Nat /\ m \in Nat /\ Len(arrived) = m + n
      BY <1>1 DEF Seen
  <1>3. ASSUME NEW k \in 1 .. n PROVE ring[k + Seen].frame \in Frames
    <2>1. k + Seen \in 1 .. Len(ring)
        BY <1>2
    <2>2. ring[k + Seen] \in Records
        BY <1>1, <2>1
    <2> QED
        BY <2>2 DEF Records
  <1>4. q \in Seq(Frames) /\ Len(q) = n /\ \A k \in 1 .. n : q[k] = ring[k + Seen].frame
    <2>1. q \in [1 .. n -> Frames]
        BY <1>3
    <2>2. \A k \in 1 .. n : q[k] = ring[k + Seen].frame
        OBVIOUS
    <2> HIDE DEF q, n
    <2>3. q \in Seq(Frames)
        BY <1>2, <2>1, SeqDef
    <2>4. Len(q) = n
        BY <1>2, <2>1, <2>3
    <2> QED
        BY <2>2, <2>3, <2>4
  <1> HIDE DEF n, q, m
  <1>5. /\ received \o q \in Seq(Frames) /\ Len(received \o q) = m + n
        /\ \A k \in 1 .. m + n : (received \o q)[k] = IF k <= m THEN received[k] ELSE q[k - m]
      BY <1>1, <1>4, ConcatProperties DEF m
  <1>6. ASSUME NEW k \in 1 .. m + n PROVE arrived[k] = (received \o q)[k]
    <2>1. CASE k <= m
        BY <1>1, <1>2, <1>5, <2>1
    <2>2. CASE ~ (k <= m)
      <3>1. k - m \in 1 .. n /\ m + (k - m) = k
          BY <1>2, <2>2
      <3>2. arrived[m + (k - m)] = q[k - m]
          BY <1>1, <1>4, <3>1
      <3> QED
          BY <1>5, <2>2, <3>1, <3>2
    <2> QED
        BY <2>1, <2>2
  <1>7. arrived = received \o q
      BY <1>1, <1>2, <1>5, <1>6, SeqEqual
  <1> QED
      BY <1>7 DEF q, n

(* Frames are handed to the network code once, in the order in which they  *)
(* came, and never from a place where none starts, for every ring length.  *)
THEOREM NicReceives == Spec => []ReceiveInOrder
  <1>1. NicInv => ReceiveInOrder
      BY PointersMeet, ArrivedIs DEF NicInv, ReceiveInOrder, Seen
  <1> QED
      BY <1>1, NicInvAlways, PTL

(* Two frames that lie at different places do not meet, in either order.   *)
LEMMA Apart ==
  ASSUME RingInv, NEW j \in 1 .. Len(ring), NEW k \in 1 .. Len(ring), j # k
  PROVE  EndsBefore(ring[j], ring[k])
  <1> DEFINE R == RX_RING
             n == Len(ring)
  <1>1. PICK o : Laid(o, ring, rx_ptr, wp)
      BY DEF RingInv
  <1>2. ring \in Seq(Records) /\ rx_ptr \in Nat /\ R \in Nat \ {0} /\ n \in Nat
      BY Sizes DEF RingInv
  <1> DEFINE a == o[j - 1]
             e == o[j]
             b == o[k - 1]
             c == o[k]
             s == Size(ring[j].frame)
  <1>3. /\ j - 1 \in 0 .. n /\ j \in 0 .. n /\ k - 1 \in 0 .. n /\ k \in 0 .. n /\ n \in 0 .. n
        /\ j <= n /\ k <= n
      BY <1>2
  <1>4. a \in Nat /\ e \in Nat /\ b \in Nat /\ c \in Nat /\ o[n] \in Nat
      BY <1>1, <1>3 DEF Laid
  <1>5. e <= o[n] /\ c <= o[n] /\ o[n] < R
      BY <1>1, <1>3 DEF Laid
  <1>6. ring[j].at = (rx_ptr + a) % R /\ ring[k].at = (rx_ptr + b) % R /\ e = a + s
      BY <1>1 DEF Laid
  <1>7. s \in Nat \ {0} /\ Size(ring[k].frame) \in Nat \ {0}
    <2>1. ring[j] \in Records /\ ring[k] \in Records
        BY <1>2
    <2> QED
        BY <2>1, Sizes DEF Records
  <1>8. c = b + Size(ring[k].frame)
      BY <1>1 DEF Laid
  <1>9. b < c
      BY <1>4, <1>7, <1>8
  <1>10. j < k => e <= b
    <2>1. j < k => j <= k - 1
        BY <1>2
    <2> QED
        BY <1>1, <1>3, <2>1 DEF Laid
  <1>11. k < j => c <= a
    <2>1. k < j => k <= j - 1
        BY <1>2
    <2> QED
        BY <1>1, <1>3, <2>1 DEF Laid
  <1> SUFFICES (((rx_ptr + b) % R) - ((rx_ptr + a) % R)) % R >= s
      BY <1>6 DEF EndsBefore, Size
  <1> HIDE DEF a, b, c, e, s, R, n
  <1>12. (((rx_ptr + b) % R) - ((rx_ptr + a) % R)) % R = (b - a) % R
    <2>1. rx_ptr + b \in Int /\ rx_ptr + a \in Int /\ (rx_ptr + b) - (rx_ptr + a) = b - a
        BY <1>2, <1>4
    <2>2. (((rx_ptr + b) % R) - ((rx_ptr + a) % R)) % R = ((rx_ptr + b) - (rx_ptr + a)) % R
        BY ONLY <1>2, <2>1, ModDiff, ZenonT(60)
    <2> QED
        BY <2>1, <2>2
  <1>13. CASE j < k
    <2>1. b - a \in 0 .. R - 1 /\ b - a >= s
        BY <1>2, <1>4, <1>5, <1>6, <1>7, <1>9, <1>10, <1>13
    <2>2. (b - a) % R = b - a
        BY <1>2, <2>1, ModSmall, Zenon
    <2> QED
        BY <1>12, <2>1, <2>2
  <1>14. CASE k < j
    <2>1. b - a \in Int /\ b - a < 0 /\ (b - a) + R >= 0 /\ (b - a) + R >= s
        BY <1>2, <1>4, <1>5, <1>6, <1>7, <1>9, <1>11, <1>14
    <2>2. (b - a) % R = (b - a) + R
        BY <1>2, <2>1, ModNeg, Zenon
    <2> QED
        BY <1>12, <2>1, <2>2
  <1> QED
      BY <1>2, <1>13, <1>14

(* No frame in the ring is written over, be it the one that rtl_rx looks   *)
(* at or one still to come, for every ring length and every frame.         *)
THEOREM NicFrames == Spec => []FramesStable
  <1>1. NicInv => FramesStable
    <2> SUFFICES ASSUME NicInv, NEW j \in DOMAIN ring, NEW k \in DOMAIN ring, j # k
                 PROVE  EndsBefore(ring[j], ring[k])
        BY DEF FramesStable
    <2>1. DOMAIN ring = 1 .. Len(ring)
        BY DEF NicInv, RingInv
    <2> QED
        BY <2>1, Apart DEF NicInv
  <1> QED
      BY <1>1, NicInvAlways, PTL

-----------------------------------------------------------------------------
(* The device table.                                                       *)

(* The only quotient and remainder.                                        *)
LEMMA Split ==
  ASSUME NEW n \in Nat \ {0}, NEW q \in Nat, NEW e \in 0 .. n - 1
  PROVE  (q * n + e) \div n = q /\ (q * n + e) % n = e
  <1>1. q * n + e \in Nat
      OBVIOUS
  <1> DEFINE x == q * n + e
             p == x \div n
             d == x % n
  <1>2. x = n * p + d /\ d \in 0 .. n - 1 /\ p \in Nat
      BY <1>1
  <1> HIDE DEF p, d
  <1>3. n * (p - q) = e - d /\ p - q \in Int
      BY <1>2
  <1>4. p - q = 0
    <2> DEFINE z == p - q
    <2>1. z \in Int /\ n * z = e - d /\ e - d < n /\ e - d > - n
        BY <1>2, <1>3
    <2> HIDE DEF z
    <2>2. CASE z >= 1
      <3>1. n * z >= n
          BY <2>1, <2>2
      <3> QED
          BY <2>1, <3>1, <1>2
    <2>3. CASE z <= -1
      <3>1. n * z <= - n
          BY <2>1, <2>3
      <3> QED
          BY <2>1, <3>1, <1>2
    <2> QED
        BY <2>1, <2>2, <2>3 DEF z
  <1>5. p = q /\ d = e
      BY <1>2, <1>3, <1>4
  <1> QED
      BY <1>5 DEF p, d

(* What is at a place of the machine, and whether it is looked at.         *)
At(m, k) == m[SlotAt(k)].fns[FnAt(k)]
Looked(m, k) == Probed(m, SlotAt(k), FnAt(k)) /\ At(m, k) # NoFn

(* Slots and functions are numbered by the places.                         *)
LEMMA PlaceIs ==
  ASSUME NEW m \in Machines, NEW k \in 0 .. Places(m) - 1
  PROVE  /\ SlotAt(k) \in DOMAIN m /\ FnAt(k) \in Fns /\ SlotAt(k) \in Nat \ {0} /\ k \in Nat
         /\ SlotAt(k) * PCI_FNS + FnAt(k) = k + PCI_FNS
  <1> DEFINE F == PCI_FNS
             q == k \div F
             e == k % F
  <1>1. F \in Nat \ {0} /\ Len(m) \in Nat /\ DOMAIN m = 1 .. Len(m)
      BY PciAssumption
  <1>2. k \in Nat /\ k < Len(m) * F
      BY <1>1 DEF Places
  <1>3. k = F * q + e /\ e \in 0 .. F - 1 /\ q \in Nat
      BY <1>1, <1>2
  <1> HIDE DEF F, q, e
  <1>4. q < Len(m)
    <2> SUFFICES ASSUME q >= Len(m) PROVE FALSE
        BY <1>1, <1>3
    <2>1. F * q >= F * Len(m)
        BY <1>1, <1>3
    <2> QED
        BY <1>1, <1>2, <1>3, <2>1
  <1>5. (q + 1) * F + e = k + F
      BY <1>1, <1>3
  <1> QED
      BY <1>1, <1>2, <1>3, <1>4, <1>5 DEF SlotAt, FnAt, Fns, F, q, e

(* A function that is looked at is read where it is.                       *)
LEMMA ReadIs ==
  ASSUME NEW m \in Machines, NEW k \in 0 .. Places(m) - 1, Probed(m, SlotAt(k), FnAt(k))
  PROVE  pci_read(m, SlotAt(k), FnAt(k)) = At(m, k)
  BY DEF Probed, pci_read, At

(* The machine's functions are those that are looked at ...                *)
LEMMA LookedReal ==
  ASSUME NEW m \in Machines, NEW k \in 0 .. Places(m) - 1, Looked(m, k)
  PROVE  At(m, k) \in Real(m) /\ At(m, k).at = k + PCI_FNS
  <1> DEFINE s == SlotAt(k)
             f == FnAt(k)
  <1>1. s \in DOMAIN m /\ f \in Fns /\ s \in Nat \ {0} /\ s * PCI_FNS + f = k + PCI_FNS /\ 0 \in Fns
        /\ PCI_FNS \in Nat \ {0}
      BY PlaceIs, PciAssumption DEF Fns
  <1>2. At(m, k) = m[s].fns[f] /\ At(m, k) # NoFn /\ m[s].fns[0] # NoFn /\ (f = 0 \/ m[s].multi)
      BY DEF Looked, At, Probed, pci_read
  <1>3. At(m, k).at = s * PCI_FNS + f
      BY <1>1, <1>2, PciAssumption
  <1>4. (s * PCI_FNS + f) % PCI_FNS = f /\ (s * PCI_FNS + f) \div PCI_FNS = s
      BY <1>1, Split DEF Fns
  <1>5. At(m, k) \in Present(m)
      BY <1>1, <1>2 DEF Present
  <1> HIDE DEF s, f
  <1> QED
      BY <1>1, <1>2, <1>3, <1>4, <1>5 DEF Real

(* ... each at one place.                                                  *)
LEMMA RealLooked ==
  ASSUME NEW m \in Machines, NEW g \in Real(m)
  PROVE  \E k \in 0 .. Places(m) - 1 : Looked(m, k) /\ g = At(m, k)
  <1>1. PICK s \in DOMAIN m, f \in Fns :
            g = m[s].fns[f] /\ m[s].fns[0] # NoFn /\ g # NoFn
      BY DEF Real, Present
  <1>2. /\ PCI_FNS \in Nat \ {0} /\ s \in 1 .. Len(m) /\ Len(m) \in Nat
        /\ g.at = s * PCI_FNS + f /\ f \in 0 .. PCI_FNS - 1
      BY <1>1, PciAssumption DEF Fns
  <1>3. g.at % PCI_FNS = f /\ g.at \div PCI_FNS = s
    <2>1. s \in Nat
        BY <1>2
    <2>2. (s * PCI_FNS + f) % PCI_FNS = f /\ (s * PCI_FNS + f) \div PCI_FNS = s
        BY <1>2, <2>1, Split, Zenon
    <2> QED
        BY <1>2, <2>2, Zenon
  <1>4. f = 0 \/ m[s].multi
      BY <1>3 DEF Real
  <1> DEFINE t == s - 1
             k == t * PCI_FNS + f
  <1>5. t \in Nat /\ t + 1 = s
      BY <1>2
  <1> HIDE DEF t
  <1>6. k \div PCI_FNS = t /\ k % PCI_FNS = f
      BY <1>2, <1>5, Split
  <1>7. k \in 0 .. Places(m) - 1
    <2>1. k \in Nat
        BY <1>2, <1>5
    <2>2. (t + 1) * PCI_FNS <= Len(m) * PCI_FNS
        BY <1>2, <1>5
    <2>3. (t + 1) * PCI_FNS = t * PCI_FNS + PCI_FNS /\ Len(m) * PCI_FNS \in Nat
        BY <1>2, <1>5
    <2>4. k < Len(m) * PCI_FNS
        BY <1>2, <1>5, <2>2, <2>3
    <2> QED
        BY <2>1, <2>3, <2>4 DEF Places
  <1>8. SlotAt(k) = s /\ FnAt(k) = f
      BY <1>5, <1>6 DEF SlotAt, FnAt
  <1> HIDE DEF k
  <1>9. Looked(m, k) /\ g = At(m, k)
      BY <1>1, <1>4, <1>8 DEF Looked, At, Probed, pci_read
  <1> QED
      BY <1>7, <1>9

(* Places and functions determine each other.                              *)
LEMMA RealIs ==
  ASSUME NEW m \in Machines, NEW f \in Real(m)
  PROVE  /\ f.at \in PCI_FNS .. Places(m) + PCI_FNS - 1
         /\ f # NoFn
         /\ \A g \in Real(m) : f.at = g.at => f = g
  <1>1. PICK k \in 0 .. Places(m) - 1 : Looked(m, k) /\ f = At(m, k)
      BY RealLooked
  <1>2. f.at = k + PCI_FNS /\ k \in Nat /\ PCI_FNS \in Nat /\ Places(m) \in Int
      BY <1>1, LookedReal, PciAssumption DEF Places
  <1>3. ASSUME NEW g \in Real(m), f.at = g.at PROVE f = g
    <2>1. PICK j \in 0 .. Places(m) - 1 : Looked(m, j) /\ g = At(m, j)
        BY RealLooked
    <2>2. g.at = j + PCI_FNS /\ j \in Nat
        BY <1>2, <2>1, LookedReal
    <2>3. j = k
        BY <1>2, <1>3, <2>2
    <2> QED
        BY <1>1, <2>1, <2>3
  <1>4. f # NoFn
      BY <1>1 DEF Looked
  <1> QED
      BY <1>2, <1>3, <1>4

(* The functions before a place.                                           *)
Before(m, k) == {f \in Real(m) : f.at < k + PCI_FNS}

(* There is a finite number of them, one more after a place that is looked *)
(* at.                                                                     *)
LEMMA BeforeNext ==
  ASSUME NEW m \in Machines, NEW k \in 0 .. Places(m) - 1
  PROVE  /\ ~ Looked(m, k) => Before(m, k + 1) = Before(m, k)
         /\ Looked(m, k) => /\ Before(m, k + 1) = Before(m, k) \cup {At(m, k)}
                            /\ At(m, k) \notin Before(m, k)
                            /\ Before(m, k + 1) = {g \in Real(m) : g.at <= At(m, k).at}
  <1>1. k \in Nat /\ PCI_FNS \in Nat
      BY PlaceIs, PciAssumption
  <1>2. ASSUME NEW f \in Real(m)
        PROVE  /\ f.at \in Nat
               /\ f.at < (k + 1) + PCI_FNS <=> f.at < k + PCI_FNS \/ f.at = k + PCI_FNS
               /\ f.at = k + PCI_FNS => Looked(m, k) /\ f = At(m, k)
    <2>1. PICK j \in 0 .. Places(m) - 1 : Looked(m, j) /\ f = At(m, j)
        BY RealLooked
    <2>2. f.at = j + PCI_FNS /\ j \in Nat
        BY <2>1, LookedReal, PlaceIs
    <2>3. f.at = k + PCI_FNS => j = k
        BY <1>1, <2>2
    <2>4. f.at \in Nat /\ (f.at < (k + 1) + PCI_FNS <=> f.at < k + PCI_FNS \/ f.at = k + PCI_FNS)
        BY <1>1, <2>2
    <2> QED
        BY <2>1, <2>3, <2>4
  <1>3. ~ Looked(m, k) => Before(m, k + 1) = Before(m, k)
      BY <1>2, Zenon DEF Before
  <1>4. ASSUME Looked(m, k)
        PROVE  /\ Before(m, k + 1) = Before(m, k) \cup {At(m, k)}
               /\ At(m, k) \notin Before(m, k)
               /\ Before(m, k + 1) = {g \in Real(m) : g.at <= At(m, k).at}
    <2>1. At(m, k) \in Real(m) /\ At(m, k).at = k + PCI_FNS
        BY <1>4, LookedReal
    <2>2. ~ (k + PCI_FNS < k + PCI_FNS)
        BY <1>1
    <2>3. \A f \in Real(m) : f.at <= k + PCI_FNS <=> f.at < (k + 1) + PCI_FNS
        BY <1>1, <1>2
    <2> QED
        BY <1>2, <2>1, <2>2, <2>3 DEF Before
  <1> QED
      BY <1>3, <1>4

(* The table t after k places: the functions before that have a place, in  *)
(* order.                                                                  *)
Entered(m, k, t) ==
    \A f : (\E j \in 1 .. Len(t) : t[j] = f) <=> f \in Listed(m) /\ f.at < k + PCI_FNS
Ordered(t) == \A i, j \in 1 .. Len(t) : i < j => t[i].at < t[j].at
Table(m, k, t) ==
    /\ IsFiniteSet(Before(m, k))
    /\ t \in Seq(Real(m))
    /\ Len(t) = IF Cardinality(Before(m, k)) <= PCI_MAX_DEVICES
                THEN Cardinality(Before(m, k)) ELSE PCI_MAX_DEVICES
    /\ Entered(m, k, t) /\ Ordered(t)

(* It is empty at first ...                                                *)
LEMMA TableInit ==
  ASSUME NEW m \in Machines
  PROVE  Table(m, 0, <<>>)
  <1>1. Before(m, 0) = {}
    <2> SUFFICES ASSUME NEW f \in Real(m), f.at < 0 + PCI_FNS PROVE FALSE
        BY DEF Before
    <2>1. f.at \in PCI_FNS .. Places(m) + PCI_FNS - 1 /\ PCI_FNS \in Nat
        BY RealIs, PciAssumption
    <2> QED
        BY <2>1
  <1>2. IsFiniteSet({}) /\ Cardinality({}) = 0
      BY FS_EmptySet
  <1>3. <<>> \in Seq(Real(m)) /\ Len(<<>>) = 0 /\ PCI_MAX_DEVICES \in Nat
      BY PciAssumption
  <1>4. Listed(m) \subseteq Real(m)
      BY DEF Listed
  <1>5. Entered(m, 0, <<>>)
      BY <1>1, <1>3, <1>4 DEF Entered, Before
  <1>6. Ordered(<<>>)
      BY <1>3 DEF Ordered
  <1>7. Cardinality(Before(m, 0)) = 0 /\ IsFiniteSet(Before(m, 0))
      BY <1>1, <1>2, Zenon
  <1>8. Len(<<>>) = IF Cardinality(Before(m, 0)) <= PCI_MAX_DEVICES
                    THEN Cardinality(Before(m, 0)) ELSE PCI_MAX_DEVICES
      BY <1>3, <1>7
  <1> QED
      BY <1>3, <1>5, <1>6, <1>7, <1>8, Zenon DEF Table

(* ... and probe adds a function as long as there is room.                 *)
LEMMA TableNext ==
  ASSUME NEW m \in Machines, NEW k \in 0 .. Places(m) - 1, NEW t, Table(m, k, t), NEW u,
         u = IF Looked(m, k) /\ Len(t) < PCI_MAX_DEVICES THEN Append(t, At(m, k)) ELSE t
  PROVE  Table(m, k + 1, u)
  <1> DEFINE B == Before(m, k)
             C == Before(m, k + 1)
             a == At(m, k)
             n == Len(t)
             MAX == PCI_MAX_DEVICES
  <1>1. /\ IsFiniteSet(B) /\ t \in Seq(Real(m)) /\ n = IF Cardinality(B) <= MAX THEN Cardinality(B) ELSE MAX
        /\ Entered(m, k, t) /\ Ordered(t) /\ n \in Nat /\ MAX \in Nat
        /\ Cardinality(B) \in Nat
      BY FS_CardinalityType, PciAssumption DEF Table
  <1>2. k \in Nat /\ PCI_FNS \in Nat
      BY PlaceIs, PciAssumption
  <1>3. CASE ~ Looked(m, k)
    <2>1. C = B /\ u = t
        BY <1>3, BeforeNext
    <2>2. \A f \in Listed(m) : f.at < k + PCI_FNS <=> f.at < (k + 1) + PCI_FNS
        BY <2>1 DEF Before, Listed
    <2>3. Entered(m, k + 1, t)
        BY <1>1, <2>2 DEF Entered
    <2> QED
        BY <1>1, <2>1, <2>3 DEF Table
  <1>4. CASE Looked(m, k)
    <2>1. /\ C = B \cup {a} /\ a \notin B /\ C = {g \in Real(m) : g.at <= a.at}
          /\ a \in Real(m) /\ a.at = k + PCI_FNS
        BY <1>4, BeforeNext, LookedReal
    <2>2. IsFiniteSet(C) /\ Cardinality(C) = Cardinality(B) + 1
        BY <1>1, <2>1, FS_AddElement
    <2>3. a \in Listed(m) <=> Cardinality(C) <= MAX
        BY <2>1 DEF Listed
    <2>4. ASSUME NEW f
          PROVE  f \in Listed(m) /\ f.at < (k + 1) + PCI_FNS <=>
                    (f \in Listed(m) /\ f.at < k + PCI_FNS) \/ (f = a /\ a \in Listed(m))
      <3>1. f \in Listed(m) => f \in Real(m)
          BY DEF Listed
      <3>2. f \in Real(m) => (f.at < (k + 1) + PCI_FNS <=> f.at < k + PCI_FNS \/ f = a)
        <4>1. f \in Real(m) => (f \in C <=> f \in B \/ f = a)
            BY <2>1
        <4> QED
            BY <4>1 DEF Before
      <3>3. a.at < (k + 1) + PCI_FNS
          BY <1>2, <2>1
      <3> QED
          BY <3>1, <3>2, <3>3
    <2> HIDE DEF B, C, a, n, MAX
    <2>5. CASE n < MAX
      <3>1. Cardinality(B) = n /\ Cardinality(C) = n + 1 /\ n + 1 <= MAX /\ a \in Listed(m)
          BY <1>1, <2>2, <2>3, <2>5
      <3>2. /\ u = Append(t, a)
          BY <1>4, <2>5 DEF a, n, MAX
      <3>3. u \in Seq(Real(m)) /\ Len(u) = n + 1 /\ u[n + 1] = a /\ \A j \in 1 .. n : u[j] = t[j]
          BY <1>1, <2>1, <3>2 DEF n
      <3>4. Ordered(u)
        <4> SUFFICES ASSUME NEW i \in 1 .. n + 1, NEW j \in 1 .. n + 1, i < j
                     PROVE  u[i].at < u[j].at
            BY <3>3 DEF Ordered
        <4>1. i \in 1 .. n /\ u[i] = t[i]
            BY <1>1, <3>3
        <4>2. CASE j = n + 1
          <5>1. t[i].at < k + PCI_FNS
              BY <1>1, <4>1 DEF Entered, n
          <5> QED
              BY <2>1, <3>3, <4>1, <4>2, <5>1
        <4>3. CASE j # n + 1
          <5>1. j \in 1 .. n /\ u[j] = t[j]
              BY <1>1, <3>3, <4>3
          <5> QED
              BY <1>1, <4>1, <5>1 DEF Ordered, n
        <4> QED
            BY <4>2, <4>3
      <3>5. Entered(m, k + 1, u)
        <4> SUFFICES ASSUME NEW f
                     PROVE  (\E j \in 1 .. n + 1 : u[j] = f)
                                <=> f \in Listed(m) /\ f.at < (k + 1) + PCI_FNS
            BY <3>3 DEF Entered
        <4>1. (\E j \in 1 .. n + 1 : u[j] = f) <=> (\E j \in 1 .. n : t[j] = f) \/ f = a
            BY <1>1, <3>3
        <4>2. (\E j \in 1 .. n : t[j] = f) <=> f \in Listed(m) /\ f.at < k + PCI_FNS
            BY <1>1 DEF Entered, n
        <4> QED
            BY <2>4, <3>1, <4>1, <4>2
      <3> QED
          BY <1>1, <2>2, <3>1, <3>3, <3>4, <3>5 DEF Table, C, MAX
    <2>6. CASE ~ (n < MAX)
      <3>1. n = MAX /\ ~ (Cardinality(C) <= MAX) /\ a \notin Listed(m)
          BY <1>1, <2>2, <2>3, <2>6
      <3>2. u = t
          BY <2>6 DEF n, MAX
      <3>3. Entered(m, k + 1, t)
          BY <1>1, <2>4, <3>1 DEF Entered
      <3> QED
          BY <1>1, <2>2, <3>1, <3>2, <3>3 DEF Table, C, MAX, n
    <2> QED
        BY <2>5, <2>6
  <1> QED
      BY <1>3, <1>4

-----------------------------------------------------------------------------
(* A set of naturals has a least one.                                      *)
LEMMA LeastIn ==
  ASSUME NEW S \in SUBSET Nat, S # {}
  PROVE  \E x \in S : \A y \in S : x <= y
  <1> DEFINE R == OpToRel(<, Nat)
  <1>1. IsWellFoundedOn(R, Nat)
      BY NatLessThanWellFounded, Zenon
  <1>2. \A x, y \in Nat : x < y => <<x, y>> \in R
      BY DEF OpToRel
  <1> HIDE DEF R
  <1>3. PICK x \in S : \A y \in S : ~ (<<y, x>> \in R)
      BY <1>1, WFMin
  <1>4. \A y \in S : x <= y
    <2> TAKE y \in S
    <2>1. x \in Nat /\ y \in Nat /\ ~ (y < x)
        BY <1>2, <1>3
    <2> QED
        BY <2>1
  <1> QED
      BY <1>4

(* pci_find_class finds the first function of the class in the machine.    *)
LEMMA FindIs ==
  ASSUME machine \in Machines, Table(machine, Places(machine), devices), NEW class
  PROVE  \/ /\ pci_find_class(class) = NoFn
            /\ \A f \in Listed(machine) : f.class # class
         \/ IsFirst(pci_find_class(class), class)
  <1> DEFINE of == {k \in DOMAIN devices : devices[k].class = class}
             x == CHOOSE k \in of : \A j \in of : k <= j
             n == Len(devices)
  <1>1. /\ devices \in Seq(Real(machine)) /\ n \in Nat /\ DOMAIN devices = 1 .. n
        /\ Ordered(devices) /\ Entered(machine, Places(machine), devices)
      BY DEF Table
  <1>2. pci_find_class(class) = IF of = {} THEN NoFn ELSE devices[x]
      BY DEF pci_find_class
  <1>3. \A f : f \in Listed(machine) <=> \E j \in 1 .. n : devices[j] = f
    <2>1. \A f \in Listed(machine) : f.at < Places(machine) + PCI_FNS
      <3> TAKE f \in Listed(machine)
      <3>1. f \in Real(machine) /\ PCI_FNS \in Nat /\ Places(machine) \in Int
          BY PciAssumption DEF Listed, Places
      <3>2. f.at \in PCI_FNS .. Places(machine) + PCI_FNS - 1
          BY <3>1, RealIs
      <3> QED
          BY <3>1, <3>2
    <2> QED
        BY <1>1, <2>1 DEF Entered
  <1>4. CASE of = {}
    <2>1. \A f \in Listed(machine) : f.class # class
        BY <1>1, <1>3, <1>4
    <2> QED
        BY <1>2, <1>4, <2>1
  <1>5. CASE of # {}
    <2>1. of \in SUBSET Nat
        BY <1>1
    <2>2. x \in of /\ \A j \in of : x <= j
      <3> HIDE DEF of
      <3> QED
          BY <1>5, <2>1, LeastIn
    <2>3. x \in 1 .. n /\ devices[x].class = class /\ devices[x] \in Listed(machine)
        BY <1>1, <1>3, <2>2
    <2>4. ASSUME NEW g \in Listed(machine), g.class = class
          PROVE  devices[x].at <= g.at
      <3>1. PICK j \in 1 .. n : devices[j] = g
          BY <1>3
      <3>2. j \in of /\ x <= j
          BY <1>1, <2>2, <2>4, <3>1
      <3>3. devices[x].at \in Int
        <4>1. devices[x] \in Real(machine) /\ PCI_FNS \in Nat /\ Places(machine) \in Int
            BY <1>1, <2>3, PciAssumption DEF Places
        <4> QED
            BY <4>1, RealIs
      <3> HIDE DEF x
      <3>4. CASE x = j
          BY <3>1, <3>3, <3>4
      <3>5. CASE x # j
        <4>1. devices[x].at < devices[j].at
            BY <1>1, <2>3, <3>2, <3>5 DEF Ordered
        <4>2. devices[j].at \in Int
          <5>1. devices[j] \in Real(machine) /\ PCI_FNS \in Nat /\ Places(machine) \in Int
              BY <1>1, <3>1, PciAssumption DEF Places
          <5> QED
              BY <5>1, RealIs
        <4> QED
            BY <3>1, <3>3, <4>1, <4>2
      <3> QED
          BY <3>4, <3>5
    <2> QED
        BY <1>2, <1>5, <2>3, <2>4 DEF IsFirst
  <1> QED
      BY <1>4, <1>5

(* There is one first function of a class.                                 *)
LEMMA FirstOnly ==
  ASSUME machine \in Machines, NEW class, NEW f, NEW g, IsFirst(f, class), IsFirst(g, class)
  PROVE  f = g
  <1>1. f \in Real(machine) /\ g \in Real(machine) /\ f.at <= g.at /\ g.at <= f.at
      BY DEF IsFirst, Listed
  <1>2. PCI_FNS \in Nat /\ Places(machine) \in Int
      BY PciAssumption DEF Places
  <1>3. f.at \in Int /\ g.at \in Int
      BY <1>1, <1>2, RealIs
  <1>4. f.at = g.at
      BY <1>1, <1>3
  <1> QED
      BY <1>1, <1>4, RealIs

(* A driver that takes what it found if it can drive it.                   *)
LEMMA TakesFirst ==
  ASSUME machine \in Machines, Table(machine, Places(machine), devices), NEW class,
         NEW drivable \in SUBSET Listed(machine), NEW b,
         b = IF pci_find_class(class) \in drivable THEN pci_find_class(class) ELSE NoFn
  PROVE  IF \E f \in drivable : IsFirst(f, class) THEN IsFirst(b, class) ELSE b = NoFn
  <1> DEFINE d == pci_find_class(class)
  <1>1. (d = NoFn /\ \A f \in Listed(machine) : f.class # class) \/ IsFirst(d, class)
      BY FindIs
  <1>2. NoFn \notin drivable
    <2>1. \A f \in Listed(machine) : f # NoFn
        BY RealIs DEF Listed
    <2> QED
        BY <2>1
  <1>3. ASSUME NEW f \in drivable, IsFirst(f, class) PROVE d \in drivable /\ IsFirst(d, class)
    <2>1. IsFirst(d, class)
        BY <1>1, <1>3 DEF IsFirst
    <2> QED
        BY <1>3, <2>1, FirstOnly
  <1> HIDE DEF d
  <1>4. b = IF d \in drivable THEN d ELSE NoFn
      BY DEF d
  <1> QED
      BY <1>1, <1>2, <1>3, <1>4, Zenon

(* The invariant of the start of the drivers.                              *)
Found == Real(machine) \cup {NoFn}
PciInv ==
    /\ machine \in Machines /\ place \in 0 .. Places(machine)
    /\ stage \in {"pci", "xhci", "bluetooth", "net", "done"}
    /\ stage # "pci" => place = Places(machine)
    /\ Table(machine, place, devices)
    /\ bound \in [xhci : Found, bluetooth : Found, rtl8139 : Found]
    /\ stage \in {"pci", "xhci"} => bound.xhci = NoFn
    /\ stage # "done" => bound.rtl8139 = NoFn
    /\ DriversBind

(* What pci_find_class returns is a function of the machine or none.       *)
LEMMA FindType ==
  ASSUME machine \in Machines, Table(machine, Places(machine), devices), NEW class
  PROVE  /\ pci_find_class(class) \in Found
         /\ pci_find_class(class) # NoFn => pci_find_class(class) \in Listed(machine)
  <1>1. pci_find_class(class) = NoFn \/ IsFirst(pci_find_class(class), class)
      BY FindIs
  <1> QED
      BY <1>1 DEF IsFirst, Listed, Found

(* Before the network is brought up.                                       *)
LEMMA PciStep ==
  ASSUME PciInv, pci_init \/ xhci_init \/ bluetooth_detect
  PROVE  PciInv'
  <1>1. CASE ProbeNext
    <2>1. /\ stage = "pci" /\ machine' = machine /\ bound' = bound /\ stage' = stage
          /\ place' = place + 1 /\ place \in 0 .. Places(machine) - 1
          /\ place + 1 \in 0 .. Places(machine)
      <3>1. place \in 0 .. Places(machine) /\ place < Places(machine) /\ Places(machine) \in Int
          BY <1>1, PciAssumption DEF PciInv, ProbeNext, Places
      <3> QED
          BY <1>1, <3>1 DEF ProbeNext
    <2>2. devices' = IF Looked(machine, place) /\ Len(devices) < PCI_MAX_DEVICES
                     THEN Append(devices, At(machine, place)) ELSE devices
      <3>1. Len(devices) \in Nat /\ PCI_MAX_DEVICES \in Nat
          BY PciAssumption DEF PciInv, Table
      <3>2. Len(devices) >= PCI_MAX_DEVICES <=> ~ (Len(devices) < PCI_MAX_DEVICES)
          BY <3>1
      <3>3. CASE Probed(machine, SlotAt(place), FnAt(place))
        <4>1. pci_read(machine, SlotAt(place), FnAt(place)) = At(machine, place)
            BY <2>1, <3>3, ReadIs DEF PciInv
        <4> QED
            BY <1>1, <3>2, <3>3, <4>1, Zenon DEF ProbeNext, probe, Looked
      <3>4. CASE ~ Probed(machine, SlotAt(place), FnAt(place))
          BY <1>1, <3>4, Zenon DEF ProbeNext, Looked
      <3> QED
          BY <3>3, <3>4
    <2>3. Table(machine, place + 1, devices')
        BY <2>1, <2>2, TableNext DEF PciInv
    <2>4. DriversBind'
        BY <2>1 DEF DriversBind
    <2> QED
        BY <2>1, <2>3, <2>4 DEF PciInv, Found
  <1>2. CASE ProbeEnd
    <2>1. /\ machine' = machine /\ bound' = bound /\ stage = "pci" /\ stage' = "xhci"
          /\ place' = place /\ place = Places(machine) /\ devices' = devices
        BY <1>2 DEF ProbeEnd
    <2>2. DriversBind'
        BY <2>1 DEF DriversBind
    <2> QED
        BY <2>1, <2>2 DEF PciInv, Found
  <1>3. CASE xhci_init
    <2> DEFINE d == pci_find_class("xhci")
               S == {f \in Listed(machine) : f.bar0 # "none"}
    <2>1. /\ stage = "xhci" /\ stage' = "bluetooth" /\ UNCHANGED <<machine, place, devices>>
          /\ bound' = IF d = NoFn \/ d.bar0 = "none" THEN bound ELSE [bound EXCEPT !.xhci = d]
        BY <1>3 DEF xhci_init
    <2>2. /\ machine \in Machines /\ place = Places(machine)
          /\ Table(machine, Places(machine), devices)
          /\ bound \in [xhci : Found, bluetooth : Found, rtl8139 : Found]
          /\ bound.xhci = NoFn /\ bound.rtl8139 = NoFn
        BY <2>1 DEF PciInv
    <2>3. d \in Found /\ (d # NoFn => d \in Listed(machine)) /\ NoFn \notin Listed(machine)
        BY <2>2, FindType, RealIs DEF Listed
    <2>4. d \in S <=> ~ (d = NoFn \/ d.bar0 = "none")
        BY <2>3
    <2> HIDE DEF d
    <2>5. /\ bound' \in [xhci : Found, bluetooth : Found, rtl8139 : Found]
          /\ bound'.xhci = IF d \in S THEN d ELSE NoFn
          /\ bound'.rtl8139 = NoFn
        BY <2>1, <2>2, <2>3, <2>4
    <2>6. Uses("xhci", "xhci", S)'
      <3>1. IF \E f \in S : IsFirst(f, "xhci") THEN IsFirst(bound'.xhci, "xhci") ELSE bound'.xhci = NoFn
        <4>1. S \in SUBSET Listed(machine)
            OBVIOUS
        <4> HIDE DEF S
        <4> QED
            BY <2>2, <2>5, <4>1, TakesFirst DEF d
      <3> QED
          BY <2>1, <3>1 DEF Uses, IsFirst
    <2> QED
        BY <2>1, <2>2, <2>5, <2>6 DEF PciInv, DriversBind, Found
  <1>4. CASE bluetooth_detect
    <2> DEFINE d == pci_find_class("bluetooth")
    <2>1. /\ stage = "bluetooth" /\ stage' = "net" /\ UNCHANGED <<machine, place, devices>>
          /\ bound' = [bound EXCEPT !.bluetooth = d]
        BY <1>4 DEF bluetooth_detect
    <2>2. /\ machine \in Machines /\ place = Places(machine)
          /\ Table(machine, Places(machine), devices)
          /\ bound \in [xhci : Found, bluetooth : Found, rtl8139 : Found]
          /\ bound.rtl8139 = NoFn
        BY <2>1 DEF PciInv
    <2>3. d \in Found /\ d = IF d \in Listed(machine) THEN d ELSE NoFn
        BY <2>2, FindType
    <2> HIDE DEF d
    <2>4. /\ bound' \in [xhci : Found, bluetooth : Found, rtl8139 : Found]
          /\ bound'.bluetooth = d /\ bound'.xhci = bound.xhci /\ bound'.rtl8139 = NoFn
        BY <2>1, <2>2, <2>3
    <2>5. Uses("bluetooth", "bluetooth", Listed(machine))'
      <3>1. IF \E f \in Listed(machine) : IsFirst(f, "bluetooth") THEN IsFirst(d, "bluetooth")
            ELSE d = NoFn
          BY <2>2, <2>3, TakesFirst DEF d
      <3> QED
          BY <2>1, <2>4, <3>1 DEF Uses, IsFirst
    <2>6. Uses("xhci", "xhci", {f \in Listed(machine) : f.bar0 # "none"})'
      <3>1. Uses("xhci", "xhci", {f \in Listed(machine) : f.bar0 # "none"})
          BY <2>1 DEF PciInv, DriversBind
      <3> QED
          BY <2>1, <2>4, <3>1 DEF Uses, IsFirst
    <2> QED
        BY <2>1, <2>2, <2>4, <2>5, <2>6 DEF PciInv, DriversBind, Found
  <1> QED
      BY <1>1, <1>2, <1>3, <1>4 DEF pci_init

(* rtl8139_init looks at the first Ethernet controller, whether or not     *)
(* there is memory for its ring.                                           *)
LEMMA NetStep ==
  ASSUME PciInv, net_bring_up
  PROVE  PciInv'
  <1> DEFINE d == pci_find_class("ethernet")
             S == {f \in Listed(machine) : f.rtl /\ f.bar0 = "io"}
  <1>1. /\ stage = "net" /\ stage' = "done" /\ UNCHANGED <<machine, place, devices>>
        /\ bound' = IF d # NoFn /\ d.rtl /\ d.bar0 = "io" THEN [bound EXCEPT !.rtl8139 = d] ELSE bound
      BY DEF net_bring_up, rtl8139_init
  <1>2. /\ machine \in Machines /\ place = Places(machine)
        /\ Table(machine, Places(machine), devices)
        /\ bound \in [xhci : Found, bluetooth : Found, rtl8139 : Found]
        /\ bound.rtl8139 = NoFn
      BY <1>1 DEF PciInv
  <1>3. d \in Found /\ (d # NoFn => d \in Listed(machine)) /\ NoFn \notin Listed(machine)
      BY <1>2, FindType, RealIs DEF Listed
  <1>4. d \in S <=> d # NoFn /\ d.rtl /\ d.bar0 = "io"
      BY <1>3, Zenon
  <1> HIDE DEF d
  <1>5. /\ bound' \in [xhci : Found, bluetooth : Found, rtl8139 : Found]
        /\ bound'.rtl8139 = IF d \in S THEN d ELSE NoFn
        /\ bound'.xhci = bound.xhci /\ bound'.bluetooth = bound.bluetooth
    <2> HIDE DEF S
    <2>1. bound' = IF d \in S THEN [bound EXCEPT !.rtl8139 = d] ELSE bound
        BY <1>1, <1>4, Zenon
    <2> QED
        BY <1>2, <1>3, <2>1
  <1>6. Uses("rtl8139", "ethernet", S)'
    <2>1. IF \E f \in S : IsFirst(f, "ethernet") THEN IsFirst(bound'.rtl8139, "ethernet")
          ELSE bound'.rtl8139 = NoFn
      <3>1. S \in SUBSET Listed(machine)
          BY Zenon
      <3> HIDE DEF S
      <3> QED
          BY <1>2, <1>5, <3>1, TakesFirst DEF d
    <2> QED
        BY <1>1, <2>1 DEF Uses, IsFirst
  <1>7. Uses("xhci", "xhci", {f \in Listed(machine) : f.bar0 # "none"})'
    <2>1. Uses("xhci", "xhci", {f \in Listed(machine) : f.bar0 # "none"})
        BY <1>1 DEF PciInv, DriversBind
    <2> QED
        BY <1>1, <1>5, <2>1 DEF Uses, IsFirst
  <1>8. Uses("bluetooth", "bluetooth", Listed(machine))'
    <2>1. Uses("bluetooth", "bluetooth", Listed(machine))
        BY <1>1 DEF PciInv, DriversBind
    <2> QED
        BY <1>1, <1>5, <2>1 DEF Uses, IsFirst
  <1>9. DriversBind'
      BY <1>1, <1>6, <1>7, <1>8 DEF DriversBind
  <1> QED
      BY <1>1, <1>2, <1>5, <1>9 DEF PciInv, Found

(* Steps of card and driver leave the table alone.                         *)
LEMMA PciSame ==
  ASSUME PciInv, UNCHANGED pciVars
  PROVE  PciInv'
  <1>1. /\ machine' = machine /\ place' = place /\ devices' = devices /\ bound' = bound
        /\ stage' = stage
      BY DEF pciVars
  <1>2. DriversBind'
      BY <1>1 DEF PciInv, DriversBind, Uses, IsFirst
  <1> QED
      BY <1>1, <1>2 DEF PciInv, Found

(* The loops begin with an empty table.                                    *)
LEMMA PciInvInit == Init => PciInv
  <1> SUFFICES ASSUME Init PROVE PciInv
      OBVIOUS
  <1>1. /\ machine \in Machines /\ place = 0 /\ devices = <<>> /\ stage = "pci"
        /\ bound = [xhci |-> NoFn, bluetooth |-> NoFn, rtl8139 |-> NoFn]
      BY DEF Init, PciInit
  <1>2. 0 \in 0 .. Places(machine)
    <2>1. Len(machine) \in Nat /\ PCI_FNS \in Nat
        BY <1>1, PciAssumption
    <2>2. Len(machine) * PCI_FNS \in Nat
        BY <2>1
    <2> QED
        BY <2>2 DEF Places
  <1>3. Table(machine, place, devices)
      BY <1>1, TableInit
  <1>4. DriversBind
      BY <1>1 DEF DriversBind
  <1> QED
      BY <1>1, <1>2, <1>3, <1>4 DEF PciInv, Found

(* Every step keeps the invariant.                                         *)
LEMMA PciInvNext == PciInv /\ [Next]_vars => PciInv'
  <1> SUFFICES ASSUME PciInv, [Next]_vars PROVE PciInv'
      OBVIOUS
  <1>1. CASE pci_init \/ xhci_init \/ bluetooth_detect
      BY <1>1, PciStep
  <1>2. CASE net_bring_up
      BY <1>2, NetStep
  <1>3. CASE Poll \/ Transmit \/ (\E f \in Frames : Arrive(f)) \/ UNCHANGED vars
    <2>1. UNCHANGED pciVars
        BY <1>3, Zenon DEF Poll, ReadIsr, AckIsr, DrainEnd, DrainBreak, Callback, Advance, Transmit,
                           Arrive, vars
    <2> QED
        BY <2>1, PciSame
  <1> QED
      BY <1>1, <1>2, <1>3 DEF Next

(* Whatever functions a machine has, each driver uses the first one of its *)
(* class that has a place in the table of pci.c, if it can drive it.       *)
THEOREM PciDrivers == Spec => []DriversBind
  <1>1. PciInv => DriversBind
      BY DEF PciInv
  <1> QED
      BY <1>1, PciInvInit, PciInvNext, PTL DEF Spec

-----------------------------------------------------------------------------
(* The transmit buffers.                                                   *)

(* The buffer whose turn is i after that of d.                             *)
Turn(d, i) == (d + i) % TX_BUFS

(* The turns go round once.                                                *)
LEMMA TurnIs ==
  ASSUME NEW d \in Slots, NEW i \in 0 .. TX_BUFS
  PROVE  /\ Turn(d, i) = (IF d + i < TX_BUFS THEN d + i ELSE (d + i) - TX_BUFS)
         /\ Turn(d, i) \in Slots /\ TX_BUFS \in Nat \ {0}
  <1> DEFINE T == TX_BUFS
  <1>1. T \in Nat \ {0} /\ d \in 0 .. T - 1
      BY NicAssumption DEF Slots
  <1> HIDE DEF T
  <1>2. CASE d + i < T
    <2>1. d + i \in 0 .. T - 1
        BY <1>1, <1>2
    <2>2. (d + i) % T = d + i
        BY <1>1, <2>1, ModSmall
    <2> QED
        BY <1>1, <1>2, <2>1, <2>2 DEF Turn, Slots, T
  <1>3. CASE ~ (d + i < T)
    <2> DEFINE r == (d + i) - T
    <2>1. i \in 0 .. T
        BY DEF T
    <2>2. r \in 0 .. T - 1 /\ d + i \in Int /\ r \in Int /\ d + i = r + 1 * T
        BY <1>1, <1>3, <2>1
    <2>3. Same(d + i, r, T)
        BY <2>2 DEF Same
    <2>4. (d + i) % T = r
        BY <1>1, <2>2, <2>3, SameMod
    <2> QED
        BY <1>1, <1>3, <2>2, <2>4 DEF Turn, Slots, T
  <1> QED
      BY <1>2, <1>3

(* Turns one after the other, and no two alike.                            *)
LEMMA Turns ==
  ASSUME NEW d \in Slots
  PROVE  /\ TX_BUFS \in Nat \ {0}
         /\ \A i \in 0 .. TX_BUFS : Turn(d, i) \in Slots
         /\ Turn(d, 0) = d /\ Turn(d, TX_BUFS) = d
         /\ \A i \in 0 .. TX_BUFS - 1 :
               /\ Turn(Turn(d, i), 1) = Turn(d, i + 1)
               /\ Turn(Turn(d, 1), i) = Turn(d, i + 1)
               /\ \A j \in 0 .. TX_BUFS - 1 : Turn(d, i) = Turn(d, j) => i = j
  <1> DEFINE T == TX_BUFS
  <1>1. T \in Nat \ {0} /\ d \in 0 .. T - 1 /\ Slots = 0 .. T - 1
      BY NicAssumption DEF Slots
  <1>2. \A e \in 0 .. T - 1, i \in 0 .. T :
            Turn(e, i) = (IF e + i < T THEN e + i ELSE (e + i) - T) /\ Turn(e, i) \in 0 .. T - 1
      BY <1>1, TurnIs
  <1>3. \A i \in 0 .. T - 1 : i \in 0 .. T /\ i + 1 \in 0 .. T /\ 0 \in 0 .. T /\ T \in 0 .. T /\ 1 \in 0 .. T
      BY <1>1
  <1> HIDE DEF T
  <1>4. Turn(d, 0) = d /\ Turn(d, T) = d
    <2>1. 0 \in 0 .. T /\ T \in 0 .. T
        BY <1>1
    <2>2. /\ Turn(d, 0) = (IF d + 0 < T THEN d + 0 ELSE (d + 0) - T)
          /\ Turn(d, T) = (IF d + T < T THEN d + T ELSE (d + T) - T)
        BY ONLY <1>1, <1>2, <2>1
    <2> QED
        BY ONLY <1>1, <2>2
  <1>5. ASSUME NEW i \in 0 .. T - 1
        PROVE  Turn(Turn(d, i), 1) = Turn(d, i + 1) /\ Turn(Turn(d, 1), i) = Turn(d, i + 1)
    <2>1. i \in 0 .. T /\ i + 1 \in 0 .. T /\ 1 \in 0 .. T
        BY <1>3
    <2> DEFINE a == Turn(d, i)
               b == Turn(d, 1)
    <2>2. a \in 0 .. T - 1 /\ b \in 0 .. T - 1
        BY <1>1, <1>2, <2>1
    <2>3. a = (IF d + i < T THEN d + i ELSE (d + i) - T) /\ b = (IF d + 1 < T THEN d + 1 ELSE (d + 1) - T)
        BY <1>1, <1>2, <2>1
    <2> HIDE DEF a, b
    <2>4. Turn(a, 1) = (IF a + 1 < T THEN a + 1 ELSE (a + 1) - T)
        BY <1>2, <2>1, <2>2
    <2>5. Turn(b, i) = (IF b + i < T THEN b + i ELSE (b + i) - T)
        BY <1>2, <2>1, <2>2
    <2>6. Turn(d, i + 1) = (IF d + (i + 1) < T THEN d + (i + 1) ELSE (d + (i + 1)) - T)
        BY <1>1, <1>2, <2>1
    <2>7. Turn(a, 1) = Turn(d, i + 1) /\ Turn(b, i) = Turn(d, i + 1)
        BY ONLY <1>1, <2>3, <2>4, <2>5, <2>6, i \in 0 .. T - 1
    <2> QED
        BY <2>7 DEF a, b
  <1>6. ASSUME NEW i \in 0 .. T - 1, NEW j \in 0 .. T - 1, Turn(d, i) = Turn(d, j) PROVE i = j
    <2>1. i \in 0 .. T /\ j \in 0 .. T
        BY <1>3
    <2>2. /\ Turn(d, i) = (IF d + i < T THEN d + i ELSE (d + i) - T)
          /\ Turn(d, j) = (IF d + j < T THEN d + j ELSE (d + j) - T)
        BY <1>1, <1>2, <2>1
    <2> QED
      <3>1. CASE d + i < T /\ d + j < T
        <4>1. d + i = d + j
            BY <1>6, <2>2, <3>1
        <4> QED
            BY ONLY <1>1, <4>1, i \in 0 .. T - 1, j \in 0 .. T - 1
      <3>2. CASE d + i < T /\ ~ (d + j < T)
        <4>1. d + i = (d + j) - T
            BY <1>6, <2>2, <3>2
        <4> QED
            BY ONLY <1>1, <4>1, i \in 0 .. T - 1, j \in 0 .. T - 1
      <3>3. CASE ~ (d + i < T) /\ d + j < T
        <4>1. (d + i) - T = d + j
            BY <1>6, <2>2, <3>3
        <4> QED
            BY ONLY <1>1, <4>1, i \in 0 .. T - 1, j \in 0 .. T - 1
      <3>4. CASE ~ (d + i < T) /\ ~ (d + j < T)
        <4>1. (d + i) - T = (d + j) - T
            BY <1>6, <2>2, <3>4
        <4> QED
            BY ONLY <1>1, <4>1, i \in 0 .. T - 1, j \in 0 .. T - 1
      <3> QED
          BY <3>1, <3>2, <3>3, <3>4
  <1> QED
      BY <1>1, <1>2, <1>4, <1>5, <1>6 DEF T

(* What is sent: answers and the announcement.                             *)
Packets == {net_process_packet(f) : f \in Frames} \cup {net_arp_announce, NoFrame}

(* p frames wait in the buffers from d on, and the next one goes to c.     *)
Waiting(p, d, c, b, x, s, w) ==
    /\ p \in 0 .. TX_BUFS /\ d \in Slots /\ c = Turn(d, p)
    /\ b \in [Slots -> BOOLEAN] /\ x \in [Slots -> Packets]
    /\ s \in Seq(Packets) /\ w \in Seq(Packets) /\ Len(s) = Len(w) + p
    /\ \A k \in Slots : b[k] <=> \E i \in 0 .. p - 1 : k = Turn(d, i)
    /\ \A j \in 1 .. Len(w) : w[j] = s[j]
    /\ \A i \in 0 .. p - 1 : x[Page(Turn(d, i))] = s[Len(w) + 1 + i]

SendInv ==
    /\ tx_own \in 0 .. TX_BUFS
    /\ ~ overrun => \E p : Waiting(p, txd, tx_cur, busy, txbuf, sent, wire)

(* A buffer is in a page of the buffers.                                   *)
LEMMA PageType ==
  ASSUME tx_own \in 0 .. TX_BUFS, NEW k \in Slots
  PROVE  Page(k) \in Slots
  <1>1. TX_BUFS \in Nat
      BY NicAssumption
  <1> QED
      BY <1>1 DEF Page, Slots

(* One frame more waits, in a page that no waiting one is in.              *)
LEMMA PutWaiting ==
  ASSUME tx_own \in 0 .. TX_BUFS,
         NEW p, NEW d, NEW c, NEW b, NEW x, NEW s, NEW w, Waiting(p, d, c, b, x, s, w),
         NEW f \in Packets, \A k \in Slots : ~ (b[k] /\ Page(k) = Page(c))
  PROVE  Waiting(p + 1, d, Turn(c, 1), [b EXCEPT ![c] = TRUE], [x EXCEPT ![Page(c)] = f],
                 Append(s, f), w)
  <1>1. /\ p \in 0 .. TX_BUFS /\ d \in Slots /\ c = Turn(d, p)
        /\ b \in [Slots -> BOOLEAN] /\ x \in [Slots -> Packets]
        /\ s \in Seq(Packets) /\ w \in Seq(Packets) /\ Len(s) = Len(w) + p
        /\ \A k \in Slots : b[k] <=> \E i \in 0 .. p - 1 : k = Turn(d, i)
        /\ \A j \in 1 .. Len(w) : w[j] = s[j]
        /\ \A i \in 0 .. p - 1 : x[Page(Turn(d, i))] = s[Len(w) + 1 + i]
      BY DEF Waiting
  <1> DEFINE T == TX_BUFS
             b2 == [b EXCEPT ![c] = TRUE]
             x2 == [x EXCEPT ![Page(c)] = f]
             s2 == Append(s, f)
  <1>2. /\ T \in Nat \ {0} /\ \A i \in 0 .. T : Turn(d, i) \in Slots
        /\ Turn(d, 0) = d /\ Turn(d, T) = d
        /\ \A i \in 0 .. T - 1 : Turn(Turn(d, i), 1) = Turn(d, i + 1)
      BY <1>1, Turns
  <1> HIDE DEF T
  <1>3. p \in 0 .. T - 1
    <2> SUFFICES ASSUME p = T PROVE FALSE
        BY <1>1, <1>2 DEF T
    <2>1. 0 \in 0 .. p - 1 /\ c = Turn(d, 0)
        BY <1>1, <1>2
    <2>2. c \in Slots
        BY <1>1, <1>2
    <2>3. b[c]
        BY <1>1, <2>1, <2>2
    <2> QED
        BY <2>2, <2>3
  <1>4. c \in Slots /\ Page(c) \in Slots /\ Turn(c, 1) = Turn(d, p + 1) /\ p + 1 \in 0 .. T
    <2>1. c \in Slots
        BY <1>1, <1>2 DEF T
    <2>2. Page(c) \in Slots
        BY <2>1, PageType
    <2> QED
        BY <1>1, <1>2, <1>3, <2>1, <2>2
  <1>5. b2 \in [Slots -> BOOLEAN] /\ x2 \in [Slots -> Packets]
      BY <1>1, <1>4
  <1>6. /\ s2 \in Seq(Packets) /\ Len(s2) = Len(w) + (p + 1) /\ Len(w) \in Nat /\ p \in Nat
        /\ s2[Len(w) + 1 + p] = f
        /\ \A j \in 1 .. Len(w) + p : s2[j] = s[j]
    <2> DEFINE P == Packets
    <2>1. s \in Seq(P) /\ w \in Seq(P) /\ f \in P /\ Len(s) = Len(w) + p
        BY <1>1
    <2> HIDE DEF P
    <2>2. /\ s2 \in Seq(P) /\ Len(s2) = Len(s) + 1 /\ Len(w) \in Nat /\ s2[Len(s) + 1] = f
          /\ \A j \in 1 .. Len(s) : s2[j] = s[j]
        BY ONLY <2>1
    <2>3. p \in Nat /\ Len(s) + 1 = Len(w) + (p + 1) /\ Len(s) + 1 = Len(w) + 1 + p
        BY ONLY <1>2, <1>3, <2>1, <2>2
    <2> HIDE DEF s2
    <2> QED
        BY ONLY <2>1, <2>2, <2>3 DEF P
  <1>7. ASSUME NEW k \in Slots PROVE b2[k] <=> \E i \in 0 .. (p + 1) - 1 : k = Turn(d, i)
    <2>1. b2[k] <=> (k = c \/ b[k])
        BY <1>1, <1>4
    <2>2. \A i : i \in 0 .. (p + 1) - 1 <=> (i \in 0 .. p - 1 \/ i = p)
        BY <1>6
    <2> HIDE DEF b2
    <2> QED
        BY <1>1, <2>1, <2>2
  <1>8. ASSUME NEW i \in 0 .. (p + 1) - 1 PROVE x2[Page(Turn(d, i))] = s2[Len(w) + 1 + i]
    <2>1. CASE i = p
        BY <1>1, <1>4, <1>6, <2>1
    <2>2. CASE i # p
      <3>1. i \in 0 .. p - 1 /\ i \in 0 .. T /\ Len(w) + 1 + i \in 1 .. Len(w) + p
          BY <1>3, <1>2, <1>6, <2>2
      <3>2. Turn(d, i) \in Slots /\ b[Turn(d, i)]
          BY <1>1, <1>2, <3>1
      <3>3. Page(Turn(d, i)) # Page(c) /\ Page(Turn(d, i)) \in Slots
          BY <3>2, PageType
      <3>4. x2[Page(Turn(d, i))] = x[Page(Turn(d, i))]
        <4> DEFINE q == Page(Turn(d, i))
                   r == Page(c)
        <4>1. q # r /\ q \in Slots /\ r \in Slots
            BY <1>4, <3>3
        <4> HIDE DEF q, r
        <4>2. [x EXCEPT ![r] = f][q] = x[q]
            BY <1>1, <4>1
        <4> QED
            BY <4>2 DEF q, r
      <3> HIDE DEF x2, s2
      <3> QED
          BY <1>1, <1>6, <3>1, <3>4
    <2> QED
        BY <2>1, <2>2
  <1>9. \A j \in 1 .. Len(w) : w[j] = s2[j]
    <2>1. \A j \in 1 .. Len(w) : j \in 1 .. Len(w) + p
        BY <1>6
    <2> HIDE DEF s2
    <2> QED
        BY <1>1, <1>6, <2>1
  <1> HIDE DEF b2, x2, s2
  <1>10. Waiting(p + 1, d, Turn(c, 1), b2, x2, s2, w)
      BY <1>1, <1>4, <1>5, <1>6, <1>7, <1>8, <1>9 DEF Waiting, T
  <1> QED
      BY <1>10 DEF b2, x2, s2

(* The card sends what has waited longest.                                 *)
LEMMA TakeWaiting ==
  ASSUME NEW p, NEW d, NEW c, NEW b, NEW x, NEW s, NEW w, Waiting(p, d, c, b, x, s, w),
         tx_own \in 0 .. TX_BUFS, b[d]
  PROVE  Waiting(p - 1, Turn(d, 1), c, [b EXCEPT ![d] = FALSE], x, s, Append(w, x[Page(d)]))
  <1>1. /\ p \in 0 .. TX_BUFS /\ d \in Slots /\ c = Turn(d, p)
        /\ b \in [Slots -> BOOLEAN] /\ x \in [Slots -> Packets]
        /\ s \in Seq(Packets) /\ w \in Seq(Packets) /\ Len(s) = Len(w) + p
        /\ \A k \in Slots : b[k] <=> \E i \in 0 .. p - 1 : k = Turn(d, i)
        /\ \A j \in 1 .. Len(w) : w[j] = s[j]
        /\ \A i \in 0 .. p - 1 : x[Page(Turn(d, i))] = s[Len(w) + 1 + i]
      BY DEF Waiting
  <1> DEFINE T == TX_BUFS
             e == Turn(d, 1)
             b2 == [b EXCEPT ![d] = FALSE]
             w2 == Append(w, x[Page(d)])
  <1>2. /\ T \in Nat \ {0} /\ \A i \in 0 .. T : Turn(d, i) \in Slots
        /\ Turn(d, 0) = d
        /\ \A i \in 0 .. T - 1 :
              /\ Turn(e, i) = Turn(d, i + 1)
              /\ \A j \in 0 .. T - 1 : Turn(d, i) = Turn(d, j) => i = j
      BY <1>1, Turns
  <1> HIDE DEF T
  <1>3. p \in 1 .. T
    <2>1. \E i \in 0 .. p - 1 : d = Turn(d, i)
        BY <1>1
    <2>2. p # 0
        BY <2>1
    <2> QED
        BY <1>1, <1>2, <2>2 DEF T
  <1>4. p - 1 \in 0 .. T - 1 /\ p - 1 \in 0 .. T /\ (p - 1) + 1 = p /\ e \in Slots /\ Turn(e, p - 1) = c
    <2>1. p - 1 \in 0 .. T - 1 /\ p - 1 \in 0 .. T /\ (p - 1) + 1 = p /\ 1 \in 0 .. T
        BY <1>2, <1>3
    <2> QED
        BY <1>1, <1>2, <2>1
  <1>5. Page(d) \in Slots /\ x[Page(d)] = s[Len(w) + 1]
    <2>1. 0 \in 0 .. p - 1 /\ Len(w) + 1 + 0 = Len(w) + 1
        BY <1>1, <1>3
    <2>2. x[Page(Turn(d, 0))] = s[Len(w) + 1 + 0]
        BY <1>1, <2>1
    <2> QED
        BY <1>1, <1>2, <2>1, <2>2, PageType
  <1>6. b2 \in [Slots -> BOOLEAN]
      BY <1>1
  <1>7. /\ w2 \in Seq(Packets) /\ Len(w2) = Len(w) + 1 /\ Len(w) \in Nat /\ p \in Nat
        /\ w2[Len(w) + 1] = x[Page(d)] /\ \A j \in 1 .. Len(w) : w2[j] = w[j]
    <2>1. x[Page(d)] \in Packets
        BY <1>1, <1>5
    <2> QED
        BY <1>1, <1>3, <2>1
  <1> HIDE DEF w2
  <1>8. Len(s) = Len(w2) + (p - 1)
      BY <1>1, <1>7
  <1>9. \A j \in 1 .. Len(w2) : w2[j] = s[j]
    <2>1. \A j \in 1 .. Len(w2) : j \in 1 .. Len(w) \/ j = Len(w) + 1
        BY <1>7
    <2> QED
        BY <1>1, <1>5, <1>7, <2>1
  <1>10. \A i \in 0 .. (p - 1) - 1 : i \in 0 .. T - 1 /\ i + 1 \in 0 .. p - 1 /\ i + 1 \in 0 .. T - 1
                                    /\ Len(w2) + 1 + i = Len(w) + 1 + (i + 1) /\ Turn(e, i) = Turn(d, i + 1)
    <2>1. ASSUME NEW i \in 0 .. (p - 1) - 1
          PROVE  i \in 0 .. T - 1 /\ i + 1 \in 0 .. p - 1 /\ i + 1 \in 0 .. T - 1
                 /\ Len(w2) + 1 + i = Len(w) + 1 + (i + 1)
        BY <1>2, <1>3, <1>7
    <2> QED
        BY <1>2, <2>1
  <1>11. ASSUME NEW k \in Slots PROVE b2[k] <=> \E i \in 0 .. (p - 1) - 1 : k = Turn(e, i)
    <2>1. b2[k] <=> (k # d /\ b[k])
        BY <1>1
    <2> HIDE DEF b2, e
    <2>2. ASSUME k # d, b[k] PROVE \E i \in 0 .. (p - 1) - 1 : k = Turn(e, i)
      <3>1. PICK i \in 0 .. p - 1 : k = Turn(d, i)
          BY <1>1, <2>2
      <3>2. i # 0
          BY <1>2, <2>2, <3>1
      <3>3. i - 1 \in 0 .. (p - 1) - 1 /\ (i - 1) + 1 = i
          BY <1>3, <3>2
      <3> QED
          BY <1>10, <3>1, <3>3
    <2>3. ASSUME NEW i \in 0 .. (p - 1) - 1, k = Turn(e, i) PROVE k # d /\ b[k]
      <3>1. k = Turn(d, i + 1) /\ i + 1 \in 0 .. p - 1 /\ i + 1 \in 0 .. T - 1 /\ 0 \in 0 .. T - 1 /\ i + 1 # 0
          BY <1>2, <1>10, <2>3
      <3> QED
          BY <1>1, <1>2, <3>1
    <2> QED
        BY <2>1, <2>2, <2>3
  <1>12. \A i \in 0 .. (p - 1) - 1 : x[Page(Turn(e, i))] = s[Len(w2) + 1 + i]
      BY <1>1, <1>10
  <1> HIDE DEF b2, e
  <1>13. Waiting(p - 1, e, c, b2, x, s, w2)
      BY <1>1, <1>4, <1>6, <1>7, <1>8, <1>9, <1>11, <1>12 DEF Waiting, T
  <1> QED
      BY <1>13 DEF b2, e, w2

(* Steps that send nothing.                                                *)
LEMMA SendSame ==
  ASSUME SendInv, UNCHANGED <<tx_own, sendVars, txd, wire>>
  PROVE  SendInv'
  <1>1. /\ tx_cur' = tx_cur /\ txbuf' = txbuf /\ busy' = busy /\ sent' = sent /\ overrun' = overrun
        /\ tx_own' = tx_own /\ txd' = txd /\ wire' = wire
      BY DEF sendVars
  <1>2. ASSUME ~ overrun' PROVE \E p : Waiting(p, txd, tx_cur, busy, txbuf, sent, wire)'
    <2>1. PICK p : Waiting(p, txd, tx_cur, busy, txbuf, sent, wire)
        BY <1>1, <1>2 DEF SendInv
    <2>2. Waiting(p, txd', tx_cur', busy', txbuf', sent', wire')
        BY <1>1, <2>1
    <2>3. Waiting(p, txd, tx_cur, busy, txbuf, sent, wire)'
        BY <1>1, <2>2 DEF Waiting, Page
    <2> QED
        BY <2>3
  <1> QED
      BY <1>1, <1>2 DEF SendInv

(* rtl8139_send.                                                           *)
LEMMA SendStep ==
  ASSUME SendInv, NEW f \in Packets, rtl8139_send(f), UNCHANGED <<tx_own, txd, wire>>
  PROVE  SendInv'
  <1>1. CASE f.len > TX_MAX
    <2>1. UNCHANGED sendVars
        BY <1>1 DEF rtl8139_send
    <2> QED
        BY <2>1, SendSame
  <1>2. CASE ~ (f.len > TX_MAX)
    <2>1. /\ txbuf' = [txbuf EXCEPT ![Page(tx_cur)] = f] /\ busy' = [busy EXCEPT ![tx_cur] = TRUE]
          /\ tx_cur' = Turn(tx_cur, 1) /\ sent' = Append(sent, f)
          /\ overrun' = (overrun \/ \E k \in Slots : busy[k] /\ Page(k) = Page(tx_cur))
        BY <1>2 DEF rtl8139_send, NextBuffer, Turn
    <2>2. tx_own' \in 0 .. TX_BUFS
        BY DEF SendInv
    <2>3. ASSUME ~ overrun' PROVE \E p : Waiting(p, txd, tx_cur, busy, txbuf, sent, wire)'
      <3>1. ~ overrun /\ \A k \in Slots : ~ (busy[k] /\ Page(k) = Page(tx_cur))
          BY <2>1, <2>3, Zenon
      <3>2. PICK p : Waiting(p, txd, tx_cur, busy, txbuf, sent, wire)
          BY <3>1 DEF SendInv
      <3>3. Waiting(p + 1, txd, tx_cur', busy', txbuf', sent', wire)
          BY <2>1, <3>1, <3>2, PutWaiting DEF SendInv
      <3>4. Waiting(p + 1, txd, tx_cur, busy, txbuf, sent, wire)'
          BY <3>3 DEF Waiting, Page
      <3> QED
          BY <3>4
    <2> QED
        BY <2>2, <2>3 DEF SendInv
  <1> QED
      BY <1>1, <1>2

(* At first nothing waits.                                                 *)
LEMMA SendInvInit == Init => SendInv
  <1> SUFFICES ASSUME Init PROVE SendInv
      OBVIOUS
  <1>1. /\ tx_own \in 0 .. TX_BUFS /\ tx_cur = 0 /\ txbuf = [k \in Slots |-> NoFrame]
        /\ busy = [k \in Slots |-> FALSE] /\ txd = 0 /\ sent = <<>> /\ wire = <<>>
      BY DEF Init
  <1>2. 0 \in Slots /\ 0 \in 0 .. TX_BUFS /\ TX_BUFS \in Nat
      BY NicAssumption DEF Slots
  <1>3. Turn(0, 0) = 0
      BY <1>2, Turns
  <1>4. NoFrame \in Packets
      BY DEF Packets
  <1> HIDE DEF Packets
  <1>5. Waiting(0, txd, tx_cur, busy, txbuf, sent, wire)
    <2>1. \A i : i \notin 0 .. 0 - 1
        OBVIOUS
    <2>2. txbuf \in [Slots -> Packets] /\ busy \in [Slots -> BOOLEAN] /\ \A k \in Slots : ~ busy[k]
        BY <1>1, <1>4
    <2>3. <<>> \in Seq(Packets) /\ Len(<<>>) = 0 /\ 0 = 0 + 0 /\ \A j : j \notin 1 .. 0
        OBVIOUS
    <2> QED
        BY <1>1, <1>2, <1>3, <2>1, <2>2, <2>3 DEF Waiting
  <1> QED
      BY <1>1, <1>5 DEF SendInv

(* The frames in the ring are frames.                                      *)
LEMMA HeadType ==
  ASSUME NicInv, ring # <<>>
  PROVE  Head(ring).frame \in Frames
  <1>1. ring \in Seq(Records)
      BY DEF NicInv, RingInv
  <1>2. Head(ring) \in Records
      BY <1>1
  <1> QED
      BY <1>2 DEF Records

(* Every step keeps the invariant.                                         *)
LEMMA SendInvNext == NicInv /\ SendInv /\ [Next]_vars => SendInv'
  <1> SUFFICES ASSUME NicInv, SendInv, [Next]_vars PROVE SendInv'
      OBVIOUS
  <1>1. CASE net_bring_up
    <2>1. UNCHANGED <<tx_own, txd, wire>>
        BY <1>1 DEF net_bring_up
    <2>2. CASE present' = "present"
      <3>1. rtl8139_send(net_arp_announce) /\ net_arp_announce \in Packets
          BY <1>1, <2>2 DEF net_bring_up, Packets
      <3> QED
          BY <2>1, <3>1, SendStep
    <2>3. CASE present' # "present"
        BY <1>1, <2>1, <2>3, SendSame DEF net_bring_up
    <2> QED
        BY <2>2, <2>3
  <1>2. CASE Callback
    <2> DEFINE f == Head(ring).frame
    <2>1. UNCHANGED <<tx_own, txd, wire>> /\ rtl_rx(f) /\ ring # <<>>
        BY <1>2 DEF Callback, AtFrame
    <2>2. f \in Frames
        BY <2>1, HeadType
    <2> HIDE DEF f
    <2>3. CASE net_process_packet(f) = NoFrame
        BY <2>1, <2>3, SendSame DEF rtl_rx
    <2>4. CASE net_process_packet(f) # NoFrame
      <3>1. rtl8139_send(net_process_packet(f)) /\ net_process_packet(f) \in Packets
          BY <2>1, <2>2, <2>4 DEF rtl_rx, Packets
      <3> QED
          BY <2>1, <3>1, SendStep
    <2> QED
        BY <2>3, <2>4
  <1>3. CASE Transmit
    <2>1. /\ busy[txd] /\ wire' = Append(wire, txbuf[Page(txd)]) /\ busy' = [busy EXCEPT ![txd] = FALSE]
          /\ txd' = Turn(txd, 1) /\ tx_own' = tx_own /\ tx_cur' = tx_cur /\ txbuf' = txbuf
          /\ sent' = sent /\ overrun' = overrun
        BY <1>3 DEF Transmit, Turn
    <2>2. tx_own' \in 0 .. TX_BUFS
        BY <2>1 DEF SendInv
    <2>3. ASSUME ~ overrun' PROVE \E p : Waiting(p, txd, tx_cur, busy, txbuf, sent, wire)'
      <3>1. PICK p : Waiting(p, txd, tx_cur, busy, txbuf, sent, wire)
          BY <2>1, <2>3 DEF SendInv
      <3>2. Waiting(p - 1, txd', tx_cur, busy', txbuf, sent, wire')
          BY <2>1, <3>1, TakeWaiting DEF SendInv
      <3>3. Waiting(p - 1, txd, tx_cur, busy, txbuf, sent, wire)'
          BY <2>1, <3>2 DEF Waiting, Page
      <3> QED
          BY <3>3
    <2> QED
        BY <2>2, <2>3 DEF SendInv
  <1>4. CASE \/ (pci_init \/ xhci_init \/ bluetooth_detect) /\ UNCHANGED nicVars
             \/ ReadIsr \/ AckIsr \/ DrainEnd \/ DrainBreak \/ Advance
             \/ (\E f \in Frames : Arrive(f))
             \/ UNCHANGED vars
    <2>1. UNCHANGED txVars
        BY <1>4, Zenon DEF ReadIsr, AckIsr, DrainEnd, DrainBreak, Advance, Arrive, vars, nicVars
    <2> QED
        BY <2>1, SendSame DEF txVars
  <1> QED
      BY <1>1, <1>2, <1>3, <1>4 DEF Next, Poll

(* Frames leave the card in the order in which rtl8139_send was called,    *)
(* each once and unharmed, for any number of buffers and of missing pages, *)
(* until a call writes over a frame that waits.                            *)
THEOREM NicSends == Spec => []SentInOrder
  <1>1. SendInv => SentInOrder
    <2> SUFFICES ASSUME SendInv, ~ overrun
                 PROVE  /\ Len(wire) <= Len(sent)
                        /\ \A j \in 1 .. Len(wire) : wire[j] = sent[j]
                        /\ \A j \in Len(wire) + 1 .. Len(sent) :
                              LET k == (txd + (j - Len(wire)) - 1) % TX_BUFS
                              IN  busy[k] /\ txbuf[Page(k)] = sent[j]
        BY DEF SentInOrder
    <2>1. PICK p : Waiting(p, txd, tx_cur, busy, txbuf, sent, wire)
        BY DEF SendInv
    <2>2. /\ p \in 0 .. TX_BUFS /\ txd \in Slots
          /\ sent \in Seq(Packets) /\ wire \in Seq(Packets) /\ Len(sent) = Len(wire) + p
          /\ \A k \in Slots : busy[k] <=> \E i \in 0 .. p - 1 : k = Turn(txd, i)
          /\ \A j \in 1 .. Len(wire) : wire[j] = sent[j]
          /\ \A i \in 0 .. p - 1 : txbuf[Page(Turn(txd, i))] = sent[Len(wire) + 1 + i]
        BY <2>1 DEF Waiting
    <2>3. Len(wire) \in Nat /\ p \in Nat /\ txd \in Nat /\ TX_BUFS \in Nat
        BY <2>2, NicAssumption DEF Slots
    <2>4. ASSUME NEW j \in Len(wire) + 1 .. Len(sent),
                 NEW k, k = (txd + (j - Len(wire)) - 1) % TX_BUFS
          PROVE  busy[k] /\ txbuf[Page(k)] = sent[j]
      <3> DEFINE i == (j - Len(wire)) - 1
      <3>1. /\ i \in 0 .. p - 1 /\ i \in 0 .. TX_BUFS /\ Len(wire) + 1 + i = j
            /\ txd + (j - Len(wire)) - 1 = txd + i
          BY <2>2, <2>3
      <3> HIDE DEF i
      <3>2. k = Turn(txd, i)
          BY <2>4, <3>1 DEF Turn
      <3>3. k \in Slots
          BY <2>2, <3>1, <3>2, Turns
      <3> QED
          BY <2>2, <3>1, <3>2, <3>3
    <2> QED
        BY <2>2, <2>3, <2>4
  <1> QED
      BY <1>1, SendInvInit, SendInvNext, NicInvAlways, PTL DEF Spec
=============================================================================
