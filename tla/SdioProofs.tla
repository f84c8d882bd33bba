------------------------------ MODULE SdioProofs ------------------------------
(***************************************************************************)
(* SdioInOrder and SdioOffered hold in every behaviour of Sdio, for every    *)
(* number and size of buffers and every bound on what is loaded.            *)
(***************************************************************************)
EXTENDS Sdio, TLAPS

-----------------------------------------------------------------------------
(***************************************************************************)
(* Runs of consecutive bytes.                                              *)
(***************************************************************************)
LEMMA BytesAre ==
    ASSUME NEW a \in Nat, NEW b \in Nat, a <= b
    PROVE  /\ Bytes(a + 1, b) \in Seq(Nat)
           /\ Len(Bytes(a + 1, b)) = b - a
           /\ \A k \in 1 .. b - a : Bytes(a + 1, b)[k] = a + k
<1>1. Bytes(a + 1, b) = [k \in 1 .. b - a |-> a + k]
  BY DEF Bytes
<1>2. \A k \in 1 .. b - a : a + k \in Nat
  OBVIOUS
<1>3. b - a \in Nat
  OBVIOUS
<1> QED
  BY <1>1, <1>2, <1>3

LEMMA NoBytes ==
    ASSUME NEW a \in Nat
    PROVE  Bytes(a + 1, a) = <<>>
<1>1. Bytes(a + 1, a) \in Seq(Nat) /\ Len(Bytes(a + 1, a)) = 0
  BY BytesAre
<1> QED
  BY <1>1

LEMMA BytesJoined ==
    ASSUME NEW a \in Nat, NEW b \in Nat, NEW c \in Nat, a <= b, b <= c
    PROVE  Bytes(a + 1, b) \o Bytes(b + 1, c) = Bytes(a + 1, c)
<1> DEFINE f == Bytes(a + 1, b)
           t == Bytes(b + 1, c)
           w == Bytes(a + 1, c)
<1>1. /\ f \in Seq(Nat) /\ Len(f) = b - a
      /\ \A k \in 1 .. b - a : f[k] = a + k
  BY BytesAre
<1>2. /\ t \in Seq(Nat) /\ Len(t) = c - b
      /\ \A k \in 1 .. c - b : t[k] = b + k
  BY BytesAre
<1>3. /\ w \in Seq(Nat) /\ Len(w) = c - a
      /\ \A k \in 1 .. c - a : w[k] = a + k
  BY BytesAre
<1> HIDE DEF f, t, w
<1>4. Len(f \o t) = c - a /\ f \o t \in Seq(Nat)
  BY <1>1, <1>2, SMTT(30)
<1>5. ASSUME NEW k \in 1 .. c - a
      PROVE  (f \o t)[k] = w[k]
  <2>1. CASE k <= b - a
    BY <1>1, <1>2, <1>3, <2>1
  <2>2. CASE k > b - a
    <3>1. k - (b - a) \in 1 .. c - b
      BY <2>2
    <3>2. (f \o t)[k] = t[k - (b - a)]
      BY <1>1, <1>2, <2>2, SMTT(30)
    <3> QED
      BY <1>2, <1>3, <3>1, <3>2
  <2>3. k <= b - a \/ k > b - a
    OBVIOUS
  <2> QED
    BY <2>1, <2>2, <2>3
<1> DEFINE j == f \o t
<1>8. j \in Seq(Nat) /\ Len(j) = c - a /\ \A k \in 1 .. c - a : j[k] = w[k]
  BY <1>4, <1>5
<1> HIDE DEF j
<1>6. j = [k \in 1 .. c - a |-> j[k]] /\ w = [k \in 1 .. c - a |-> w[k]]
  BY <1>3, <1>8
<1>9. j = w
  BY <1>6, <1>8
<1>7. f \o t = w
  BY <1>9 DEF j
<1> QED
  BY <1>7 DEF f, t, w

\* The bytes of d behind the first x, up to the y-th.
Piece(d, x, y) == SubSeq(d, x + 1, y)

LEMMA BytesCut ==
    ASSUME NEW a \in Nat, NEW b \in Nat, NEW x \in Nat, NEW y \in Nat,
           x <= y, a + y <= b
    PROVE  Piece(Bytes(a + 1, b), x, y) = Bytes(a + x + 1, a + y)
<1> DEFINE w == Bytes(a + 1, b)
           p == Bytes(a + x + 1, a + y)
<1>1. /\ w \in Seq(Nat) /\ Len(w) = b - a
      /\ \A k \in 1 .. b - a : w[k] = a + k
  BY BytesAre
<1>2. /\ p \in Seq(Nat) /\ Len(p) = y - x
      /\ \A k \in 1 .. y - x : p[k] = a + x + k
  <2>1. a + x \in Nat /\ a + y \in Nat /\ a + x <= a + y
    OBVIOUS
  <2>2. /\ Bytes((a + x) + 1, a + y) \in Seq(Nat)
        /\ Len(Bytes((a + x) + 1, a + y)) = (a + y) - (a + x)
        /\ \A k \in 1 .. (a + y) - (a + x) : Bytes((a + x) + 1, a + y)[k] = (a + x) + k
    BY <2>1, BytesAre
  <2>3. (a + y) - (a + x) = y - x
    OBVIOUS
  <2> QED
    BY <2>2, <2>3
<1> HIDE DEF w, p
<1>3. /\ SubSeq(w, x + 1, y) \in Seq(Nat)
      /\ Len(SubSeq(w, x + 1, y)) = y - x
      /\ \A k \in 1 .. y - x : SubSeq(w, x + 1, y)[k] = w[x + k]
  BY <1>1
<1>4. \A k \in 1 .. y - x : SubSeq(w, x + 1, y)[k] = p[k]
  BY <1>1, <1>2, <1>3
<1> QED
  BY <1>2, <1>3, <1>4 DEF w, p, Piece

\* How many whole buffers n bytes fill.
LEMMA Whole ==
    ASSUME NEW n \in Nat, NEW s \in Nat \ {0}
    PROVE  /\ n \div s \in Nat
           /\ (n \div s) * s <= n /\ n < (n \div s) * s + s
<1> DEFINE q == n \div s
<1>1. q \in Nat /\ n % s \in Nat /\ n % s < s /\ n = s * q + (n % s)
  OBVIOUS
<1> HIDE DEF q
<1>2. s * q = q * s
  BY <1>1
<1> QED
  BY <1>1, <1>2 DEF q

\* Fewer bytes than m buffers hold do not fill more than m.
LEMMA WholeBelow ==
    ASSUME NEW q \in Nat, NEW m \in Nat, NEW s \in Nat \ {0}, q * s <= m * s
    PROVE  q <= m
<1>1. SUFFICES ASSUME q - m >= 1 PROVE FALSE
  OBVIOUS
<1>2. (q - m) * s = q * s - m * s
  OBVIOUS
<1>3. (q - m) * s >= s
  BY <1>1
<1> QED
  BY <1>2, <1>3

-----------------------------------------------------------------------------
(***************************************************************************)
(* The two lists, apart from the variables.                                 *)
(***************************************************************************)
PlaceIn(send, before, k) ==
    before + (IF k = 1 THEN 0 ELSE Len(Head(send)) + (k - 2) * RX_BUFFER_SIZE)

First(free) == IF free = <<>> THEN <<>> ELSE Head(free)

Behind(send, before) == PlaceIn(send, before, Len(send) + 1)

Lists(send, free, before, last) ==
    /\ send \in Seq(Seq(Nat)) /\ free \in Seq(Seq(Nat))
    /\ before \in Nat /\ last \in Nat
    /\ Len(First(free)) < RX_BUFFER_SIZE
    /\ \A k \in 1 .. Len(send) + 1 : PlaceIn(send, before, k) \in Nat

InOrder(send, free, before, last) ==
    /\ Len(send) + Len(free) = RX_BUFFER_NUM
    /\ \A i \in 2 .. Len(free) : free[i] = <<>>
    /\ \A k \in 2 .. Len(send) : Len(send[k]) = RX_BUFFER_SIZE
    /\ \A k \in 1 .. Len(send) :
        send[k] = Bytes(PlaceIn(send, before, k) + 1,
                        PlaceIn(send, before, k) + Len(send[k]))
    /\ First(free) = Bytes(Behind(send, before) + 1, last)
    /\ Len(First(free)) = last - Behind(send, before)

Ordered(send, free, before, last) ==
    Lists(send, free, before, last) /\ InOrder(send, free, before, last)

LEMMA Sizes == RX_BUFFER_SIZE \in Nat \ {0} /\ RX_BUFFER_NUM \in Nat \ {0}
  BY SdioAssumption

LEMMA Places ==
    ASSUME NEW send \in Seq(Seq(Nat)), NEW before \in Nat,
           NEW k \in 1 .. Len(send) + 1
    PROVE  PlaceIn(send, before, k) \in Nat
<1>1. k = 1 => PlaceIn(send, before, k) = before
  BY DEF PlaceIn
<1>2. CASE k # 1
  <2>1. Head(send) \in Seq(Nat) /\ k - 2 \in Nat
    BY <1>2
  <2>2. (k - 2) * RX_BUFFER_SIZE \in Nat
    BY <2>1, Sizes
  <2> QED
    BY <1>2, <2>1, <2>2 DEF PlaceIn
<1> QED
  BY <1>1, <1>2

\* Places are a buffer apart, but for the first.
LEMMA NextPlace ==
    ASSUME NEW send, NEW before \in Nat, NEW k \in Nat \ {0, 1},
           Len(Head(send)) \in Nat
    PROVE  PlaceIn(send, before, k + 1) = PlaceIn(send, before, k) + RX_BUFFER_SIZE
<1> DEFINE h == Len(Head(send))
           s == RX_BUFFER_SIZE
<1>1. /\ PlaceIn(send, before, k + 1) = before + (h + (k - 1) * s)
      /\ PlaceIn(send, before, k) = before + (h + (k - 2) * s)
  BY DEF PlaceIn
<1>2. h \in Nat /\ s \in Nat
  BY Sizes
<1> HIDE DEF h, s
<1>3. (k - 1) * s = (k - 2) * s + s
  BY <1>2
<1>4. (k - 2) * s \in Nat
  BY <1>2
<1>5. PlaceIn(send, before, k + 1) = PlaceIn(send, before, k) + s
  BY <1>1, <1>2, <1>3, <1>4
<1> QED
  BY <1>5 DEF s

-----------------------------------------------------------------------------
(***************************************************************************)
(* A read buffer goes back.                                                *)
(***************************************************************************)
LEMMA ReadBack ==
    ASSUME NEW s, NEW f, NEW b, NEW l, Ordered(s, f, b, l), s # <<>>
    PROVE  Ordered(Tail(s), Append(f, <<>>), b + Len(Head(s)), l)
<1> DEFINE t == Tail(s)
           r == Append(f, <<>>)
           c == b + Len(Head(s))
<1>1. /\ s \in Seq(Seq(Nat)) /\ f \in Seq(Seq(Nat)) /\ b \in Nat /\ l \in Nat
      /\ Len(First(f)) < RX_BUFFER_SIZE
      /\ \A k \in 1 .. Len(s) + 1 : PlaceIn(s, b, k) \in Nat
  BY DEF Ordered, Lists
<1>2. Head(s) \in Seq(Nat) /\ Head(s) = s[1] /\ Len(Head(s)) \in Nat
  BY <1>1
<1>3. /\ t \in Seq(Seq(Nat)) /\ Len(t) = Len(s) - 1
      /\ \A k \in 1 .. Len(t) : t[k] = s[k + 1]
  BY <1>1
<1>4. /\ r \in Seq(Seq(Nat)) /\ Len(r) = Len(f) + 1
      /\ \A i \in 1 .. Len(f) : r[i] = f[i]
      /\ r[Len(f) + 1] = <<>>
  BY <1>1
<1>5. c \in Nat /\ c = b + Len(Head(s))
  BY <1>1, <1>2
<1>6. First(r) = First(f)
  <2>1. CASE f = <<>>
    <3>1. r = << <<>> >>
      BY <2>1
    <3> QED
      BY <2>1, <3>1 DEF First
  <2>2. CASE f # <<>>
    <3>2. 1 \in 1 .. Len(f)
      BY <1>1, <2>2
    <3>3. r[1] = f[1]
      BY <1>4, <3>2
    <3>4. Head(f) = f[1]
      BY <1>1, <2>2
    <3>5. r # <<>> /\ Head(r) = r[1]
      BY <1>4, <3>2, SMTT(30)
    <3>1. r # <<>> /\ Head(r) = r[1] /\ Head(f) = f[1] /\ r[1] = f[1]
      BY <3>3, <3>4, <3>5
    <3> QED
      BY <2>2, <3>1 DEF First
  <2> QED
    BY <2>1, <2>2
<1> HIDE DEF t, r, c
<1>7. ASSUME NEW k \in 1 .. Len(t) + 1
      PROVE  PlaceIn(t, c, k) = PlaceIn(s, b, k + 1)
  <2>1. CASE k = 1
    <3>1. PlaceIn(t, c, k) = c + 0
      BY <2>1 DEF PlaceIn
    <3>2. k + 1 = 2 /\ (2 - 2) * RX_BUFFER_SIZE = 0
      BY <2>1, Sizes
    <3>3. PlaceIn(s, b, k + 1) = b + (Len(Head(s)) + 0)
      BY <3>2 DEF PlaceIn
    <3> QED
      BY <1>1, <1>2, <1>5, <3>1, <3>3
  <2>2. CASE k # 1
    <3>8. 1 \in 1 .. Len(t)
      BY <1>3, <2>2
    <3>9. t[1] = s[1 + 1]
      BY <1>3, <3>8
    <3>1. t # <<>> /\ Head(t) = s[2]
      BY <1>3, <3>8, <3>9
    <3>2. Len(s[2]) = RX_BUFFER_SIZE
      BY <1>3, <2>2 DEF Ordered, InOrder
    <3>3. PlaceIn(t, c, k) = c + (RX_BUFFER_SIZE + (k - 2) * RX_BUFFER_SIZE)
      BY <2>2, <3>1, <3>2 DEF PlaceIn
    <3>4. (k + 1) - 2 = k - 1 /\ k + 1 # 1 /\ k \in Nat
      BY <1>3, <2>2
    <3>5. PlaceIn(s, b, k + 1) = b + (Len(Head(s)) + (k - 1) * RX_BUFFER_SIZE)
      BY <3>4 DEF PlaceIn
    <3>6. (k - 1) * RX_BUFFER_SIZE = RX_BUFFER_SIZE + (k - 2) * RX_BUFFER_SIZE
      BY <3>4, Sizes
    <3>7. (k - 1) * RX_BUFFER_SIZE \in Int
      BY <3>4, Sizes
    <3> QED
      BY <1>1, <1>2, <1>5, <3>3, <3>5, <3>6, <3>7, SMTT(30)
  <2> QED
    BY <2>1, <2>2
<1>8. Behind(t, c) = Behind(s, b)
  <2>1. Len(t) + 1 \in 1 .. Len(t) + 1
    BY <1>3
  <2>2. (Len(t) + 1) + 1 = Len(s) + 1
    BY <1>1, <1>3
  <2> QED
    BY <1>7, <2>1, <2>2 DEF Behind
<1>9. Lists(t, r, c, l)
  <2>1. \A k \in 1 .. Len(t) + 1 : k + 1 \in 1 .. Len(s) + 1
    BY <1>1, <1>3
  <2> QED
    BY <1>1, <1>3, <1>4, <1>5, <1>6, <1>7, <2>1 DEF Lists
<1>10. InOrder(t, r, c, l)
  <2>1. Len(t) + Len(r) = RX_BUFFER_NUM
    <3>1. Len(s) + Len(f) = RX_BUFFER_NUM
      BY DEF Ordered, InOrder
    <3>2. Len(s) \in Nat /\ Len(f) \in Nat
      BY <1>1
    <3> QED
      BY <1>3, <1>4, <3>1, <3>2
  <2>2. \A i \in 2 .. Len(r) : r[i] = <<>>
    <3>1. \A i \in 2 .. Len(f) : f[i] = <<>>
      BY DEF Ordered, InOrder
    <3>2. \A i \in 2 .. Len(f) + 1 : i = Len(f) + 1 \/ i \in 2 .. Len(f)
      BY <1>1
    <3>3. \A i \in 2 .. Len(f) : r[i] = f[i]
      BY <1>1, <1>4
    <3> QED
      BY <1>4, <3>1, <3>2, <3>3
  <2>3. \A k \in 2 .. Len(t) : Len(t[k]) = RX_BUFFER_SIZE
    <3>1. \A k \in 2 .. Len(t) : k + 1 \in 2 .. Len(s)
      BY <1>1, <1>3
    <3>2. \A k \in 2 .. Len(t) : t[k] = s[k + 1]
      BY <1>3
    <3>3. \A k \in 2 .. Len(s) : Len(s[k]) = RX_BUFFER_SIZE
      BY DEF Ordered, InOrder
    <3> QED
      BY <3>1, <3>2, <3>3
  <2>4. ASSUME NEW k \in 1 .. Len(t)
        PROVE  t[k] = Bytes(PlaceIn(t, c, k) + 1, PlaceIn(t, c, k) + Len(t[k]))
    <3>1. k + 1 \in 1 .. Len(s) /\ k \in 1 .. Len(t) + 1
      BY <1>1, <1>3
    <3>2. t[k] = s[k + 1] /\ PlaceIn(t, c, k) = PlaceIn(s, b, k + 1)
      BY <1>3, <1>7, <3>1
    <3> QED
      BY <3>1, <3>2 DEF Ordered, InOrder
  <2>5. /\ First(r) = Bytes(Behind(t, c) + 1, l)
        /\ Len(First(r)) = l - Behind(t, c)
    BY <1>6, <1>8 DEF Ordered, InOrder
  <2> QED
    BY <2>1, <2>2, <2>3, <2>4, <2>5 DEF InOrder
<1> QED
  BY <1>9, <1>10 DEF Ordered, t, r, c

\* With nothing to send, the first free buffer becomes the one to send.
LEMMA FirstMoved ==
    ASSUME NEW f, NEW b, NEW l, Ordered(<<>>, f, b, l), f # <<>>
    PROVE  Ordered(<<Head(f)>>, Tail(f), b, l)
<1> DEFINE s == <<Head(f)>>
           r == Tail(f)
<1>1. /\ f \in Seq(Seq(Nat)) /\ b \in Nat /\ l \in Nat
      /\ Len(First(f)) < RX_BUFFER_SIZE
  BY DEF Ordered, Lists
<1>2. Head(f) \in Seq(Nat) /\ First(f) = Head(f) /\ Len(Head(f)) \in Nat
  BY <1>1 DEF First
<1>3. /\ s \in Seq(Seq(Nat)) /\ Len(s) = 1 /\ s[1] = Head(f) /\ Head(s) = Head(f)
  BY <1>2
<1>4. /\ r \in Seq(Seq(Nat)) /\ Len(r) = Len(f) - 1
      /\ \A i \in 1 .. Len(r) : r[i] = f[i + 1]
  BY <1>1
<1>5. Len(f) = RX_BUFFER_NUM /\ \A i \in 2 .. Len(f) : f[i] = <<>>
  BY <1>1 DEF Ordered, InOrder
<1>6. Behind(<<>>, b) = b
  BY <1>1 DEF Behind, PlaceIn
<1>7. Head(f) = Bytes(b + 1, l) /\ Len(Head(f)) = l - b
  BY <1>2, <1>6 DEF Ordered, InOrder
<1>8. b + Len(Head(f)) = l
  BY <1>1, <1>7
<1>9. First(r) = <<>>
  <2>1. CASE r # <<>>
    <3>1. 1 \in 1 .. Len(r) /\ 1 + 1 \in 2 .. Len(f)
      BY <1>1, <1>4, <2>1
    <3>2. Head(r) = r[1] /\ r[1] = f[1 + 1]
      BY <1>4, <2>1, <3>1
    <3> QED
      BY <1>5, <2>1, <3>1, <3>2 DEF First
  <2> QED
    BY <2>1 DEF First
<1>10. PlaceIn(s, b, 1) = b
  BY <1>1 DEF PlaceIn
<1>11. Behind(s, b) = l
  <2>1. Len(s) + 1 = 2
    BY <1>3
  <2>2. (2 - 2) * RX_BUFFER_SIZE = 0
    BY Sizes
  <2>3. Behind(s, b) = b + (Len(Head(f)) + 0)
    BY <1>3, <2>1, <2>2 DEF Behind, PlaceIn
  <2> QED
    BY <1>1, <1>2, <1>8, <2>3
<1> HIDE DEF s, r
<1>12. Lists(s, r, b, l)
  <2>1. \A k \in 1 .. Len(s) + 1 : PlaceIn(s, b, k) \in Nat
    BY <1>1, <1>3, Places
  <2>2. Len(First(r)) < RX_BUFFER_SIZE
    BY <1>9, Sizes
  <2> QED
    BY <1>1, <1>3, <1>4, <2>1, <2>2 DEF Lists
<1>13. InOrder(s, r, b, l)
  <2>1. Len(s) + Len(r) = RX_BUFFER_NUM
    BY <1>1, <1>3, <1>4, <1>5
  <2>2. \A i \in 2 .. Len(r) : r[i] = <<>>
    <3>1. \A i \in 2 .. Len(r) : r[i] = f[i + 1] /\ i + 1 \in 2 .. Len(f)
      BY <1>1, <1>4
    <3> QED
      BY <1>5, <3>1
  <2>3. \A k \in 2 .. Len(s) : Len(s[k]) = RX_BUFFER_SIZE
    BY <1>3
  <2>4. \A k \in 1 .. Len(s) :
            s[k] = Bytes(PlaceIn(s, b, k) + 1, PlaceIn(s, b, k) + Len(s[k]))
    <3>1. \A k \in 1 .. Len(s) : k = 1
      BY <1>3
    <3> QED
      BY <1>3, <1>7, <1>8, <1>10, <3>1
  <2>5. First(r) = Bytes(Behind(s, b) + 1, l) /\ Len(First(r)) = l - Behind(s, b)
    BY <1>1, <1>9, <1>11, NoBytes
  <2> QED
    BY <2>1, <2>2, <2>3, <2>4, <2>5 DEF InOrder
<1> QED
  BY <1>12, <1>13 DEF Ordered, s, r

-----------------------------------------------------------------------------
(***************************************************************************)
(* Bytes are loaded.                                                       *)
(***************************************************************************)

LEMMA PutBehind ==
    ASSUME NEW s \in Seq(Seq(Nat)), NEW p \in Seq(Seq(Nat))
    PROVE  /\ s \o p \in Seq(Seq(Nat)) /\ Len(s \o p) = Len(s) + Len(p)
           /\ \A k \in 1 .. Len(s) : (s \o p)[k] = s[k]
           /\ \A i \in 1 .. Len(p) : (s \o p)[Len(s) + i] = p[i]
  OBVIOUS

\* Where whole buffers put behind the others begin.
LEMMA FurtherPlaces ==
    ASSUME NEW s \in Seq(Seq(Nat)), NEW parts \in Seq(Seq(Nat)), NEW b \in Nat,
           \A i \in 1 .. Len(parts) : Len(parts[i]) = RX_BUFFER_SIZE
    PROVE  /\ \A k \in 1 .. Len(s) : PlaceIn(s \o parts, b, k) = PlaceIn(s, b, k)
           /\ \A i \in 1 .. Len(parts) + 1 :
                PlaceIn(s \o parts, b, Len(s) + i) = Behind(s, b) + (i - 1) * RX_BUFFER_SIZE
<1> DEFINE w == s \o parts
           B == RX_BUFFER_SIZE
<1>1. /\ w \in Seq(Seq(Nat)) /\ Len(w) = Len(s) + Len(parts)
      /\ \A k \in 1 .. Len(s) : w[k] = s[k]
      /\ \A i \in 1 .. Len(parts) : w[Len(s) + i] = parts[i]
  BY PutBehind
<1>2. B \in Nat
  BY Sizes
<1> HIDE DEF w
<1>3. CASE s = <<>>
  <2>1. Len(s) = 0
    BY <1>3
  <2>2. Behind(s, b) = b
    BY <2>1 DEF Behind, PlaceIn
  <2>3. ASSUME NEW i \in 1 .. Len(parts) + 1
        PROVE  PlaceIn(w, b, Len(s) + i) = b + (i - 1) * B
    <3>1. CASE i = 1
      <4>1. PlaceIn(w, b, Len(s) + i) = b + 0
        BY <2>1, <3>1 DEF PlaceIn
      <4>2. (i - 1) * B = 0
        BY <1>2, <3>1
      <4> QED
        BY <4>1, <4>2
    <3>2. CASE i # 1
      <4>1. 1 \in 1 .. Len(parts)
        BY <3>2
      <4>2. w[1] = parts[1] /\ w # <<>>
        <5>1. w[Len(s) + 1] = parts[1]
          BY <1>1, <4>1
        <5> QED
          BY <1>1, <2>1, <4>1, <5>1
      <4>3. Head(w) = w[1]
        BY <1>1, <4>2
      <4>4. Len(Head(w)) = B
        BY <4>1, <4>2, <4>3
      <4>5. Len(s) + i = i /\ i \in Nat
        BY <2>1
      <4>6. PlaceIn(w, b, Len(s) + i) = b + (B + (i - 2) * B)
        BY <3>2, <4>4, <4>5 DEF PlaceIn
      <4>7. (i - 1) * B = B + (i - 2) * B
        BY <1>2, <4>5
      <4> QED
        BY <4>6, <4>7
    <3> QED
      BY <3>1, <3>2
  <2> QED
    BY <2>1, <2>2, <2>3 DEF w
<1>4. CASE s # <<>>
  <2>1. Len(s) \in Nat \ {0} /\ 1 \in 1 .. Len(s)
    BY <1>4
  <2>2. Head(w) = w[1] /\ w[1] = s[1]
    BY <1>1, <2>1
  <2>3. Head(s) = s[1] /\ Len(Head(s)) \in Nat
    BY <1>4
  <2>4. ASSUME NEW k \in Nat
        PROVE  PlaceIn(w, b, k) = PlaceIn(s, b, k)
    BY <2>2, <2>3 DEF PlaceIn
  <2>5. ASSUME NEW i \in 1 .. Len(parts) + 1
        PROVE  PlaceIn(w, b, Len(s) + i) = Behind(s, b) + (i - 1) * B
    <3> DEFINE n == Len(s)
               h == Len(Head(s))
    <3>1. n \in Nat \ {0} /\ h \in Nat /\ i \in Nat \ {0} /\ n + i # 1 /\ n + 1 # 1
      BY <2>1, <2>3
    <3>2. PlaceIn(s, b, n + i) = b + (h + ((n + i) - 2) * B)
      BY <3>1 DEF PlaceIn
    <3>3. Behind(s, b) = b + (h + ((n + 1) - 2) * B)
      BY <3>1 DEF PlaceIn, Behind
    <3>4. PlaceIn(w, b, n + i) = PlaceIn(s, b, n + i)
      BY <2>4, <3>1
    <3> HIDE DEF n, h
    <3> HIDE DEF B
    <3>5. ((n + i) - 2) * B = ((n + 1) - 2) * B + (i - 1) * B
      BY <1>2, <3>1
    <3>6. ((n + 1) - 2) * B \in Int /\ (i - 1) * B \in Int
      BY <1>2, <3>1
    <3>7. PlaceIn(w, b, n + i) = Behind(s, b) + (i - 1) * B
      BY <3>1, <3>2, <3>3, <3>4, <3>5, <3>6
    <3> QED
      BY <3>7 DEF n
  <2> QED
    BY <2>4, <2>5 DEF w
<1> QED
  BY <1>3, <1>4

\* What sdio_load_data makes of the lists.
LEMMA LoadKeepsOrder ==
    ASSUME NEW n \in Nat, NEW b,
           Ordered(pHead_ToSend, pHead_Sended, b, loaded), pHead_Sended # <<>>
    PROVE  /\ Taken(n) \in Nat
           /\ Ordered(Filled(n).send, Filled(n).free, b, loaded + Taken(n))
           /\ pHead_ToSend # <<>> =>
                Filled(n).send # <<>> /\ Head(Filled(n).send) = Head(pHead_ToSend)
           /\ pHead_ToSend = <<>> /\ Filled(n).send # <<>> =>
                Len(Head(Filled(n).send)) = RX_BUFFER_SIZE
<1> DEFINE T == pHead_ToSend
           S == pHead_Sended
           B == RX_BUFFER_SIZE
           m == Len(S)
           h == Head(S)
           P == Behind(T, b)
           L == loaded + Taken(n)
<1>1. /\ T \in Seq(Seq(Nat)) /\ S \in Seq(Seq(Nat)) /\ b \in Nat /\ loaded \in Nat
      /\ First(S) = h /\ Len(h) < B /\ P \in Nat
  <2>1. Len(T) + 1 \in 1 .. Len(T) + 1
    BY DEF Ordered, Lists
  <2> QED
    BY <2>1 DEF Ordered, Lists, First, Behind
<1>2. /\ Len(T) + m = RX_BUFFER_NUM
      /\ \A i \in 2 .. m : S[i] = <<>>
      /\ \A k \in 2 .. Len(T) : Len(T[k]) = B
      /\ \A k \in 1 .. Len(T) :
            T[k] = Bytes(PlaceIn(T, b, k) + 1, PlaceIn(T, b, k) + Len(T[k]))
      /\ h = Bytes(P + 1, loaded) /\ Len(h) = loaded - P
  BY <1>1 DEF Ordered, InOrder
<1>3. /\ m \in Nat \ {0} /\ h \in Seq(Nat) /\ Len(h) \in Nat /\ P <= loaded
      /\ B \in Nat \ {0}
  BY <1>1, <1>2, Sizes, SMTT(30)
<1> DEFINE cap == m * B
<1>4. Room = cap - Len(h)
  BY DEF Room
<1> HIDE DEF m
<1>25. cap \in Nat /\ cap >= B
  <2>1. (m - 1) * B \in Nat /\ m * B = (m - 1) * B + B
    BY <1>3
  <2> QED
    BY <1>3, <2>1
<1> HIDE DEF cap
<1>5. Taken(n) \in Nat /\ Taken(n) + Len(h) <= cap
  <2>2. Room \in Nat
    BY <1>1, <1>3, <1>4, <1>25
  <2>3. Taken(n) \in Nat /\ Taken(n) <= Room
    BY <2>2 DEF Taken
  <2> QED
    BY <1>3, <1>4, <1>25, <2>3
<1>6. L \in Nat /\ loaded <= L /\ P <= L /\ L - P \in Nat /\ L - P <= cap
  <2>1. /\ Taken(n) \in Nat /\ loaded \in Nat /\ P \in Nat /\ Len(h) \in Nat
        /\ Len(h) = loaded - P /\ P <= loaded /\ Taken(n) + Len(h) <= cap
        /\ cap \in Nat
    BY <1>1, <1>2, <1>3, <1>5, <1>25
  <2> HIDE DEF P, h
  <2> QED
    BY <2>1
<1> DEFINE data == h \o Bytes(loaded + 1, loaded + Taken(n))
           full == Len(data) \div B
           Part(i) == SubSeq(data, (i - 1) * B + 1, i * B)
           rest == SubSeq(data, full * B + 1, Len(data))
           parts == [i \in 1 .. full |-> Part(i)]
           back == IF full = m THEN <<>> ELSE <<rest>> \o SubSeq(S, full + 2, m)
<1>7. Filled(n).send = T \o parts /\ Filled(n).free = back
  BY DEF Filled, m
<1>26. data = h \o Bytes(loaded + 1, L)
  OBVIOUS
<1> HIDE DEF L, P, data
<1>8. data = Bytes(P + 1, L) /\ Len(data) = L - P
  <2>1. Bytes(P + 1, loaded) \o Bytes(loaded + 1, L) = Bytes(P + 1, L)
    BY <1>1, <1>3, <1>6, BytesJoined
  <2>2. Len(Bytes(P + 1, L)) = L - P
    BY <1>1, <1>6, BytesAre
  <2> QED
    BY <1>2, <1>26, <2>1, <2>2
<1> DEFINE fb == full * B
<1>9. full \in Nat /\ fb \in Nat /\ fb <= L - P /\ L - P < fb + B
  <2>1. Len(data) \in Nat
    BY <1>6, <1>8
  <2>2. full \in Nat /\ fb <= Len(data) /\ Len(data) < fb + B
    BY <1>3, <2>1, Whole
  <2> HIDE DEF full
  <2>3. fb \in Nat
    BY <1>3, <2>2
  <2> QED
    BY <1>8, <2>2, <2>3
<1> HIDE DEF full
<1>27. full * B = fb
  OBVIOUS
<1> HIDE DEF fb
<1>10. full <= m /\ (full = m => L - P = fb)
  <2>1. m * B = cap
    BY DEF cap
  <2>2. full * B <= m * B
    BY <1>1, <1>6, <1>9, <1>25, <1>27, <2>1
  <2>3. full <= m
    BY <1>3, <1>9, <2>2, WholeBelow
  <2>4. full = m => fb = cap
    BY <1>27, <2>1
  <2> QED
    BY <1>1, <1>6, <1>9, <1>25, <2>3, <2>4
<1>11. ASSUME NEW i \in 1 .. full
       PROVE  /\ Part(i) \in Seq(Nat) /\ Len(Part(i)) = B
              /\ Part(i) = Bytes(P + (i - 1) * B + 1, P + i * B)
  <2>1. i - 1 \in Nat /\ i \in Nat /\ full - i \in Nat
    BY <1>9
  <2> DEFINE from == (i - 1) * B
             upto == i * B
             z == (full - i) * B
  <2>2. from \in Nat /\ upto \in Nat /\ z \in Nat
    BY <1>3, <2>1
  <2>3. upto = from + B /\ full * B = upto + z
    BY <1>3, <1>9, <2>1
  <2>5. Part(i) = Piece(data, from, upto)
    BY DEF Piece
  <2> HIDE DEF from, upto, z, Part
  <2>4. from <= upto /\ P + upto <= L
    BY <1>1, <1>3, <1>6, <1>9, <1>27, <2>2, <2>3
  <2>9. Piece(Bytes(P + 1, L), from, upto) = Bytes(P + from + 1, P + upto)
    <3>1. P \in Nat /\ L \in Nat
      BY <1>1, <1>6
    <3> QED
      BY <2>2, <2>4, <3>1, BytesCut
  <2>6. Part(i) = Bytes(P + from + 1, P + upto)
    BY <1>8, <2>5, <2>9
  <2>7. P + from \in Nat /\ P + upto \in Nat /\ P + from <= P + upto /\ (P + upto) - (P + from) = B
    BY <1>1, <1>3, <2>2, <2>3, <2>4
  <2>8. Bytes((P + from) + 1, P + upto) \in Seq(Nat) /\ Len(Bytes((P + from) + 1, P + upto)) = B
    BY <2>7, BytesAre
  <2> QED
    BY <2>6, <2>8 DEF from, upto
<1> DEFINE E == P + fb
<1>12. rest = Bytes(E + 1, L)
  <2> DEFINE all == Len(data)
  <2>1. all \in Nat /\ fb <= all /\ P + all <= L /\ P + all = L
    BY <1>1, <1>6, <1>8, <1>9
  <2>3. rest = Piece(data, fb, all)
    BY <1>27 DEF Piece
  <2> HIDE DEF all, rest
  <2>2. Piece(Bytes(P + 1, L), fb, all) = Bytes(P + fb + 1, P + all)
    <3>1. P \in Nat /\ L \in Nat /\ fb \in Nat
      BY <1>1, <1>6, <1>9
    <3> QED
      BY <2>1, <3>1, BytesCut
  <2> QED
    BY <1>8, <2>1, <2>2, <2>3
<1> HIDE DEF rest
<1>13. /\ E \in Nat /\ E <= L /\ L - E < B /\ (full = m => E = L)
       /\ rest = Bytes(E + 1, L)
  BY <1>1, <1>3, <1>6, <1>9, <1>10, <1>12
<1>14. rest \in Seq(Nat) /\ Len(rest) = L - E
  <2> HIDE DEF E
  <2> QED
    BY <1>6, <1>13, BytesAre
<1>15. full = m => rest = <<>>
  <2> HIDE DEF E
  <2> QED
    BY <1>6, <1>13, NoBytes
<1>16. /\ parts \in Seq(Seq(Nat)) /\ Len(parts) = full
       /\ \A i \in 1 .. full : /\ parts[i] = Bytes(P + (i - 1) * B + 1, P + i * B)
                               /\ Len(parts[i]) = B
  <2> HIDE DEF Part
  <2>1. /\ \A i \in 1 .. full : Part(i) \in Seq(Nat)
        /\ \A i \in 1 .. full : parts[i] = Part(i)
    BY <1>11
  <2> QED
    BY <1>9, <1>11, <2>1
<1>17. /\ back \in Seq(Seq(Nat)) /\ Len(back) = m - full
       /\ \A i \in 2 .. Len(back) : back[i] = <<>>
       /\ First(back) = rest
  <2>1. CASE full = m
    <3>1. back = <<>>
      BY <2>1
    <3> HIDE DEF back
    <3>2. Len(back) = 0 /\ m - full = 0
      BY <1>3, <2>1, <3>1
    <3> QED
      BY <1>15, <2>1, <3>1, <3>2 DEF First
  <2>2. CASE full # m
    <3> DEFINE more == SubSeq(S, full + 2, m)
    <3>1. full + 2 \in Nat /\ m - full - 1 \in Nat
      BY <1>3, <1>9, <1>10, <2>2
    <3>2. /\ more \in Seq(Seq(Nat)) /\ Len(more) = m - full - 1
          /\ \A i \in 1 .. Len(more) : more[i] = S[full + 1 + i]
      BY <1>1, <1>3, <1>9, <3>1, SMTT(30) DEF m
    <3>3. back = <<rest>> \o more
      BY <2>2
    <3>4. \A i \in 1 .. Len(more) : full + 1 + i \in 2 .. m
      BY <1>3, <1>9, <3>1, <3>2
    <3>5. \A i \in 1 .. Len(more) : more[i] = <<>>
      BY <1>2, <3>2, <3>4
    <3> HIDE DEF back, more
    <3>6. /\ back \in Seq(Seq(Nat)) /\ Len(back) = 1 + Len(more)
          /\ back[1] = rest /\ \A i \in 1 .. Len(more) : back[i + 1] = more[i]
      BY <1>14, <3>2, <3>3
    <3>7. Len(back) = m - full
      BY <1>3, <1>9, <3>2, <3>6
    <3>8. ASSUME NEW i \in 2 .. Len(back)
          PROVE  back[i] = <<>>
      <4>1. i - 1 \in 1 .. Len(more) /\ (i - 1) + 1 = i
        BY <3>2, <3>6
      <4>2. back[(i - 1) + 1] = more[i - 1]
        BY <3>6, <4>1
      <4> QED
        BY <3>5, <4>1, <4>2
    <3>9. First(back) = rest
      <4>1. back # <<>> /\ Head(back) = back[1]
        BY <3>2, <3>6
      <4> QED
        BY <3>6, <4>1 DEF First
    <3> QED
      BY <3>6, <3>7, <3>8, <3>9
  <2> QED
    BY <2>1, <2>2
<1> DEFINE sent == T \o parts
<1>18. /\ sent \in Seq(Seq(Nat)) /\ Len(sent) = Len(T) + full
       /\ \A k \in 1 .. Len(T) : sent[k] = T[k]
       /\ \A i \in 1 .. full : sent[Len(T) + i] = parts[i]
  <2> HIDE DEF parts
  <2> QED
    BY <1>1, <1>16, PutBehind
<1>19. /\ \A k \in 1 .. Len(T) : PlaceIn(sent, b, k) = PlaceIn(T, b, k)
       /\ \A i \in 1 .. full + 1 : PlaceIn(sent, b, Len(T) + i) = P + (i - 1) * B
  <2> HIDE DEF parts
  <2> QED
    BY <1>1, <1>16, FurtherPlaces, ZenonT(60) DEF P
<1> HIDE DEF parts, back, Part
<1>20. Behind(sent, b) = E
  <2>1. full + 1 \in 1 .. full + 1 /\ (full + 1) - 1 = full
        /\ Len(T) + (full + 1) = (Len(T) + full) + 1
    BY <1>1, <1>9
  <2>2. PlaceIn(sent, b, Len(T) + (full + 1)) = P + ((full + 1) - 1) * B
    BY <1>19, <2>1
  <2> QED
    BY <1>18, <1>27, <2>1, <2>2 DEF Behind
<1> HIDE DEF sent
<1>21. Lists(sent, back, b, L)
  <2>1. \A k \in 1 .. Len(sent) + 1 : PlaceIn(sent, b, k) \in Nat
    BY <1>1, <1>18, Places
  <2>2. Len(First(back)) < B
    BY <1>13, <1>14, <1>17
  <2> QED
    BY <1>1, <1>6, <1>17, <1>18, <2>1, <2>2 DEF Lists
<1>22. InOrder(sent, back, b, L)
  <2> HIDE DEF E
  <2>1. Len(sent) + Len(back) = RX_BUFFER_NUM
    BY <1>1, <1>2, <1>3, <1>9, <1>17, <1>18
  <2>2. ASSUME NEW k \in 1 .. Len(sent), k > Len(T)
        PROVE  /\ Len(sent[k]) = B
               /\ sent[k] = Bytes(PlaceIn(sent, b, k) + 1,
                                  PlaceIn(sent, b, k) + Len(sent[k]))
    <3> DEFINE i == k - Len(T)
    <3>1. i \in 1 .. full /\ k = Len(T) + i /\ i \in 1 .. full + 1
      BY <1>1, <1>9, <1>18, <2>2, SMTT(30)
    <3> HIDE DEF i
    <3>2. sent[k] = Bytes(P + (i - 1) * B + 1, P + i * B) /\ Len(sent[k]) = B
      BY <1>16, <1>18, <3>1
    <3>3. PlaceIn(sent, b, k) = P + (i - 1) * B
      BY <1>19, <3>1
    <3>4. i * B = (i - 1) * B + B /\ (i - 1) * B \in Int /\ i \in Int
      BY <1>3, <3>1
    <3>5. P + i * B = (P + (i - 1) * B) + B
      BY <1>1, <1>3, <3>4
    <3> QED
      BY <3>2, <3>3, <3>5
  <2>3. ASSUME NEW k \in 1 .. Len(sent), ~(k > Len(T))
        PROVE  k \in 1 .. Len(T) /\ sent[k] = T[k] /\ PlaceIn(sent, b, k) = PlaceIn(T, b, k)
    <3>1. k \in 1 .. Len(T)
      BY <1>1, <2>3
    <3> QED
      BY <1>18, <1>19, <3>1
  <2>4. \A k \in 2 .. Len(sent) : Len(sent[k]) = B
    <3>1. ASSUME NEW k \in 2 .. Len(sent), ~(k > Len(T))
          PROVE  Len(sent[k]) = B
      <4>1. k \in 1 .. Len(sent)
        OBVIOUS
      <4>2. k \in 2 .. Len(T) /\ sent[k] = T[k]
        BY <2>3, <3>1, <4>1
      <4> QED
        BY <1>2, <4>2
    <3>2. \A k \in 2 .. Len(sent) : k \in 1 .. Len(sent)
      OBVIOUS
    <3> QED
      BY <2>2, <3>1, <3>2
  <2>5. ASSUME NEW k \in 1 .. Len(sent)
        PROVE  sent[k] = Bytes(PlaceIn(sent, b, k) + 1,
                               PlaceIn(sent, b, k) + Len(sent[k]))
    <3>1. CASE k > Len(T)
      BY <2>2, <3>1
    <3>2. CASE ~(k > Len(T))
      BY <1>2, <2>3, <3>2
    <3> QED
      BY <3>1, <3>2
  <2>6. First(back) = Bytes(Behind(sent, b) + 1, L) /\ Len(First(back)) = L - Behind(sent, b)
    BY <1>13, <1>14, <1>17, <1>20
  <2>7. \A i \in 2 .. Len(back) : back[i] = <<>>
    BY <1>17
  <2> QED
    BY <2>1, <2>4, <2>5, <2>6, <2>7 DEF InOrder
<1>23. T # <<>> => sent # <<>> /\ Head(sent) = Head(T)
  <2>1. T # <<>> => 1 \in 1 .. Len(T) /\ Len(T) \in Nat
    BY <1>1
  <2>2. T # <<>> => Head(T) = T[1] /\ sent[1] = T[1] /\ sent # <<>>
    BY <1>1, <1>9, <1>18, <2>1
  <2> QED
    BY <1>18, <2>2
<1>24. T = <<>> /\ sent # <<>> => Len(Head(sent)) = B
  <2>1. CASE T = <<>> /\ sent # <<>>
    <3>1. Len(T) = 0 /\ Len(sent) # 0
      BY <1>18, <2>1
    <3>2. 1 \in 1 .. full
      BY <1>9, <1>18, <3>1
    <3>3. sent[Len(T) + 1] = parts[1] /\ Len(T) + 1 = 1
      BY <1>18, <3>1, <3>2
    <3>4. Head(sent) = sent[1]
      BY <1>18, <2>1
    <3> QED
      BY <1>16, <3>2, <3>3, <3>4
  <2> QED
    BY <2>1
<1> QED
  BY <1>5, <1>7, <1>21, <1>22, <1>23, <1>24 DEF Ordered, sent, L

-----------------------------------------------------------------------------
(***************************************************************************)
(* The inductive invariant: the lists are in order, and who has to move the  *)
(* head of pHead_ToSend is settled.  With nothing to send nothing is         *)
(* offered, no event is on its way and no byte waits.  Otherwise the head is *)
(* offered; or it is read, and the event with the handler or lost; or it is  *)
(* one of the two buffers that sdio_load_data does not offer.               *)
(***************************************************************************)
Seen == "RX_EOF" \in slcInt
Lost == "RX_EOF" \in cleared

NothingToSend ==
    has_read = TRUE /\ rxLink = <<>> /\ ~Seen /\ ~Lost /\ First(pHead_Sended) = <<>>
HeadOffered ==
    /\ has_read = FALSE /\ toHost = TRUE /\ ~Seen /\ ~Lost
    /\ rxLink = Head(pHead_ToSend) /\ rxLink # <<>>
HeadRead ==
    /\ has_read = FALSE /\ rxLink = <<>> /\ Head(pHead_ToSend) # <<>>
    /\ Seen \/ Lost
    /\ ~(Seen /\ Lost)
WholeAtRest ==
    /\ has_read = TRUE /\ rxLink = <<>> /\ ~Seen /\ ~Lost
    /\ Len(Head(pHead_ToSend)) = RX_BUFFER_SIZE
NoneAtRest ==
    has_read = FALSE /\ rxLink = <<>> /\ ~Seen /\ ~Lost /\ Head(pHead_ToSend) = <<>>

Settled ==
    IF pHead_ToSend = <<>> THEN NothingToSend
    ELSE HeadOffered \/ HeadRead \/ WholeAtRest \/ NoneAtRest

SdioInv ==
    /\ Ordered(pHead_ToSend, pHead_Sended, BytesBefore, loaded)
    /\ hostRead \in Nat
    /\ Settled

-----------------------------------------------------------------------------
LEMMA SdioInvInit == SdioInit => SdioInv
<1> SUFFICES ASSUME SdioInit PROVE SdioInv
  OBVIOUS
<1> DEFINE f == [i \in 1 .. RX_BUFFER_NUM |-> <<>>]
<1>1. /\ pHead_ToSend = <<>> /\ pHead_Sended = f /\ hostRead = 0 /\ loaded = 0
      /\ has_read = TRUE /\ rxLink = <<>> /\ ~Seen /\ ~Lost
  BY DEF SdioInit, Seen, Lost
<1>2. BytesBefore = 0
  <2>1. ~("RX_EOF" \in slcInt \union cleared)
    BY <1>1 DEF Seen, Lost
  <2>2. BytesBefore = hostRead - 0
    BY <2>1 DEF BytesBefore
  <2> QED
    BY <1>1, <2>2
<1>3. /\ f \in Seq(Seq(Nat)) /\ Len(f) = RX_BUFFER_NUM
      /\ \A i \in 1 .. RX_BUFFER_NUM : f[i] = <<>>
  BY Sizes
<1> HIDE DEF f
<1>4. First(f) = <<>>
  <2>1. 1 \in 1 .. RX_BUFFER_NUM
    BY Sizes
  <2>2. f # <<>> => Head(f) = f[1]
    BY <1>3
  <2> QED
    BY <1>3, <2>1, <2>2 DEF First
<1>5. Behind(<<>>, 0) = 0 /\ Len(<<>>) = 0
  BY DEF Behind, PlaceIn
<1>6. Lists(<<>>, f, 0, 0)
  <2>1. \A k \in 1 .. Len(<<>>) + 1 : PlaceIn(<<>>, 0, k) \in Nat
    <3>1. <<>> \in Seq(Seq(Nat)) /\ 0 \in Nat
      OBVIOUS
    <3> QED
      BY <3>1, Places
  <2>2. Len(First(f)) < RX_BUFFER_SIZE
    BY <1>4, Sizes
  <2> QED
    BY <1>3, <2>1, <2>2 DEF Lists
<1>7. InOrder(<<>>, f, 0, 0)
  <2>1. \A i \in 2 .. Len(f) : f[i] = <<>>
    BY <1>3, Sizes
  <2>2. First(f) = Bytes(Behind(<<>>, 0) + 1, 0)
        /\ Len(First(f)) = 0 - Behind(<<>>, 0)
    BY <1>4, <1>5, NoBytes
  <2>3. Len(<<>>) + Len(f) = RX_BUFFER_NUM
    BY <1>3, <1>5, Sizes
  <2> QED
    BY <1>5, <2>1, <2>2, <2>3 DEF InOrder
<1> QED
  BY <1>1, <1>2, <1>4, <1>6, <1>7 DEF SdioInv, Ordered, Settled, NothingToSend

\* Steps that leave the lists, what is offered and the events of reads alone,
\* but for handing an event over.
LEMMA SdioInvSame ==
    ASSUME SdioInv, UNCHANGED <<lists, rxLink, loaded, hostRead>>,
           toHost = TRUE => toHost' = TRUE,
           (Seen' \/ Lost') <=> (Seen \/ Lost),
           (Seen' /\ Lost') <=> (Seen /\ Lost)
    PROVE  SdioInv'
<1>1. /\ pHead_ToSend' = pHead_ToSend /\ pHead_Sended' = pHead_Sended
      /\ has_read' = has_read /\ rxLink' = rxLink /\ loaded' = loaded
      /\ hostRead' = hostRead
  BY DEF lists
<1>2. BytesBefore' = BytesBefore
  <2>1. "RX_EOF" \in slcInt' \union cleared' <=> "RX_EOF" \in slcInt \union cleared
    BY DEF Seen, Lost
  <2> QED
    BY <1>1, <2>1 DEF BytesBefore
<1>3. Settled'
  BY <1>1 DEF SdioInv, Settled, NothingToSend, HeadOffered, HeadRead, WholeAtRest,
              NoneAtRest
<1> QED
  BY <1>1, <1>2, <1>3 DEF SdioInv

LEMMA SdioInvLoad ==
    ASSUME SdioInv, NEW n \in Nat, sdio_load_data(n)
    PROVE  SdioInv'
<1> DEFINE send == Filled(n).send
           free == Filled(n).free
           b == BytesBefore
<1>1. /\ pHead_Sended # <<>> /\ loaded' = loaded + Taken(n)
      /\ slcInt' = slcInt /\ cleared' = cleared /\ hostRead' = hostRead
      /\ Seen' = Seen /\ Lost' = Lost
  BY DEF sdio_load_data, Seen, Lost
<1>2. /\ Taken(n) \in Nat
      /\ Ordered(send, free, b, loaded')
      /\ pHead_ToSend # <<>> => send # <<>> /\ Head(send) = Head(pHead_ToSend)
      /\ pHead_ToSend = <<>> /\ send # <<>> => Len(Head(send)) = RX_BUFFER_SIZE
  BY <1>1, LoadKeepsOrder DEF SdioInv
<1>3. IF send # <<>>
      THEN /\ pHead_ToSend' = send /\ pHead_Sended' = free
           /\ has_read' = has_read /\ rxLink' = rxLink /\ toHost' = toHost
      ELSE /\ pHead_ToSend' = <<Head(free)>> /\ pHead_Sended' = Tail(free)
           /\ has_read => /\ rx_buff_load_done(sdioStatus, Head(free))
                          /\ has_read' = FALSE /\ toHost' = TRUE
  BY DEF sdio_load_data
<1>4. hostRead \in Nat /\ b \in Nat
  BY DEF SdioInv, Ordered, Lists
<1> HIDE DEF send, free
<1>5. CASE send # <<>>
  <2>1. CASE pHead_ToSend # <<>>
    <3>1. pHead_ToSend' = send /\ pHead_Sended' = free /\ Head(send) = Head(pHead_ToSend)
      BY <1>2, <1>3, <1>5, <2>1
    <3>2. BytesBefore' = b
      BY <1>1, <3>1 DEF BytesBefore
    <3>3. Settled'
      BY <1>1, <1>3, <1>5, <2>1, <3>1
      DEF SdioInv, Settled, HeadOffered, HeadRead, WholeAtRest, NoneAtRest
    <3> QED
      BY <1>1, <1>2, <1>4, <3>1, <3>2, <3>3 DEF SdioInv
  <2>2. CASE pHead_ToSend = <<>>
    <3>1. pHead_ToSend' = send /\ pHead_Sended' = free
      BY <1>3, <1>5
    <3>2. NothingToSend
      BY <2>2 DEF SdioInv, Settled
    <3>3. b = hostRead /\ BytesBefore' = hostRead
      BY <1>1, <1>4, <3>2 DEF NothingToSend, BytesBefore, Seen, Lost
    <3>4. WholeAtRest'
      BY <1>1, <1>2, <1>3, <1>5, <2>2, <3>1, <3>2 DEF WholeAtRest, NothingToSend
    <3>5. Settled'
      BY <1>5, <3>1, <3>4 DEF Settled
    <3> QED
      BY <1>1, <1>2, <1>4, <3>1, <3>3, <3>5 DEF SdioInv
  <2> QED
    BY <2>1, <2>2
<1>6. CASE send = <<>>
  <2>1. pHead_ToSend = <<>> /\ NothingToSend
    BY <1>2, <1>6 DEF SdioInv, Settled
  <2>2. b = hostRead /\ BytesBefore' = hostRead
    BY <1>1, <1>4, <2>1 DEF NothingToSend, BytesBefore, Seen, Lost
  <2>3. free # <<>>
    <3>1. Len(send) + Len(free) = RX_BUFFER_NUM
      BY <1>2 DEF Ordered, InOrder
    <3>2. Len(send) = 0
      BY <1>6
    <3>3. free = <<>> => Len(free) = 0
      OBVIOUS
    <3> QED
      BY <3>1, <3>2, <3>3, Sizes
  <2>4. pHead_ToSend' = <<Head(free)>> /\ pHead_Sended' = Tail(free)
    BY <1>3, <1>6
  <2>5. Ordered(pHead_ToSend', pHead_Sended', b, loaded')
    BY <1>2, <1>6, <2>3, <2>4, FirstMoved
  <2>6. /\ rx_buff_load_done(sdioStatus, Head(free))
        /\ has_read' = FALSE /\ toHost' = TRUE /\ ~Seen' /\ ~Lost' /\ rxLink = <<>>
    BY <1>1, <1>3, <1>6, <2>1 DEF NothingToSend
  <2>7. pHead_ToSend' # <<>> /\ Head(pHead_ToSend') = Head(free)
    BY <2>4
  <2>8. CASE Head(free) = <<>>
    <3>1. rxLink' = <<>>
      BY <2>6, <2>8 DEF rx_buff_load_done
    <3> QED
      BY <1>1, <1>4, <2>2, <2>5, <2>6, <2>7, <2>8, <3>1 DEF SdioInv, Settled, NoneAtRest
  <2>9. CASE Head(free) # <<>>
    <3>1. rxLink' = Head(free)
      BY <2>6, <2>9 DEF rx_buff_load_done
    <3> QED
      BY <1>1, <1>4, <2>2, <2>5, <2>6, <2>7, <2>9, <3>1 DEF SdioInv, Settled, HeadOffered
  <2> QED
    BY <2>8, <2>9
<1> QED
  BY <1>5, <1>6

\* A read with its event before the handler leaves the list of those to send.
LEMMA SdioInvIsr ==
    ASSUME SdioInv, sdio_slave_isr
    PROVE  SdioInv'
<1>1. CASE ~Seen
  <2>1. /\ UNCHANGED <<lists, rxLink, loaded, hostRead>> /\ toHost' = toHost
        /\ slcInt' = {} /\ cleared' = cleared
    BY <1>1 DEF sdio_slave_isr, Seen
  <2>2. (Seen' <=> Seen) /\ (Lost' <=> Lost)
    BY <1>1, <2>1 DEF Seen, Lost
  <2> QED
    BY <2>1, <2>2, SdioInvSame
<1>2. CASE Seen
  <2> DEFINE more == Tail(pHead_ToSend)
             back == Append(pHead_Sended, <<>>)
             c == BytesBefore + Len(Head(pHead_ToSend))
  <2>1. \E status : sdio_read_done_process(status)
    BY <1>2 DEF sdio_slave_isr, Seen
  <2>2. PICK status : sdio_read_done_process(status)
    BY <2>1
  <2>3. /\ loaded' = loaded /\ hostRead' = hostRead /\ slcInt' = {}
        /\ cleared' = cleared
    BY DEF sdio_slave_isr
  <2>4. pHead_ToSend # <<>> /\ HeadRead
    BY <1>2 DEF SdioInv, Settled, NothingToSend, HeadOffered, WholeAtRest, NoneAtRest
  <2>5. ~Lost /\ rxLink = <<>>
    BY <1>2, <2>4 DEF HeadRead
  <2>6. ~Seen' /\ ~Lost'
    BY <2>3, <2>5 DEF Seen, Lost
  <2>7. BytesBefore' = hostRead
    BY <2>3, <2>6 DEF BytesBefore, Seen, Lost, SdioInv
  <2>8. c = hostRead
    <3>1. BytesBefore = hostRead - Len(Head(pHead_ToSend))
      BY <1>2 DEF BytesBefore, Seen
    <3>2. Len(Head(pHead_ToSend)) \in Nat /\ hostRead \in Nat
      BY <2>4 DEF SdioInv, Ordered, Lists
    <3> QED
      BY <3>1, <3>2
  <2>9. Ordered(more, back, c, loaded)
    BY <2>4, ReadBack DEF SdioInv
  <2>10. toHost' = TRUE
    BY <2>2 DEF sdio_read_done_process
  <2>11. \/ /\ more # <<>> /\ pHead_ToSend' = more /\ pHead_Sended' = back
            /\ rx_buff_load_done(status, Head(more)) /\ has_read' = FALSE
         \/ /\ more = <<>> /\ Head(back) # <<>>
            /\ pHead_ToSend' = <<Head(back)>> /\ pHead_Sended' = Tail(back)
            /\ rx_buff_load_done(status, Head(back)) /\ has_read' = FALSE
         \/ /\ more = <<>> /\ Head(back) = <<>>
            /\ pHead_ToSend' = <<>> /\ pHead_Sended' = back
            /\ has_read' = TRUE /\ rxLink' = rxLink
    BY <2>2 DEF sdio_read_done_process
  <2>12. back # <<>> /\ First(back) = Head(back)
    <3>1. pHead_Sended \in Seq(Seq(Nat))
      BY DEF SdioInv, Ordered, Lists
    <3>2. Len(back) = Len(pHead_Sended) + 1 /\ Len(pHead_Sended) \in Nat
      BY <3>1
    <3>3. back = <<>> => Len(back) = 0
      OBVIOUS
    <3> HIDE DEF back
    <3> QED
      BY <3>2, <3>3 DEF First
  <2>13. hostRead' \in Nat
    BY <2>3 DEF SdioInv
  <2> HIDE DEF more, back, c
  <2>14. CASE /\ more # <<>> /\ pHead_ToSend' = more /\ pHead_Sended' = back
              /\ rx_buff_load_done(status, Head(more)) /\ has_read' = FALSE
    <3>1. Head(more) # <<>>
      <4>1. more \in Seq(Seq(Nat)) /\ Head(more) = more[1]
        BY <2>9, <2>14 DEF Ordered, Lists
      <4>2. pHead_ToSend \in Seq(Seq(Nat)) /\ more = Tail(pHead_ToSend)
        BY DEF SdioInv, Ordered, Lists, more
      <4>3. more[1] = pHead_ToSend[2] /\ 2 \in 2 .. Len(pHead_ToSend)
        BY <2>4, <2>14, <4>2
      <4>4. Len(more[1]) = RX_BUFFER_SIZE
        BY <4>3 DEF SdioInv, Ordered, InOrder
      <4> QED
        BY <4>1, <4>4, Sizes
    <3>2. rxLink' = Head(more)
      BY <2>14, <3>1 DEF rx_buff_load_done
    <3>3. HeadOffered'
      BY <2>6, <2>10, <2>14, <3>1, <3>2 DEF HeadOffered
    <3> QED
      BY <2>3, <2>7, <2>8, <2>9, <2>13, <2>14, <3>3 DEF SdioInv, Settled
  <2>15. CASE /\ more = <<>> /\ Head(back) # <<>>
              /\ pHead_ToSend' = <<Head(back)>> /\ pHead_Sended' = Tail(back)
              /\ rx_buff_load_done(status, Head(back)) /\ has_read' = FALSE
    <3>1. rxLink' = Head(back)
      BY <2>15 DEF rx_buff_load_done
    <3>2. pHead_ToSend' # <<>> /\ Head(pHead_ToSend') = Head(back)
      BY <2>15
    <3>3. HeadOffered'
      BY <2>6, <2>10, <2>15, <3>1, <3>2 DEF HeadOffered
    <3>4. Ordered(pHead_ToSend', pHead_Sended', c, loaded)
      BY <2>9, <2>12, <2>15, FirstMoved
    <3> QED
      BY <2>3, <2>7, <2>8, <2>13, <3>2, <3>3, <3>4 DEF SdioInv, Settled
  <2>16. CASE /\ more = <<>> /\ Head(back) = <<>>
              /\ pHead_ToSend' = <<>> /\ pHead_Sended' = back
              /\ has_read' = TRUE /\ rxLink' = rxLink
    <3>1. NothingToSend'
      BY <2>5, <2>6, <2>12, <2>16 DEF NothingToSend
    <3> QED
      BY <2>3, <2>7, <2>8, <2>9, <2>13, <2>16, <3>1 DEF SdioInv, Settled
  <2> QED
    BY <2>11, <2>14, <2>15, <2>16
<1> QED
  BY <1>1, <1>2

LEMMA SdioInvRead ==
    ASSUME SdioInv, HostReads
    PROVE  SdioInv'
<1> DEFINE h == Head(pHead_ToSend)
           b == BytesBefore
<1>1. /\ rxLink # <<>> /\ rxLink' = <<>> /\ hostRead' = rxLink[Len(rxLink)]
      /\ slcInt' = slcInt \union {"RX_EOF"} /\ cleared' = cleared
      /\ pHead_ToSend' = pHead_ToSend /\ pHead_Sended' = pHead_Sended
      /\ has_read' = has_read /\ loaded' = loaded
  BY DEF HostReads, lists
<1>2. pHead_ToSend # <<>> /\ HeadOffered
  BY <1>1 DEF SdioInv, Settled, NothingToSend, HeadRead, WholeAtRest, NoneAtRest
<1>3. /\ pHead_ToSend \in Seq(Seq(Nat)) /\ b \in Nat
      /\ 1 \in 1 .. Len(pHead_ToSend) /\ h = pHead_ToSend[1] /\ h \in Seq(Nat)
      /\ Len(h) \in Nat
  BY <1>2 DEF SdioInv, Ordered, Lists
<1>4. h = Bytes(b + 1, b + Len(h))
  <2>1. PlaceIn(pHead_ToSend, b, 1) = b
    BY <1>3 DEF PlaceIn
  <2> QED
    BY <1>3, <2>1 DEF SdioInv, Ordered, InOrder
<1>5. rxLink = h /\ h # <<>> /\ ~Seen /\ ~Lost /\ has_read = FALSE
  BY <1>2 DEF HeadOffered
<1> HIDE DEF h, b
<1>6. hostRead' = b + Len(h)
  <2>1. Len(h) \in 1 .. Len(h) /\ (b + Len(h)) - b = Len(h) /\ b <= b + Len(h)
        /\ b + Len(h) \in Nat
    BY <1>3, <1>5
  <2>2. \A k \in 1 .. (b + Len(h)) - b : Bytes(b + 1, b + Len(h))[k] = b + k
    BY <1>3, <2>1, BytesAre
  <2>3. Bytes(b + 1, b + Len(h))[Len(h)] = b + Len(h)
    BY <2>1, <2>2
  <2> QED
    BY <1>1, <1>4, <1>5, <2>3
<1>7. BytesBefore' = b
  <2>1. BytesBefore' = hostRead' - Len(h)
    BY <1>1 DEF BytesBefore, h
  <2> QED
    BY <1>3, <1>6, <2>1
<1>8. Seen' /\ ~Lost'
  BY <1>1, <1>5 DEF Seen, Lost
<1>9. Settled'
  BY <1>1, <1>2, <1>5, <1>8 DEF Settled, HeadRead, h
<1> QED
  BY <1>1, <1>3, <1>6, <1>7, <1>9 DEF SdioInv, b

LEMMA SdioInvNext == SdioInv /\ [SdioNext]_SdioVars => SdioInv'
<1> SUFFICES ASSUME SdioInv, [SdioNext]_SdioVars PROVE SdioInv'
  OBVIOUS
<1>1. ASSUME NEW n \in 0 .. SdioMaxLoad, sdio_load_data(n) PROVE SdioInv'
  <2>1. n \in Nat
    BY SdioAssumption
  <2> QED
    BY <1>1, <2>1, SdioInvLoad
<1>2. CASE sdio_slave_isr
  BY <1>2, SdioInvIsr
<1>3. CASE sdio_slave_isr_callback
  BY <1>3, SdioInvSame DEF sdio_slave_isr_callback, lists, Seen, Lost
<1>4. CASE tx_buff_handle_done
  BY <1>4, SdioInvSame DEF tx_buff_handle_done, lists, Seen, Lost
<1>5. CASE sdio_slave_isr_tail
  <2>1. (Seen' \/ Lost') <=> (Seen \/ Lost)
    BY <1>5 DEF sdio_slave_isr_tail, Seen, Lost
  <2>2. (Seen' /\ Lost') <=> (Seen /\ Lost)
    <3>1. ~Seen'
      BY <1>5 DEF sdio_slave_isr_tail, Seen
    <3>2. ~(Seen /\ Lost)
      BY DEF SdioInv, Settled, NothingToSend, HeadOffered, HeadRead, WholeAtRest,
             NoneAtRest
    <3> QED
      BY <3>1, <3>2
  <2> QED
    BY <1>5, <2>1, <2>2, SdioInvSame DEF sdio_slave_isr_tail, lists
<1>6. CASE HostReads
  BY <1>6, SdioInvRead
<1>7. CASE HostWrites
  <2>1. (Seen' <=> Seen) /\ (Lost' <=> Lost)
    BY <1>7 DEF HostWrites, Seen, Lost
  <2> QED
    BY <1>7, <2>1, SdioInvSame DEF HostWrites, lists
<1>8. CASE UNCHANGED SdioVars
  BY <1>8, SdioInvSame DEF SdioVars, lists, Seen, Lost
<1> QED
  BY <1>1, <1>2, <1>3, <1>4, <1>5, <1>6, <1>7, <1>8 DEF SdioNext

LEMMA SdioAlways == SdioSpec => []SdioInv
<1>1. SdioInit => SdioInv
  BY SdioInvInit
<1>2. SdioInv /\ [SdioNext]_SdioVars => SdioInv'
  BY SdioInvNext
<1> QED
  BY <1>1, <1>2, PTL DEF SdioSpec

-----------------------------------------------------------------------------
\* sdio_load_data and the handler lose, repeat and reorder no byte and leak no
\* buffer, whatever the host does in between.
THEOREM SdioStaysInOrder == SdioSpec => []SdioInOrder
<1>1. SdioInv => SdioInOrder
  BY DEF SdioInv, Ordered, InOrder, SdioInOrder, Place, PlaceIn, FirstFree, First,
         Behind
<1> QED
  BY <1>1, SdioAlways, PTL

\* Bytes in a buffer are on offer to the host, or about to be, except in the
\* two stalls of this driver: a buffer sdio_load_data does not offer, and a
\* read whose event the handler's last lines cleared.
THEOREM SdioKeepsOffering == SdioSpec => []SdioOffered
<1>1. ASSUME SdioInv PROVE SdioOffered
  <2>1. CASE pHead_ToSend = <<>>
    <3>1. has_read = TRUE /\ First(pHead_Sended) = <<>>
      BY <1>1, <2>1 DEF SdioInv, Settled, NothingToSend
    <3>2. /\ pHead_Sended \in Seq(Seq(Nat))
          /\ \A i \in 2 .. Len(pHead_Sended) : pHead_Sended[i] = <<>>
      BY <1>1 DEF SdioInv, Ordered, Lists, InOrder
    <3>3. ASSUME NEW i \in 1 .. Len(pHead_Sended) PROVE pHead_Sended[i] = <<>>
      <4>1. CASE i = 1
        <5>1. pHead_Sended # <<>> /\ Head(pHead_Sended) = pHead_Sended[1]
          BY <3>2, <4>1
        <5> QED
          BY <3>1, <4>1, <5>1 DEF First
      <4>2. CASE i # 1
        <5>1. i \in 2 .. Len(pHead_Sended)
          BY <4>2
        <5> QED
          BY <3>2, <5>1
      <4> QED
        BY <4>1, <4>2
    <3> QED
      BY <2>1, <3>1, <3>3 DEF SdioOffered
  <2>2. CASE pHead_ToSend # <<>>
    BY <1>1, <2>2 DEF SdioInv, Settled, HeadOffered, HeadRead, WholeAtRest, NoneAtRest,
                      Seen, Lost, SdioOffered, Offered, Stalled
  <2> QED
    BY <2>1, <2>2
<1> QED
  BY <1>1, SdioAlways, PTL

=============================================================================
