------------------------- MODULE TcpFraming_proofs -------------------------
(***************************************************************************)
(* The bytes of a TCP connection, for any base, payloads, writers and      *)
(* bounds.                                                                 *)
(*                                                                         *)
(* ReadInv says how far the reader is in the frames that were sent, as     *)
(* long as no read was short: what is in front of it is a frame, or the    *)
(* payload whose size it has just read.  It gives the steps of the channel *)
(* and the cause of a death.  WriteInv says what the holder of m_mtx_write *)
(* has written of its frame.                                               *)
(***************************************************************************)
EXTENDS TcpFraming, TLAPS

-----------------------------------------------------------------------------
(* A size and its bytes.                                                   *)
LEMMA BaseFacts ==
  /\ Base \in Nat /\ Base > 1 /\ 0 \in Bytes /\ 1 \in Bytes /\ Bytes \subseteq Nat
  /\ Base \div 2 \in Nat /\ Base = 2 * (Base \div 2) /\ Base \div 2 > 0
  /\ Worth[1] = 1 /\ Worth[2] = Base
  /\ Worth[3] = Base * Base /\ Worth[4] = Base * Base * Base
BY FramingAssumption DEF Bytes, Worth

LEMMA WorthIsPositive == \A i \in 1..4 : Worth[i] \in Nat /\ Worth[i] > 0
<1>1. Base * Base \in Nat /\ Base * Base > 0
  BY BaseFacts
<1>2. Base * Base * Base \in Nat /\ Base * Base * Base > 0
  BY <1>1, BaseFacts
<1> QED
  BY <1>1, <1>2, BaseFacts

LEMMA Division ==
  ASSUME NEW n \in Nat, NEW m \in Nat, m > 0
  PROVE  /\ n \div m \in Nat /\ n % m \in Nat /\ n % m < m
         /\ n = m * (n \div m) + (n % m)
OBVIOUS

LEMMA DivisionIsUnique ==
  ASSUME NEW n \in Nat, NEW m \in Nat, m > 0, NEW q \in Nat, NEW r \in Nat, r < m, n = m * q + r
  PROVE  n \div m = q /\ n % m = r
OBVIOUS

LEMMA DivisionInSteps ==
  ASSUME NEW n \in Nat, NEW m \in Nat, m > 0, NEW k \in Nat, k > 0
  PROVE  (n \div m) \div k = n \div (m * k)
OBVIOUS

LEMMA Finite ==
  ASSUME NEW S, NEW n \in Nat, NEW f \in [1..n -> S]
  PROVE  f \in Seq(S) /\ Len(f) = n /\ DOMAIN f = 1..n
OBVIOUS

LEMMA Distributes ==
  ASSUME NEW k \in Int, NEW m \in Int, NEW n \in Int
  PROVE  k * (m + n) = k * m + k * n
OBVIOUS

LEMMA Associates ==
  ASSUME NEW k \in Int, NEW m \in Int, NEW n \in Int
  PROVE  k * (m * n) = (k * m) * n
OBVIOUS

LEMMA Product ==
  ASSUME NEW m \in Int, NEW n \in Int
  PROVE  m * n \in Int
OBVIOUS

(* The four bytes write sends of a size, read as an int32, are the size:   *)
(* so are those memcpy reads in the handler of a header.                   *)
THEOREM SizeSurvives ==
  ASSUME NEW n \in Nat, n < Base * Base * Base * (Base \div 2)
  PROVE  LET b == SizeBytes(n) IN
         /\ b \in [1..4 -> Bytes] /\ Len(b) = 4 /\ b \in Seq(Bytes)
         /\ Int32(b) = n
<1> DEFINE b == SizeBytes(n)
           q1 == n \div Base
           q2 == q1 \div Base
           q3 == q2 \div Base
<1>0. Base * Base \in Nat /\ Base * Base > 0 /\ Base * Base * Base \in Nat /\ Base * Base * Base > 0
  BY WorthIsPositive, BaseFacts
<1>1. q1 \in Nat /\ n = Base * q1 + (n % Base) /\ n % Base \in Nat /\ n % Base < Base
  BY BaseFacts, Division
<1>2. q2 \in Nat /\ q1 = Base * q2 + (q1 % Base) /\ q1 % Base \in Nat /\ q1 % Base < Base
  BY <1>1, BaseFacts, Division
<1>3. q3 \in Nat /\ q2 = Base * q3 + (q2 % Base) /\ q2 % Base \in Nat /\ q2 % Base < Base
  BY <1>2, BaseFacts, Division
<1>4. n \div 1 = n
  BY DivisionIsUnique
<1>5. n \div (Base * Base) = q2
  BY BaseFacts, DivisionInSteps
<1>6. n \div (Base * Base * Base) = q3
  BY <1>0, <1>5, BaseFacts, DivisionInSteps
<1>7. q3 < Base \div 2
  <2>1. n = (Base * Base * Base) * q3 + (n % (Base * Base * Base))
    BY <1>0, <1>6, Division
  <2>2. n % (Base * Base * Base) \in Nat
    BY <1>0, Division
  <2> DEFINE c == Base * Base * Base
  <2> HIDE DEF q3, c
  <2>3. c * q3 < c * (Base \div 2)
    BY <2>1, <2>2, <1>3, <1>0, BaseFacts DEF c
  <2>4. CASE q3 >= Base \div 2
    BY <2>3, <2>4, <1>0, <1>3, BaseFacts DEF c
  <2> QED
    BY <2>4, <1>3, BaseFacts
<1>8. q3 % Base = q3
  BY <1>3, <1>7, BaseFacts, DivisionIsUnique
<1> HIDE DEF q1, q2, q3
<1>9. /\ b = [i \in 1..4 |-> (n \div Worth[i]) % Base]
      /\ b[1] = n % Base /\ b[2] = q1 % Base /\ b[3] = q2 % Base /\ b[4] = q3
  BY <1>4, <1>5, <1>6, <1>8, BaseFacts DEF SizeBytes, q1
<1>10. b \in [1..4 -> Bytes] /\ Len(b) = 4 /\ b \in Seq(Bytes)
  <2>1. \A i \in 1..4 : b[i] \in Bytes
    BY <1>1, <1>2, <1>3, <1>7, <1>9, BaseFacts DEF Bytes
  <2>2. b \in [1..4 -> Bytes]
    BY <2>1, <1>9
  <2> QED
    BY <2>2, Finite
<1> HIDE DEF b
<1>11. n = b[1] + b[2] * Base + b[3] * (Base * Base) + b[4] * (Base * Base * Base)
  <2>0. b[1] \in Int /\ b[2] \in Int /\ b[3] \in Int /\ b[4] \in Int
    <3>1. b[1] \in Bytes /\ b[2] \in Bytes /\ b[3] \in Bytes /\ b[4] \in Bytes
      BY <1>10
    <3> QED
      BY <3>1, BaseFacts DEF Bytes
  <2>1. Base * q1 = Base * (Base * q2) + Base * b[2]
    <3>1. q1 = Base * q2 + b[2] /\ Base * q2 \in Int /\ Base \in Int
      BY <1>2, <1>9, BaseFacts
    <3> QED
      BY <3>1, <2>0, Distributes
  <2>2. (Base * Base) * q2 = (Base * Base) * (Base * q3) + (Base * Base) * b[3]
    <3>1. q2 = Base * q3 + b[3] /\ Base * q3 \in Int /\ Base * Base \in Int
      BY <1>0, <1>3, <1>9, BaseFacts
    <3> QED
      BY <3>1, <2>0, Distributes
  <2>3. Base * (Base * q2) = (Base * Base) * q2
        /\ (Base * Base) * (Base * q3) = (Base * Base * Base) * q3
    BY <1>0, <1>2, <1>3, BaseFacts, Associates
  <2>4. /\ Base * b[2] = b[2] * Base /\ (Base * Base) * b[3] = b[3] * (Base * Base)
        /\ (Base * Base * Base) * q3 = b[4] * (Base * Base * Base)
    BY <2>0, <1>0, <1>3, <1>9, BaseFacts
  <2>5. n = Base * q1 + b[1]
    BY <1>1, <1>9
  <2> DEFINE x == Base * q1
             y == (Base * Base) * q2
             t2 == b[2] * Base
             t3 == b[3] * (Base * Base)
             t4 == b[4] * (Base * Base * Base)
  <2>6. x = y + t2 /\ y = t4 + t3 /\ n = x + b[1]
    BY <2>1, <2>2, <2>3, <2>4, <2>5
  <2>7. x \in Int /\ y \in Int /\ t2 \in Int /\ t3 \in Int /\ t4 \in Int
    BY <2>0, <1>0, <1>1, <1>2, BaseFacts
  <2>8. n = b[1] + t2 + t3 + t4
    <3> HIDE DEF x, y, t2, t3, t4
    <3> QED
      BY <2>0, <2>6, <2>7
  <2> QED
    BY <2>8
<1> QED
  <2>1. ~(b[4] >= Base \div 2)
    BY <1>7, <1>9, <1>3, BaseFacts
  <2> QED
    BY <2>1, <1>10, <1>11, BaseFacts DEF Int32, b

-----------------------------------------------------------------------------
(* Sequences of bytes.                                                     *)
LEMMA Taken ==
  ASSUME NEW S, NEW s \in Seq(S), NEW t \in Seq(S)
  PROVE  /\ s \o t \in Seq(S) /\ Len(s \o t) = Len(s) + Len(t)
         /\ SubSeq(s \o t, 1, Len(s)) = s
         /\ SubSeq(s \o t, Len(s) + 1, Len(s \o t)) = t
OBVIOUS

LEMMA Grouped ==
  ASSUME NEW S, NEW s \in Seq(S), NEW t \in Seq(S), NEW u \in Seq(S)
  PROVE  (s \o t) \o u = s \o (t \o u)
OBVIOUS

LEMMA BytesGrouped ==
  \A x, y, z \in Seq(Bytes) : (x \o y) \o z = x \o (y \o z)
BY Grouped

LEMMA BytesTaken ==
  \A x, y \in Seq(Bytes) : /\ SubSeq(x \o y, 1, Len(x)) = x
                            /\ SubSeq(x \o y, Len(x) + 1, Len(x \o y)) = y
BY Taken

LEMMA NothingAdded ==
  ASSUME NEW S, NEW s \in Seq(S)
  PROVE  s \o <<>> = s /\ <<>> \o s = s /\ <<>> \in Seq(S)
OBVIOUS

LEMMA Appended ==
  ASSUME NEW S, NEW s \in Seq(S), NEW x \in S
  PROVE  Append(s, x) = [i \in 1..Len(s) + 1 |-> IF i = Len(s) + 1 THEN x ELSE s[i]]
<1> DEFINE a == Append(s, x)
           n == Len(s)
<1>1. n \in Nat /\ DOMAIN a = 1..n + 1 /\ a = [i \in 1..n + 1 |-> a[i]]
  <2>1. a \in Seq(S) /\ Len(a) = n + 1 /\ n \in Nat
    OBVIOUS
  <2> HIDE DEF a, n
  <2>2. DOMAIN a = 1..Len(a) /\ a = [i \in DOMAIN a |-> a[i]]
    BY <2>1
  <2> QED
    BY <2>1, <2>2
<1>2. a[n + 1] = x /\ \A i \in 1..n : a[i] = s[i]
  OBVIOUS
<1> HIDE DEF a, n
<1>3. \A i \in 1..n + 1 : a[i] = IF i = n + 1 THEN x ELSE s[i]
  <2> TAKE i \in 1..n + 1
  <2>1. i = n + 1 \/ (i \in 1..n /\ i # n + 1)
    BY <1>1
  <2> QED
    BY <2>1, <1>2
<1> QED
  BY <1>1, <1>3 DEF a, n

LEMMA EmptySeq == \A S : <<>> \in Seq(S)
OBVIOUS

LEMMA SeqElement ==
  ASSUME NEW S, NEW s \in Seq(S), NEW i \in 1..Len(s)
  PROVE  s[i] \in S
OBVIOUS

LEMMA Part ==
  ASSUME NEW S, NEW s \in Seq(S), NEW n \in 0..Len(s)
  PROVE  /\ SubSeq(s, 1, n) \in Seq(S) /\ Len(SubSeq(s, 1, n)) = n
         /\ SubSeq(s, n + 1, Len(s)) \in Seq(S)
         /\ Len(SubSeq(s, n + 1, Len(s))) = Len(s) - n
OBVIOUS

LEMMA ResizeType ==
  ASSUME NEW v \in Seq(Bytes), NEW n \in Nat
  PROVE  resize(v, n) \in Seq(Bytes) /\ Len(resize(v, n)) = n
<1>1. resize(v, n) = [i \in 1..n |-> IF i <= Len(v) THEN v[i] ELSE 0]
  BY DEF resize
<1>2. \A i \in 1..n : (IF i <= Len(v) THEN v[i] ELSE 0) \in Bytes
  <2> TAKE i \in 1..n
  <2>1. CASE i <= Len(v)
    BY <2>1, SeqElement
  <2>2. CASE ~(i <= Len(v))
    BY <2>2, BaseFacts
  <2> QED
    BY <2>1, <2>2
<1>3. resize(v, n) \in [1..n -> Bytes]
  BY <1>1, <1>2
<1> QED
  BY <1>3, Finite

LEMMA ResizeToItself ==
  ASSUME NEW v \in Seq(Bytes)
  PROVE  resize(v, Len(v)) = v
<1>1. Len(v) \in Nat /\ DOMAIN v = 1..Len(v) /\ v = [i \in 1..Len(v) |-> v[i]]
  OBVIOUS
<1> QED
  BY <1>1 DEF resize

LEMMA FilledType ==
  ASSUME NEW v \in Seq(Bytes), NEW b \in Seq(Bytes)
  PROVE  Filled(v, b) \in Seq(Bytes) /\ Len(Filled(v, b)) = Len(v)
<1>1. Len(v) \in Nat /\ DOMAIN v = 1..Len(v)
  OBVIOUS
<1>2. Filled(v, b) = [i \in 1..Len(v) |-> IF i <= Len(b) THEN b[i] ELSE v[i]]
  BY <1>1 DEF Filled
<1>3. \A i \in 1..Len(v) : (IF i <= Len(b) THEN b[i] ELSE v[i]) \in Bytes
  <2> TAKE i \in 1..Len(v)
  <2>1. CASE i <= Len(b)
    BY <2>1, SeqElement
  <2>2. CASE ~(i <= Len(b))
    BY <2>2, SeqElement
  <2> QED
    BY <2>1, <2>2
<1>4. Filled(v, b) \in [1..Len(v) -> Bytes]
  BY <1>2, <1>3
<1> QED
  BY <1>1, <1>4, Finite

LEMMA FilledWhole ==
  ASSUME NEW v \in Seq(Bytes), NEW b \in Seq(Bytes), Len(b) = Len(v)
  PROVE  Filled(v, b) = b
<1>1. Len(v) \in Nat /\ DOMAIN v = 1..Len(v) /\ b = [i \in 1..Len(b) |-> b[i]]
  OBVIOUS
<1> QED
  BY <1>1 DEF Filled

LEMMA InvertType ==
  ASSUME NEW v \in Seq(Bytes), Len(v) = 5
  PROVE  InvertBytes(v) \in Seq(Bytes) /\ Len(InvertBytes(v)) = 5
<1>1. DOMAIN v = 1..5
  OBVIOUS
<1>2. InvertBytes(v) = [i \in 1..5 |-> IF i = 1 \/ v[1] = 0 THEN v[i] ELSE v[7 - i]]
  BY <1>1 DEF InvertBytes
<1>3. \A i \in 1..5 : (IF i = 1 \/ v[1] = 0 THEN v[i] ELSE v[7 - i]) \in Bytes
  <2> TAKE i \in 1..5
  <2>1. CASE i = 1 \/ v[1] = 0
    BY <2>1, SeqElement
  <2>2. CASE ~(i = 1 \/ v[1] = 0)
    <3>1. 7 - i \in 1..5
      BY <2>2
    <3> QED
      BY <2>2, <3>1, SeqElement
  <2> QED
    BY <2>1, <2>2
<1>4. InvertBytes(v) \in [1..5 -> Bytes]
  BY <1>2, <1>3
<1> QED
  BY <1>4, Finite

LEMMA SizeIsInt ==
  ASSUME NEW v \in Seq(Bytes), Len(v) = 5
  PROVE  Int32(SubSeq(v, 2, 5)) \in Int
<1> DEFINE b == SubSeq(v, 2, 5)
<1>1. b[1] = v[2] /\ b[2] = v[3] /\ b[3] = v[4] /\ b[4] = v[5]
  OBVIOUS
<1>2. v[2] \in Bytes /\ v[3] \in Bytes /\ v[4] \in Bytes /\ v[5] \in Bytes
  <2>1. \A i \in 1..5 : v[i] \in Bytes
    BY SeqElement
  <2> QED
    BY <2>1
<1> HIDE DEF b
<1>3. b[1] \in Int /\ b[2] \in Int /\ b[3] \in Int /\ b[4] \in Int
  BY <1>1, <1>2, BaseFacts DEF Bytes
<1>4. Worth[2] \in Int /\ Worth[3] \in Int /\ Worth[4] \in Int /\ Base \in Int
  BY WorthIsPositive, BaseFacts
<1> DEFINE x == b[2] * Worth[2]
           y == b[3] * Worth[3]
           z == b[4] * Worth[4]
           m == Base * Worth[4]
<1>5. x \in Int /\ y \in Int /\ z \in Int /\ m \in Int
  BY <1>3, <1>4, Product
<1>6. Int32(b) = LET n == b[1] + x + y + z IN IF b[4] >= Base \div 2 THEN n - m ELSE n
  BY DEF Int32
<1> HIDE DEF x, y, z, m
<1>7. Int32(b) \in Int
  BY <1>3, <1>5, <1>6
<1> QED
  BY <1>7 DEF b

HeaderOf(p, invert) ==
  <<IF invert THEN 1 ELSE 0>>
    \o (IF invert THEN Reverse(SizeBytes(Len(p))) ELSE SizeBytes(Len(p)))

LEMMA PayloadFits ==
  ASSUME NEW p \in Payloads \cup Replies
  PROVE  p \in Seq(Bytes) /\ Len(p) \in Nat /\ Len(p) < Base * Base * Base * (Base \div 2)
BY FramingAssumption

(* The header of a peer's frame gives the size of the payload behind it,   *)
(* whichever order of bytes its first byte announces: the swaps of the     *)
(* handler undo the peer's.                                                *)
THEOREM HeaderGivesSize ==
  ASSUME NEW p \in Payloads, NEW invert \in BOOLEAN
  PROVE  LET h == HeaderOf(p, invert) IN
         /\ h \in Seq(Bytes) /\ Len(h) = 5
         /\ PeerFrame(p, invert) = h \o p
         /\ Int32(SubSeq(InvertBytes(h), 2, 5)) = Len(p)
<1> DEFINE h == HeaderOf(p, invert)
           b == SizeBytes(Len(p))
           f == IF invert THEN 1 ELSE 0
           r == IF invert THEN Reverse(b) ELSE b
<1>1. b \in [1..4 -> Bytes] /\ Len(b) = 4 /\ b \in Seq(Bytes) /\ Int32(b) = Len(p)
  BY PayloadFits, SizeSurvives
<1> HIDE DEF b
<1>2. Reverse(b) = [i \in 1..4 |-> b[5 - i]]
  <2>1. \A i \in 1..4 : 4 - i + 1 = 5 - i
    OBVIOUS
  <2> QED
    BY <1>1, <2>1 DEF Reverse
<1>3. \A i \in 1..4 : b[i] \in Bytes /\ b[5 - i] \in Bytes
  BY <1>1
<1>4. r \in [1..4 -> Bytes]
  BY <1>1, <1>2, <1>3
<1>5. r \in Seq(Bytes) /\ Len(r) = 4
  BY <1>4, Finite
<1>6. f \in Bytes /\ <<f>> \in Seq(Bytes) /\ Len(<<f>>) = 1
  BY BaseFacts
<1>7. h = <<f>> \o r
  BY DEF HeaderOf, b
<1>8. h \in Seq(Bytes) /\ Len(h) = 5
  BY <1>5, <1>6, <1>7
<1>9. PeerFrame(p, invert) = h \o p
  BY DEF PeerFrame, HeaderOf
<1>10. h[1] = f /\ h[2] = r[1] /\ h[3] = r[2] /\ h[4] = r[3] /\ h[5] = r[4]
  BY <1>5, <1>6, <1>7
<1> DEFINE v == InvertBytes(h)
<1>11. /\ DOMAIN h = 1..5
       /\ v[2] = (IF f = 0 THEN h[2] ELSE h[5]) /\ v[3] = (IF f = 0 THEN h[3] ELSE h[4])
       /\ v[4] = (IF f = 0 THEN h[4] ELSE h[3]) /\ v[5] = (IF f = 0 THEN h[5] ELSE h[2])
  BY <1>8, <1>10 DEF InvertBytes
<1>12. v[2] = b[1] /\ v[3] = b[2] /\ v[4] = b[3] /\ v[5] = b[4]
  BY <1>2, <1>10, <1>11
<1>13. v \in Seq(Bytes) /\ Len(v) = 5
  BY <1>8, InvertType
<1>14. SubSeq(v, 2, 5) = [i \in 1..4 |-> v[i + 1]]
  BY <1>13
<1>15. SubSeq(v, 2, 5) = b
  <2> HIDE DEF v
  <2>1. \A i \in 1..4 : v[i + 1] = b[i]
    BY <1>12
  <2>2. b = [i \in 1..4 |-> b[i]]
    BY <1>1
  <2> QED
    BY <1>14, <2>1, <2>2
<1> QED
  BY <1>1, <1>8, <1>9, <1>15

LEMMA PeerFrameType ==
  ASSUME NEW p \in Payloads, NEW invert \in BOOLEAN
  PROVE  PeerFrame(p, invert) \in Seq(Bytes)
<1>1. p \in Seq(Bytes)
  BY PayloadFits
<1>2. HeaderOf(p, invert) \in Seq(Bytes) /\ PeerFrame(p, invert) = HeaderOf(p, invert) \o p
  BY HeaderGivesSize
<1> QED
  BY <1>1, <1>2, Taken

-----------------------------------------------------------------------------
(* Typing                                                                  *)
readerVars == <<sent, inbound, b_w_header, m_payload_size, m_rx_b, delivered, whole>>

ReaderTypeOK ==
  /\ sent \in Seq(Payloads) /\ inbound \in Seq(Bytes) /\ delivered \in Seq(Seq(Bytes))
  /\ b_w_header \in BOOLEAN /\ m_payload_size \in Int /\ m_rx_b \in Seq(Bytes)
  /\ whole \in BOOLEAN /\ open \in BOOLEAN /\ peer \in BOOLEAN /\ dead \in BOOLEAN
  /\ ~dead => Len(m_rx_b) = m_payload_size /\ (b_w_header => m_payload_size = HEADER_SIZE)

WriterTypeOK ==
  /\ failed \in BOOLEAN /\ cut \in BOOLEAN
  /\ m_mtx_write \in Writers \cup {Nobody}
  /\ pc \in [Writers -> Places] /\ reply \in [Writers -> Replies]
  /\ began \in Seq(Replies) /\ out \in Seq(Bytes)

LEMMA TypeParts == FramingTypeOK <=> ReaderTypeOK /\ WriterTypeOK
BY DEF FramingTypeOK, ReaderTypeOK, WriterTypeOK

LEMMA FramingInitTyped == FramingInit => FramingTypeOK
<1> SUFFICES ASSUME FramingInit PROVE FramingTypeOK
  OBVIOUS
<1>1. m_rx_b \in Seq(Bytes) /\ Len(m_rx_b) = 5
  <2>1. m_rx_b \in [1..5 -> Bytes]
    BY BaseFacts DEF FramingInit, HEADER_SIZE
  <2> QED
    BY <2>1, Finite
<1>2. ReaderTypeOK
  <2>1. /\ sent = <<>> /\ inbound = <<>> /\ delivered = <<>>
        /\ b_w_header = TRUE /\ m_payload_size = 5
        /\ whole = TRUE /\ open = TRUE /\ peer = TRUE /\ dead = FALSE
    BY DEF FramingInit, HEADER_SIZE
  <2>2. sent \in Seq(Payloads) /\ inbound \in Seq(Bytes) /\ delivered \in Seq(Seq(Bytes))
    BY <2>1, EmptySeq
  <2>3. ~dead => Len(m_rx_b) = m_payload_size /\ (b_w_header => m_payload_size = HEADER_SIZE)
    BY <2>1, <1>1 DEF HEADER_SIZE
  <2>4. /\ b_w_header \in BOOLEAN /\ whole \in BOOLEAN /\ open \in BOOLEAN
        /\ peer \in BOOLEAN /\ dead \in BOOLEAN
    BY <2>1
  <2>5. m_payload_size \in Int
    BY <2>1
  <2> QED
    BY <1>1, <2>2, <2>3, <2>4, <2>5 DEF ReaderTypeOK
<1>3. WriterTypeOK
  BY EmptySeq DEF FramingInit, WriterTypeOK, Places
<1> QED
  BY <1>2, <1>3, TypeParts

(* What each read does.                                                    *)
LEMMA BringTyped ==
  ASSUME FramingTypeOK, NEW n \in 1..Len(inbound), Bring(n)
  PROVE  /\ ~dead /\ open /\ n <= m_payload_size /\ m_payload_size \in Nat
         /\ Len(m_rx_b) = m_payload_size
         /\ SubSeq(inbound, 1, n) \in Seq(Bytes) /\ Len(SubSeq(inbound, 1, n)) = n
         /\ inbound' = SubSeq(inbound, n + 1, Len(inbound)) /\ inbound' \in Seq(Bytes)
         /\ whole' = (whole /\ n = m_payload_size) /\ whole' \in BOOLEAN
<1>1. /\ ~dead /\ open /\ n <= m_payload_size /\ m_payload_size \in Nat
      /\ Len(m_rx_b) = m_payload_size /\ inbound \in Seq(Bytes) /\ whole \in BOOLEAN
  BY DEF Bring, Alive, FramingTypeOK
<1>2. inbound' = SubSeq(inbound, n + 1, Len(inbound)) /\ whole' = (whole /\ n = m_payload_size)
  BY DEF Bring
<1>3. n \in 0..Len(inbound)
  BY <1>1
<1> QED
  BY <1>1, <1>2, <1>3, Part

LEMMA HeaderReceivedTyped ==
  ASSUME FramingTypeOK, NEW n \in 1..Len(inbound), HeaderReceived(n)
  PROVE  FramingTypeOK'
<1> DEFINE header == InvertBytes(Filled(m_rx_b, SubSeq(inbound, 1, n)))
           size == Int32(SubSeq(header, 2, 5))
<1>1. Bring(n) /\ b_w_header
  BY DEF HeaderReceived
<1>2. /\ Len(m_rx_b) = 5 /\ m_rx_b \in Seq(Bytes)
      /\ SubSeq(inbound, 1, n) \in Seq(Bytes) /\ inbound' \in Seq(Bytes) /\ whole' \in BOOLEAN
  BY <1>1, BringTyped DEF FramingTypeOK, HEADER_SIZE
<1>3. header \in Seq(Bytes) /\ Len(header) = 5
  BY <1>2, FilledType, InvertType
<1>4. size \in Int
  BY <1>3, SizeIsInt
<1>5. /\ b_w_header' = FALSE /\ m_payload_size' = size /\ dead' = (size < 0)
      /\ m_rx_b' = IF size < 0 THEN header ELSE resize(header, size)
      /\ UNCHANGED <<sent, delivered, peer, writing, open>>
  BY DEF HeaderReceived
<1> HIDE DEF header, size
<1>6. m_rx_b' \in Seq(Bytes) /\ (~dead' => Len(m_rx_b') = size)
  <2>1. CASE size < 0
    BY <2>1, <1>3, <1>5
  <2>2. CASE ~(size < 0)
    BY <2>2, <1>3, <1>4, <1>5, ResizeType
  <2> QED
    BY <2>1, <2>2
<1>7. ReaderTypeOK'
  <2>1. dead' \in BOOLEAN /\ m_payload_size' \in Int
    BY <1>4, <1>5
  <2> QED
    BY <2>1, <1>2, <1>5, <1>6 DEF FramingTypeOK, ReaderTypeOK
<1>8. WriterTypeOK'
  BY <1>5, TypeParts DEF WriterTypeOK, writing
<1> QED
  BY <1>7, <1>8, TypeParts DEF FramingTypeOK, ReaderTypeOK, WriterTypeOK

LEMMA PayloadReceivedTyped ==
  ASSUME FramingTypeOK, NEW n \in 1..Len(inbound), PayloadReceived(n)
  PROVE  FramingTypeOK'
<1> DEFINE buffer == Filled(m_rx_b, SubSeq(inbound, 1, n))
<1>1. Bring(n) /\ ~b_w_header
  BY DEF PayloadReceived
<1>2. /\ m_payload_size \in Nat /\ m_rx_b \in Seq(Bytes) /\ delivered \in Seq(Seq(Bytes))
      /\ SubSeq(inbound, 1, n) \in Seq(Bytes) /\ inbound' \in Seq(Bytes) /\ whole' \in BOOLEAN
  BY <1>1, BringTyped DEF FramingTypeOK
<1>3. buffer \in Seq(Bytes)
  BY <1>2, FilledType
<1>4. /\ b_w_header' = TRUE /\ m_payload_size' = 5 /\ m_rx_b' = resize(buffer, 5)
      /\ delivered' = IF whole' THEN Append(delivered, resize(buffer, m_payload_size))
                                ELSE delivered
      /\ UNCHANGED <<sent, peer, dead, writing, open>>
  BY DEF PayloadReceived, NextHeader, View, HEADER_SIZE
<1> HIDE DEF buffer
<1>5. m_rx_b' \in Seq(Bytes) /\ Len(m_rx_b') = 5
  BY <1>3, <1>4, ResizeType
<1>6. delivered' \in Seq(Seq(Bytes))
  <2>1. resize(buffer, m_payload_size) \in Seq(Bytes)
    BY <1>2, <1>3, ResizeType
  <2> QED
    BY <2>1, <1>2, <1>4
<1>7. ReaderTypeOK'
  BY <1>2, <1>4, <1>5, <1>6 DEF FramingTypeOK, ReaderTypeOK, HEADER_SIZE
<1>8. WriterTypeOK'
  BY <1>4, TypeParts DEF WriterTypeOK, writing
<1> QED
  BY <1>7, <1>8 DEF FramingTypeOK, ReaderTypeOK, WriterTypeOK

(* The writes change what a write is about, the place of one thread and,   *)
(* at the end, the socket.                                                 *)
LEMMA WriteSomeDoes ==
  ASSUME FramingTypeOK, NEW w \in Writers, NEW bytes \in Seq(Bytes), NEW from, NEW to \in Places,
         WriteSome(w, bytes, from, to)
  PROVE  /\ ~dead /\ pc[w] = from /\ pc' = [pc EXCEPT ![w] = to]
         /\ UNCHANGED <<reading, m_mtx_write, reply, began, open>>
         /\ \/ /\ open /\ ~failed /\ UNCHANGED failed /\ cut' \in BOOLEAN /\ (cut => cut')
               /\ out' = IF cut' THEN <<>> ELSE out \o bytes
            \/ failed' = TRUE /\ UNCHANGED <<out, cut>>
         /\ failed' \in BOOLEAN /\ cut' \in BOOLEAN /\ out' \in Seq(Bytes)
<1>1. /\ ~dead /\ pc[w] = from /\ pc' = [pc EXCEPT ![w] = to]
      /\ UNCHANGED <<reading, m_mtx_write, reply, began, open>>
  BY DEF WriteSome, Goto
<1>2. cut \in BOOLEAN /\ failed \in BOOLEAN /\ out \in Seq(Bytes)
  BY DEF FramingTypeOK
<1>3. CASE open /\ ~failed /\ UNCHANGED failed
           /\ (\E n \in 1..Len(bytes) : cut' = (cut \/ n < Len(bytes)))
           /\ out' = IF cut' THEN <<>> ELSE out \o bytes
  <2>1. cut' \in BOOLEAN /\ (cut => cut')
    BY <1>2, <1>3
  <2>2. out' \in Seq(Bytes)
    BY <1>2, <1>3, Taken, NothingAdded
  <2> QED
    BY <1>1, <1>2, <1>3, <2>1, <2>2
<1>4. CASE failed' = TRUE /\ UNCHANGED <<out, cut>>
  BY <1>1, <1>2, <1>4
<1> QED
  BY <1>3, <1>4 DEF WriteSome

LEMMA WriteSomeTyped ==
  ASSUME FramingTypeOK, NEW w \in Writers, NEW bytes \in Seq(Bytes), NEW from, NEW to \in Places,
         WriteSome(w, bytes, from, to)
  PROVE  FramingTypeOK'
<1>1. /\ pc' = [pc EXCEPT ![w] = to] /\ UNCHANGED <<reading, m_mtx_write, reply, began, open>>
      /\ failed' \in BOOLEAN /\ cut' \in BOOLEAN /\ out' \in Seq(Bytes)
  BY WriteSomeDoes
<1>2. ReaderTypeOK'
  BY <1>1 DEF reading, FramingTypeOK, ReaderTypeOK
<1>3. WriterTypeOK'
  BY <1>1 DEF FramingTypeOK, WriterTypeOK
<1> QED
  BY <1>2, <1>3 DEF FramingTypeOK, ReaderTypeOK, WriterTypeOK

LEMMA ReplyType ==
  ASSUME FramingTypeOK, NEW w \in Writers
  PROVE  /\ reply[w] \in Replies /\ reply[w] \in Seq(Bytes) /\ <<0>> \in Seq(Bytes)
         /\ SizeBytes(Len(reply[w])) \in Seq(Bytes)
         /\ ServerFrame(reply[w]) \in Seq(Bytes)
<1>1. reply[w] \in Replies
  BY DEF FramingTypeOK
<1>2. reply[w] \in Seq(Bytes) /\ SizeBytes(Len(reply[w])) \in Seq(Bytes)
  BY <1>1, PayloadFits, SizeSurvives
<1>3. <<0>> \in Seq(Bytes)
  BY BaseFacts
<1>4. <<0>> \o SizeBytes(Len(reply[w])) \in Seq(Bytes)
  BY <1>2, <1>3, Taken
<1>5. ServerFrame(reply[w]) \in Seq(Bytes)
  BY <1>2, <1>4, Taken DEF ServerFrame
<1> QED
  BY <1>1, <1>2, <1>3, <1>5

LEMMA StartWriteDoes ==
  ASSUME FramingTypeOK, NEW w \in Writers, StartWrite(w)
  PROVE  /\ Alive /\ pc[w] = "idle" /\ m_mtx_write = Nobody /\ m_mtx_write' = w
         /\ pc' = [pc EXCEPT ![w] = "flag"]
         /\ \E p \in Replies : reply' = [reply EXCEPT ![w] = p] /\ began' = Append(began, p)
         /\ UNCHANGED <<reading, out, failed, cut, open>>
<1>1. PICK p \in Replies : reply' = [reply EXCEPT ![w] = p] /\ began' = Append(began, reply'[w])
  BY DEF StartWrite
<1>2. reply'[w] = p
  BY <1>1 DEF FramingTypeOK
<1> QED
  BY <1>1, <1>2 DEF StartWrite, Goto, Locks

LEMMA EndWriteDoes ==
  ASSUME FramingTypeOK, NEW w \in Writers, EndWrite(w)
  PROVE  /\ ~dead /\ pc[w] = "end" /\ pc' = [pc EXCEPT ![w] = "idle"] /\ m_mtx_write' = Nobody
         /\ open' \in BOOLEAN /\ (open' => open /\ ~failed)
         /\ UNCHANGED <<reading, reply, began, out, failed, cut>>
<1>1. PICK c \in BOOLEAN : open' = (open /\ ~MustClose(c))
  BY DEF EndWrite
<1> QED
  BY <1>1 DEF EndWrite, Goto, MustClose, FramingTypeOK

LEMMA FramingStepTyped ==
  ASSUME FramingTypeOK, FramingNext
  PROVE  FramingTypeOK'
<1>1. CASE PeerSends
  <2>1. PICK p \in Payloads, invert \in BOOLEAN :
           sent' = Append(sent, p) /\ inbound' = inbound \o PeerFrame(p, invert)
    BY <1>1 DEF PeerSends
  <2>2. UNCHANGED <<b_w_header, m_payload_size, m_rx_b, delivered, whole, peer, dead,
                  writing, open>>
    BY <1>1 DEF PeerSends
  <2>3. sent' \in Seq(Payloads)
    BY <2>1 DEF FramingTypeOK
  <2>4. inbound' \in Seq(Bytes)
    BY <2>1, PeerFrameType, Taken DEF FramingTypeOK
  <2>5. ReaderTypeOK' /\ WriterTypeOK'
    BY <2>2, <2>3, <2>4 DEF writing, FramingTypeOK, ReaderTypeOK, WriterTypeOK
  <2> QED
    BY <2>5 DEF FramingTypeOK, ReaderTypeOK, WriterTypeOK
<1>2. CASE PeerLeaves
  BY <1>2 DEF PeerLeaves, writing, FramingTypeOK
<1>3. CASE ReadSome
  BY <1>3, HeaderReceivedTyped, PayloadReceivedTyped DEF ReadSome
<1>4. CASE EmptyPayload
  BY <1>4 DEF EmptyPayload, writing, FramingTypeOK
<1>5. CASE ReadError
  BY <1>5 DEF ReadError, reading, writing, FramingTypeOK
<1>6. ASSUME NEW w \in Writers, StartWrite(w)
      PROVE  FramingTypeOK'
  <2>1. PICK p \in Replies : reply' = [reply EXCEPT ![w] = p] /\ began' = Append(began, p)
    BY <1>6, StartWriteDoes
  <2>2. /\ m_mtx_write' = w /\ pc' = [pc EXCEPT ![w] = "flag"]
        /\ UNCHANGED <<reading, out, failed, cut, open>>
    BY <1>6, StartWriteDoes
  <2>3. began' \in Seq(Replies) /\ reply' \in [Writers -> Replies] /\ pc' \in [Writers -> Places]
    BY <2>1, <2>2 DEF FramingTypeOK, Places
  <2>4. ReaderTypeOK' /\ WriterTypeOK'
    BY <2>2, <2>3 DEF reading, FramingTypeOK, ReaderTypeOK, WriterTypeOK
  <2> QED
    BY <2>4 DEF FramingTypeOK, ReaderTypeOK, WriterTypeOK
<1>7. ASSUME NEW w \in Writers, WriteFlag(w) \/ WriteSize(w) \/ WriteData(w)
      PROVE  FramingTypeOK'
  <2>1. "size" \in Places /\ "data" \in Places /\ "end" \in Places
    BY DEF Places
  <2> QED
    BY <1>7, <2>1, WriteSomeTyped, ReplyType DEF WriteFlag, WriteSize, WriteData
<1>8. ASSUME NEW w \in Writers, EndWrite(w)
      PROVE  FramingTypeOK'
  <2>1. /\ m_mtx_write' = Nobody /\ pc' = [pc EXCEPT ![w] = "idle"] /\ open' \in BOOLEAN
        /\ UNCHANGED <<reading, reply, began, out, failed, cut>>
    BY <1>8, EndWriteDoes
  <2>2. ReaderTypeOK' /\ WriterTypeOK'
    BY <2>1 DEF reading, FramingTypeOK, ReaderTypeOK, WriterTypeOK, Places
  <2> QED
    BY <2>2 DEF FramingTypeOK, ReaderTypeOK, WriterTypeOK
<1> QED
  BY <1>1, <1>2, <1>3, <1>4, <1>5, <1>6, <1>7, <1>8 DEF FramingNext, read, GoOn

LEMMA FramingSteps == FramingSpec => FramingInit /\ [][FramingNext]_vars
BY PTL DEF FramingSpec

LEMMA FramingStutters == FramingTypeOK /\ UNCHANGED vars => FramingTypeOK'
BY DEF FramingTypeOK, vars, reading, writing

(* The types, and that the buffer read() hands to Asio has the length that *)
(* was asked for.                                                          *)
THEOREM FramingTypeCorrect == FramingSpec => []FramingTypeOK
<1>1. FramingTypeOK /\ [FramingNext]_vars => FramingTypeOK'
  BY FramingStepTyped, FramingStutters
<1> QED
  BY <1>1, FramingInitTyped, FramingSteps, PTL

-----------------------------------------------------------------------------
(* What is on its way.  Of stream, tail[j] is what is left when the frames *)
(* up to the one before j have been taken.                                 *)
FramesFrom(frames, k, stream) ==
  \E tail \in [k..Len(frames) + 1 -> Seq(Bytes)] :
    /\ tail[k] = stream /\ tail[Len(frames) + 1] = <<>>
    /\ \A j \in k..Len(frames) : \E invert \in BOOLEAN :
         tail[j] = PeerFrame(frames[j], invert) \o tail[j + 1]

LEMMA NoFrames ==
  ASSUME NEW frames \in Seq(Payloads)
  PROVE  FramesFrom(frames, Len(frames) + 1, <<>>)
<1> DEFINE k == Len(frames) + 1
           tail == [j \in k..k |-> <<>>]
<1>1. tail \in [k..k -> Seq(Bytes)] /\ tail[k] = <<>> /\ k..Len(frames) = {}
  BY EmptySeq
<1> QED
  BY <1>1 DEF FramesFrom

LEMMA FirstFrame ==
  ASSUME NEW frames \in Seq(Payloads), NEW k \in 1..Len(frames) + 1, NEW stream \in Seq(Bytes),
         FramesFrom(frames, k, stream), Len(stream) > 0
  PROVE  /\ k <= Len(frames)
         /\ \E invert \in BOOLEAN, rest \in Seq(Bytes) :
              /\ stream = PeerFrame(frames[k], invert) \o rest
              /\ FramesFrom(frames, k + 1, rest)
<1>1. PICK tail \in [k..Len(frames) + 1 -> Seq(Bytes)] :
        /\ tail[k] = stream /\ tail[Len(frames) + 1] = <<>>
        /\ \A j \in k..Len(frames) : \E invert \in BOOLEAN :
             tail[j] = PeerFrame(frames[j], invert) \o tail[j + 1]
  BY DEF FramesFrom
<1>2. Len(frames) \in Nat
  OBVIOUS
<1>3. k <= Len(frames)
  <2>1. CASE k = Len(frames) + 1
    BY <2>1, <1>1
  <2> QED
    BY <2>1, <1>2
<1>a. k \in Nat /\ k \in k..Len(frames) /\ k + 1 \in k..Len(frames) + 1
  BY <1>2, <1>3
<1>4. PICK invert \in BOOLEAN : tail[k] = PeerFrame(frames[k], invert) \o tail[k + 1]
  BY <1>1, <1>a
<1> DEFINE rest == tail[k + 1]
           t == [j \in k + 1..Len(frames) + 1 |-> tail[j]]
<1>5. rest \in Seq(Bytes) /\ t \in [k + 1..Len(frames) + 1 -> Seq(Bytes)]
  <2>1. \A j \in k + 1..Len(frames) + 1 : j \in k..Len(frames) + 1
    BY <1>2, <1>a
  <2> QED
    BY <2>1, <1>a
<1>6. t[k + 1] = rest /\ t[Len(frames) + 1] = <<>>
  BY <1>1, <1>2, <1>3
<1>7. \A j \in k + 1..Len(frames) : \E i \in BOOLEAN : t[j] = PeerFrame(frames[j], i) \o t[j + 1]
  <2> TAKE j \in k + 1..Len(frames)
  <2>1. j \in k..Len(frames) /\ t[j] = tail[j] /\ t[j + 1] = tail[j + 1]
    BY <1>2
  <2> QED
    BY <2>1, <1>1
<1>8. FramesFrom(frames, k + 1, rest)
  <2> HIDE DEF t, rest
  <2> QED
    BY <1>5, <1>6, <1>7 DEF FramesFrom
<1> QED
  BY <1>1, <1>3, <1>4, <1>5, <1>8

LEMMA OneFrameMore ==
  ASSUME NEW frames \in Seq(Payloads), NEW k \in 1..Len(frames) + 1, NEW stream \in Seq(Bytes),
         FramesFrom(frames, k, stream), NEW p \in Payloads, NEW invert \in BOOLEAN
  PROVE  FramesFrom(Append(frames, p), k, stream \o PeerFrame(p, invert))
<1> DEFINE new == PeerFrame(p, invert)
           n == Len(frames)
           more == Append(frames, p)
<1>1. PICK tail \in [k..n + 1 -> Seq(Bytes)] :
        /\ tail[k] = stream /\ tail[n + 1] = <<>>
        /\ \A j \in k..n : \E i \in BOOLEAN :
             tail[j] = PeerFrame(frames[j], i) \o tail[j + 1]
  BY DEF FramesFrom
<1>2. new \in Seq(Bytes)
  BY PeerFrameType
<1> HIDE DEF new
<1>3. /\ n \in Nat /\ Len(more) = n + 1 /\ more[n + 1] = p
      /\ \A j \in 1..n : more[j] = frames[j]
  OBVIOUS
<1> HIDE DEF more, n
<1> DEFINE t == [j \in k..n + 2 |-> IF j = n + 2 THEN <<>> ELSE tail[j] \o new]
<1>4. t \in [k..n + 2 -> Seq(Bytes)]
  <2>1. \A j \in k..n + 2 : (IF j = n + 2 THEN <<>> ELSE tail[j] \o new) \in Seq(Bytes)
    <3> TAKE j \in k..n + 2
    <3>1. CASE j = n + 2
      BY <3>1, EmptySeq
    <3>2. CASE j # n + 2
      <4>1. j \in k..n + 1
        BY <3>2, <1>3
      <4>2. tail[j] \in Seq(Bytes)
        BY <4>1
      <4> QED
        BY <3>2, <4>2, <1>2, Taken
    <3> QED
      BY <3>1, <3>2
  <2> QED
    BY <2>1
<1>5. /\ t[k] = stream \o new /\ t[n + 2] = <<>>
      /\ \A j \in k..n + 1 : t[j] = tail[j] \o new
  <2>1. k \in Nat /\ k <= n + 1
    BY DEF n
  <2>2. n + 2 \in k..n + 2 /\ k \in k..n + 1
    BY <2>1, <1>3
  <2>3. \A j \in k..n + 1 : j \in k..n + 2 /\ j # n + 2
    BY <2>1, <1>3
  <2>4. \A j \in k..n + 1 : t[j] = tail[j] \o new
    BY <2>3
  <2> QED
    BY <2>2, <2>4, <1>1
<1> HIDE DEF t
<1>6. \A j \in k..n + 1 : \E i \in BOOLEAN : t[j] = PeerFrame(more[j], i) \o t[j + 1]
  <2> TAKE j \in k..n + 1
  <2>0. k \in Nat /\ k >= 1 /\ k <= n + 1
    BY <1>3 DEF n
  <2>1. CASE j = n + 1
    <3>1. t[j] = <<>> \o new /\ t[j + 1] = <<>>
      <4>1. j + 1 = n + 2
        BY <2>1, <1>3
      <4> QED
        BY <4>1, <2>1, <1>1, <1>5
    <3>2. t[j] = new \o <<>>
      BY <3>1, <1>2, NothingAdded
    <3> QED
      BY <2>1, <3>1, <3>2, <1>3 DEF new
  <2>2. CASE j # n + 1
    <3>1. j \in k..n /\ j \in 1..n /\ j + 1 \in k..n + 1
      BY <2>0, <2>2, <1>3
    <3>2. PICK i \in BOOLEAN : tail[j] = PeerFrame(frames[j], i) \o tail[j + 1]
      BY <3>1, <1>1
    <3>3. PeerFrame(frames[j], i) \in Seq(Bytes) /\ tail[j + 1] \in Seq(Bytes)
      <4>1. frames[j] \in Payloads
        BY <3>1, SeqElement DEF n
      <4> QED
        BY <4>1, <3>1, PeerFrameType
    <3>4. t[j] = (PeerFrame(frames[j], i) \o tail[j + 1]) \o new
      BY <3>2, <1>5
    <3>5. t[j] = PeerFrame(frames[j], i) \o (tail[j + 1] \o new)
      <4> DEFINE x == PeerFrame(frames[j], i)
                 y == tail[j + 1]
      <4>1. x \in Seq(Bytes) /\ y \in Seq(Bytes) /\ t[j] = (x \o y) \o new
        BY <3>3, <3>4
      <4> HIDE DEF x, y
      <4>2. t[j] = x \o (y \o new)
        <5>1. (x \o y) \o new = x \o (y \o new)
          BY <4>1, <1>2, BytesGrouped
        <5> QED
          BY <5>1, <4>1
      <4> QED
        BY <4>2 DEF x, y
    <3> QED
      BY <3>1, <3>5, <1>3, <1>5
  <2> QED
    BY <2>1, <2>2
<1>7. Len(more) + 1 = n + 2
  BY <1>3
<1>8. FramesFrom(more, k, stream \o new)
  BY <1>3, <1>4, <1>5, <1>6, <1>7 DEF FramesFrom
<1> QED
  BY <1>8 DEF more, new

-----------------------------------------------------------------------------
(* The connection's side of the channel.  As long as every read was whole, *)
(* what was delivered is what was sent first, and what is on its way are   *)
(* the frames that follow, of which the first has lost its header when the *)
(* payload is to be read.                                                  *)
Expected == sent[Len(delivered) + 1]

InStep ==
  /\ Len(delivered) <= Len(sent)
  /\ \A i \in 1..Len(delivered) : delivered[i] = sent[i]
  /\ b_w_header => FramesFrom(sent, Len(delivered) + 1, inbound)
  /\ ~b_w_header =>
       /\ Len(delivered) < Len(sent) /\ m_payload_size = Len(Expected)
       /\ \E rest \in Seq(Bytes) :
            /\ inbound = Expected \o rest
            /\ FramesFrom(sent, Len(delivered) + 2, rest)

ReadInv == FramingTypeOK /\ (whole => InStep) /\ DeathHasACause

LEMMA Lengths ==
  ASSUME FramingTypeOK
  PROVE  Len(sent) \in Nat /\ Len(delivered) \in Nat /\ Len(inbound) \in Nat
BY DEF FramingTypeOK

LEMMA ExpectedType ==
  ASSUME FramingTypeOK, Len(delivered) < Len(sent)
  PROVE  /\ Len(delivered) + 1 \in 1..Len(sent) /\ Expected \in Payloads
         /\ Expected \in Seq(Bytes) /\ Len(Expected) \in Nat
<1>1. Len(delivered) + 1 \in 1..Len(sent)
  BY Lengths
<1>2. Expected \in Payloads
  BY <1>1, SeqElement DEF Expected, FramingTypeOK
<1> QED
  BY <1>1, <1>2, PayloadFits

LEMMA ReadInitInv == FramingInit => ReadInv
<1> SUFFICES ASSUME FramingInit PROVE ReadInv
  OBVIOUS
<1>1. FramingTypeOK
  BY FramingInitTyped
<1>2. /\ sent = <<>> /\ inbound = <<>> /\ delivered = <<>> /\ b_w_header = TRUE /\ dead = FALSE
  BY DEF FramingInit
<1>3. FramesFrom(<<>>, 1, <<>>)
  <2>1. <<>> \in Seq(Payloads) /\ Len(<<>>) + 1 = 1
    BY EmptySeq
  <2> QED
    BY <2>1, NoFrames
<1>4. InStep
  <2>1. Len(delivered) + 1 = 1 /\ Len(sent) = 0 /\ Len(delivered) = 0
    BY <1>2
  <2> QED
    BY <1>2, <1>3, <2>1 DEF InStep
<1> QED
  BY <1>1, <1>2, <1>4 DEF ReadInv, DeathHasACause

(* A frame more on its way.                                                *)
LEMMA SendKeeps ==
  ASSUME ReadInv, PeerSends
  PROVE  ReadInv'
<1>1. PICK p \in Payloads, invert \in BOOLEAN :
         sent' = Append(sent, p) /\ inbound' = inbound \o PeerFrame(p, invert)
  BY DEF PeerSends
<1>2. UNCHANGED <<b_w_header, m_payload_size, delivered, whole, dead>>
  BY DEF PeerSends
<1>3. FramingTypeOK /\ FramingTypeOK'
  BY FramingStepTyped DEF ReadInv, FramingNext
<1> DEFINE new == PeerFrame(p, invert)
<1>4. new \in Seq(Bytes) /\ sent \in Seq(Payloads) /\ inbound \in Seq(Bytes)
  BY <1>3, PeerFrameType DEF FramingTypeOK
<1>5. /\ Len(sent') = Len(sent) + 1 /\ \A i \in 1..Len(sent) : sent'[i] = sent[i]
  BY <1>1, <1>4
<1> DEFINE d == Len(delivered)
<1>6. d \in Nat /\ Len(sent) \in Nat
  BY <1>3, Lengths
<1>7. whole => InStep'
  <2> SUFFICES ASSUME whole PROVE InStep'
    OBVIOUS
  <2>1. InStep
    BY DEF ReadInv
  <2>2. d <= Len(sent) /\ Len(delivered') = d /\ delivered' = delivered
    BY <2>1, <1>2 DEF InStep
  <2>3. Len(delivered') <= Len(sent') /\ \A i \in 1..Len(delivered') : delivered'[i] = sent'[i]
    <3>1. \A i \in 1..d : delivered[i] = sent[i] /\ i \in 1..Len(sent)
      BY <2>1, <2>2, <1>6 DEF InStep
    <3> QED
      BY <3>1, <2>2, <1>5, <1>6
  <2>4. b_w_header' => FramesFrom(sent', d + 1, inbound')
    <3> SUFFICES ASSUME b_w_header PROVE FramesFrom(sent', d + 1, inbound')
      BY <1>2
    <3>1. FramesFrom(sent, d + 1, inbound) /\ d + 1 \in 1..Len(sent) + 1
      BY <2>1, <2>2, <1>6 DEF InStep
    <3> QED
      BY <3>1, <1>1, <1>4, OneFrameMore
  <2>5. ASSUME ~b_w_header'
        PROVE  /\ d < Len(sent') /\ m_payload_size' = Len(Expected')
               /\ \E rest \in Seq(Bytes) : /\ inbound' = Expected' \o rest
                                           /\ FramesFrom(sent', d + 2, rest)
    <3>1. ~b_w_header /\ d < Len(sent) /\ m_payload_size = Len(Expected)
      BY <2>5, <2>1, <1>2 DEF InStep
    <3>2. PICK rest \in Seq(Bytes) : inbound = Expected \o rest /\ FramesFrom(sent, d + 2, rest)
      BY <3>1, <2>1 DEF InStep
    <3>3. d + 1 \in 1..Len(sent) /\ Expected \in Seq(Bytes)
      BY <3>1, <1>3, ExpectedType
    <3>4. Expected' = Expected
      BY <3>3, <2>2, <1>5 DEF Expected
    <3>5. d + 2 \in 1..Len(sent) + 1
      BY <3>3, <1>6
    <3>6. FramesFrom(sent', d + 2, rest \o new)
      BY <3>2, <3>5, <1>1, <1>4, OneFrameMore
    <3> HIDE DEF new
    <3>7. inbound' = Expected \o (rest \o new)
      <4>1. inbound' = (Expected \o rest) \o new
        BY <3>2, <1>1 DEF new
      <4> QED
        BY <4>1, <3>3, <1>4, BytesGrouped
    <3>8. rest \o new \in Seq(Bytes)
      BY <1>4, Taken
    <3>9. d < Len(sent')
      BY <3>1, <1>5, <1>6
    <3> QED
      BY <3>1, <3>4, <3>6, <3>7, <3>8, <3>9, <1>2
  <2>6. Len(delivered') = d
    BY <2>2
  <2> HIDE DEF d
  <2> QED
    BY <2>3, <2>4, <2>5, <2>6 DEF InStep
<1>8. DeathHasACause'
  <2> SUFFICES ASSUME dead', whole' PROVE Len(sent') > Len(delivered') /\ Expected' = <<>>
    BY DEF DeathHasACause, Expected
  <2>1. Len(sent) > d /\ Expected = <<>>
    BY <1>2 DEF ReadInv, DeathHasACause, Expected
  <2>2. d + 1 \in 1..Len(sent)
    BY <2>1, <1>6
  <2>3. Expected' = Expected
    BY <2>2, <1>2, <1>5 DEF Expected
  <2> QED
    BY <2>1, <2>3, <1>2, <1>5, <1>6
<1> QED
  BY <1>2, <1>3, <1>7, <1>8 DEF ReadInv

(* A whole header gives the size of the payload that follows.              *)
LEMMA WholeHeader ==
  ASSUME ReadInv, NEW n \in 1..Len(inbound), HeaderReceived(n), whole'
  PROVE  /\ whole /\ ~dead /\ ~dead' /\ Len(delivered) < Len(sent)
         /\ b_w_header' = FALSE /\ m_payload_size' = Len(Expected)
         /\ UNCHANGED <<sent, delivered>>
         /\ \E rest \in Seq(Bytes) :
              /\ inbound' = Expected \o rest
              /\ FramesFrom(sent, Len(delivered) + 2, rest)
<1>1. FramingTypeOK /\ Bring(n) /\ b_w_header
  BY DEF ReadInv, HeaderReceived
<1>2. /\ ~dead /\ whole /\ n = m_payload_size /\ m_payload_size = 5 /\ Len(m_rx_b) = 5
      /\ inbound' = SubSeq(inbound, n + 1, Len(inbound)) /\ m_rx_b \in Seq(Bytes)
  BY <1>1, BringTyped DEF FramingTypeOK, HEADER_SIZE
<1>3. FramesFrom(sent, Len(delivered) + 1, inbound) /\ Len(delivered) <= Len(sent)
  BY <1>1, <1>2 DEF ReadInv, InStep
<1>4. /\ sent \in Seq(Payloads) /\ inbound \in Seq(Bytes) /\ Len(inbound) > 0
      /\ Len(delivered) + 1 \in 1..Len(sent) + 1
  BY <1>1, <1>3, Lengths DEF FramingTypeOK
<1>5. /\ Len(delivered) + 1 <= Len(sent)
      /\ \E i \in BOOLEAN, r \in Seq(Bytes) :
           /\ inbound = PeerFrame(Expected, i) \o r
           /\ FramesFrom(sent, Len(delivered) + 1 + 1, r)
  BY <1>3, <1>4, FirstFrame DEF Expected
<1>6. PICK invert \in BOOLEAN, rest \in Seq(Bytes) :
        inbound = PeerFrame(Expected, invert) \o rest
        /\ FramesFrom(sent, Len(delivered) + 1 + 1, rest)
  BY <1>5
<1>7. Len(delivered) < Len(sent) /\ Len(delivered) + 1 + 1 = Len(delivered) + 2
  BY <1>1, <1>5, Lengths
<1>8. Expected \in Payloads /\ Expected \in Seq(Bytes) /\ Len(Expected) \in Nat
  BY <1>1, <1>7, ExpectedType
<1> DEFINE h == HeaderOf(Expected, invert)
           p == Expected
           body == p \o rest
<1>9. /\ h \in Seq(Bytes) /\ Len(h) = 5 /\ PeerFrame(p, invert) = h \o p
      /\ Int32(SubSeq(InvertBytes(h), 2, 5)) = Len(p)
  BY <1>8, HeaderGivesSize
<1>10. inbound = (h \o p) \o rest
  BY <1>6, <1>9
<1> HIDE DEF h, p
<1>11. p \in Seq(Bytes)
  BY <1>8 DEF p
<1>12. inbound = h \o body /\ body \in Seq(Bytes)
  BY <1>9, <1>10, <1>11, BytesGrouped, Taken
<1> HIDE DEF body
<1>13. SubSeq(inbound, 1, 5) = h /\ SubSeq(inbound, 6, Len(inbound)) = body
  <2>1. SubSeq(h \o body, 1, Len(h)) = h /\ SubSeq(h \o body, Len(h) + 1, Len(h \o body)) = body
    BY <1>9, <1>12, BytesTaken
  <2>2. Len(h) + 1 = 6
    BY <1>9
  <2> QED
    BY <2>1, <2>2, <1>9, <1>12
<1>14. inbound' = body
  BY <1>2, <1>13
<1>15. Filled(m_rx_b, SubSeq(inbound, 1, n)) = h
  <2>1. n = 5 /\ Len(h) = Len(m_rx_b)
    BY <1>2, <1>9
  <2>2. Filled(m_rx_b, h) = h
    BY <2>1, <1>2, <1>9, FilledWhole
  <2> QED
    BY <2>1, <2>2, <1>13
<1>16. m_payload_size' = Len(p) /\ dead' = (Len(p) < 0) /\ b_w_header' = FALSE
       /\ UNCHANGED <<sent, delivered>>
  BY <1>9, <1>15 DEF HeaderReceived
<1>17. ~dead'
  <2>1. Len(p) \in Nat
    BY <1>8 DEF p
  <2>2. ~(Len(p) < 0)
    BY <2>1
  <2> QED
    BY <2>2, <1>16
<1> QED
  BY <1>2, <1>6, <1>7, <1>14, <1>16, <1>17 DEF p, body

(* A whole payload is the one expected.                                    *)
LEMMA WholePayload ==
  ASSUME ReadInv, NEW n \in 1..Len(inbound), PayloadReceived(n), whole'
  PROVE  /\ whole /\ ~dead /\ ~dead' /\ Len(delivered) < Len(sent)
         /\ b_w_header' = TRUE /\ delivered' = Append(delivered, Expected)
         /\ UNCHANGED <<sent, open>>
         /\ FramesFrom(sent, Len(delivered) + 2, inbound')
<1>1. FramingTypeOK /\ Bring(n) /\ ~b_w_header
  BY DEF ReadInv, PayloadReceived
<1>2. /\ ~dead /\ whole /\ n = m_payload_size /\ Len(m_rx_b) = n
      /\ inbound' = SubSeq(inbound, n + 1, Len(inbound)) /\ m_rx_b \in Seq(Bytes)
  BY <1>1, BringTyped DEF FramingTypeOK
<1>3. Len(delivered) < Len(sent) /\ n = Len(Expected)
  BY <1>1, <1>2 DEF ReadInv, InStep
<1>4. PICK rest \in Seq(Bytes) :
        inbound = Expected \o rest /\ FramesFrom(sent, Len(delivered) + 2, rest)
  BY <1>1, <1>2 DEF ReadInv, InStep
<1> DEFINE p == Expected
<1>5. p \in Seq(Bytes) /\ Len(p) = n /\ inbound = p \o rest
  BY <1>1, <1>3, <1>4, ExpectedType
<1> HIDE DEF p
<1>6. SubSeq(inbound, 1, n) = p /\ inbound' = rest
  BY <1>2, <1>5, Taken
<1>7. Filled(m_rx_b, SubSeq(inbound, 1, n)) = p
  BY <1>2, <1>5, <1>6, FilledWhole
<1>8. resize(p, m_payload_size) = p
  BY <1>2, <1>5, ResizeToItself
<1>9. /\ b_w_header' = TRUE /\ delivered' = Append(delivered, p)
      /\ UNCHANGED <<sent, dead, open>>
  BY <1>7, <1>8 DEF PayloadReceived, View
<1> QED
  BY <1>2, <1>3, <1>4, <1>6, <1>9 DEF p

LEMMA HeaderKeeps ==
  ASSUME ReadInv, NEW n \in 1..Len(inbound), HeaderReceived(n)
  PROVE  ReadInv'
<1>1. FramingTypeOK'
  BY HeaderReceivedTyped DEF ReadInv
<1>2. ASSUME whole'
      PROVE  InStep' /\ ~dead'
  <2>1. /\ whole /\ ~dead' /\ Len(delivered) < Len(sent)
        /\ b_w_header' = FALSE /\ m_payload_size' = Len(Expected)
        /\ UNCHANGED <<sent, delivered>>
        /\ \E rest \in Seq(Bytes) :
             inbound' = Expected \o rest /\ FramesFrom(sent, Len(delivered) + 2, rest)
    BY <1>2, WholeHeader
  <2>2. InStep /\ Expected' = Expected
    BY <2>1 DEF ReadInv, Expected
  <2> QED
    BY <2>1, <2>2 DEF InStep
<1> QED
  BY <1>1, <1>2 DEF ReadInv, DeathHasACause

LEMMA PayloadKeeps ==
  ASSUME ReadInv, NEW n \in 1..Len(inbound), PayloadReceived(n)
  PROVE  ReadInv'
<1>1. FramingTypeOK' /\ FramingTypeOK
  BY PayloadReceivedTyped DEF ReadInv
<1>2. dead' = dead /\ ~dead
  BY <1>1, BringTyped DEF PayloadReceived
<1>3. ASSUME whole'
      PROVE  InStep'
  <2>1. /\ whole /\ Len(delivered) < Len(sent)
        /\ b_w_header' = TRUE /\ delivered' = Append(delivered, Expected)
        /\ sent' = sent /\ FramesFrom(sent, Len(delivered) + 2, inbound')
    BY <1>3, WholePayload
  <2>2. Len(delivered) \in Nat /\ Len(sent) \in Nat /\ delivered \in Seq(Seq(Bytes))
    BY <1>1, Lengths DEF FramingTypeOK
  <2>3. /\ Len(delivered') = Len(delivered) + 1 /\ delivered'[Len(delivered) + 1] = Expected
        /\ \A i \in 1..Len(delivered) : delivered'[i] = delivered[i]
    BY <2>1, <2>2
  <2>4. \A i \in 1..Len(delivered') : delivered'[i] = sent[i]
    <3> TAKE i \in 1..Len(delivered')
    <3>1. i \in 1..Len(delivered) \/ i = Len(delivered) + 1
      BY <2>2, <2>3
    <3>2. CASE i \in 1..Len(delivered)
      BY <3>2, <2>1, <2>3 DEF ReadInv, InStep
    <3>3. CASE i = Len(delivered) + 1
      BY <3>3, <2>3 DEF Expected
    <3> QED
      BY <3>1, <3>2, <3>3
  <2>5. Len(delivered') <= Len(sent') /\ Len(delivered') + 1 = Len(delivered) + 2
    BY <2>1, <2>2, <2>3
  <2> QED
    BY <2>1, <2>4, <2>5 DEF InStep
<1> QED
  BY <1>1, <1>2, <1>3 DEF ReadInv, DeathHasACause

LEMMA ReadSettled ==
  ASSUME ReadInv, FramingTypeOK', UNCHANGED <<sent, inbound, b_w_header, m_payload_size,
         delivered, whole, dead>>
  PROVE  ReadInv'
<1>1. Expected' = Expected
  BY DEF Expected
<1>2. InStep' = InStep
  BY <1>1 DEF InStep
<1> QED
  BY <1>2 DEF ReadInv, DeathHasACause

(* A read of nothing is asked for when the payload is empty.               *)
LEMMA EmptyKeeps ==
  ASSUME ReadInv, EmptyPayload
  PROVE  ReadInv'
<1>1. FramingTypeOK' /\ FramingTypeOK
  BY FramingStepTyped DEF ReadInv, FramingNext, read
<1>2. /\ ~b_w_header /\ m_payload_size = 0
      /\ UNCHANGED <<sent, inbound, b_w_header, m_payload_size, delivered, whole>>
  BY DEF EmptyPayload
<1>3. Expected' = Expected
  BY <1>2 DEF Expected
<1>4. InStep' = InStep
  BY <1>2, <1>3 DEF InStep
<1>5. ASSUME whole
      PROVE  Len(sent) > Len(delivered) /\ Expected = <<>>
  <2>1. Len(delivered) < Len(sent) /\ Len(Expected) = 0
    BY <1>2, <1>5 DEF ReadInv, InStep
  <2>2. Expected \in Seq(Bytes)
    BY <2>1, <1>1, ExpectedType
  <2> QED
    BY <2>1, <2>2, <1>1, Lengths
<1> QED
  BY <1>1, <1>2, <1>3, <1>4, <1>5 DEF ReadInv, DeathHasACause, Expected

LEMMA ReadStep == ReadInv /\ [FramingNext]_vars => ReadInv'
<1> SUFFICES ASSUME ReadInv, [FramingNext]_vars PROVE ReadInv'
  OBVIOUS
<1>1. FramingTypeOK'
  BY FramingStepTyped, FramingStutters DEF ReadInv
<1>2. CASE PeerSends
  BY <1>2, SendKeeps
<1>3. CASE PeerLeaves
  BY <1>1, <1>3, ReadSettled DEF PeerLeaves
<1>4. CASE ReadSome
  BY <1>4, HeaderKeeps, PayloadKeeps DEF ReadSome
<1>5. CASE EmptyPayload
  BY <1>5, EmptyKeeps
<1>6. CASE ReadError
  BY <1>1, <1>6, ReadSettled DEF ReadError, reading
<1>7. ASSUME NEW w \in Writers, StartWrite(w) \/ GoOn(w)
      PROVE  ReadInv'
  <2>1. UNCHANGED reading
    BY <1>7 DEF StartWrite, GoOn, WriteFlag, WriteSize, WriteData, WriteSome, EndWrite
  <2> QED
    BY <2>1, <1>1, ReadSettled DEF reading
<1>8. CASE UNCHANGED vars
  BY <1>1, <1>8, ReadSettled DEF vars, reading
<1> QED
  BY <1>2, <1>3, <1>4, <1>5, <1>6, <1>7, <1>8 DEF FramingNext, read

LEMMA ReadInvariant == FramingSpec => []ReadInv
BY ReadInitInv, ReadStep, FramingSteps, PTL

(* The handlers of a read throw only for a frame without a payload, or     *)
(* after a short read.                                                     *)
THEOREM DeathHasACauseCorrect == FramingSpec => []DeathHasACause
<1>1. ReadInv => DeathHasACause
  BY DEF ReadInv
<1> QED
  BY <1>1, ReadInvariant, PTL

-----------------------------------------------------------------------------
(* The channel.                                                            *)
LEMMA ChannelStarts == FramingInit => Channel!ChannelInit
BY DEF FramingInit, Channel!ChannelInit, Alive

(* A read after which whole is FALSE delivers nothing.                     *)
LEMMA ShortRead ==
  ASSUME ReadInv, ReadSome, ~whole'
  PROVE  Alive /\ UNCHANGED <<sent, delivered>>
<1>1. PICK n \in 1..Len(inbound) : HeaderReceived(n) \/ PayloadReceived(n)
  BY DEF ReadSome
<1>2. Alive
  BY <1>1 DEF HeaderReceived, PayloadReceived, Bring
<1>3. UNCHANGED <<sent, delivered>>
  BY <1>1 DEF HeaderReceived, PayloadReceived
<1> QED
  BY <1>2, <1>3

LEMMA ChannelStep == ReadInv /\ [FramingNext]_vars => [Channel!ChannelNext]_(Channel!channel)
<1> SUFFICES ASSUME ReadInv, [FramingNext]_vars
             PROVE  [Channel!ChannelNext]_(Channel!channel)
  OBVIOUS
<1>0. FramingTypeOK
  BY DEF ReadInv
<1>1. CASE PeerSends
  <2>1. PICK p \in Payloads : sent' = Append(sent, p)
    BY <1>1 DEF PeerSends
  <2>2. UNCHANGED <<delivered, whole, Alive>>
    BY <1>1 DEF PeerSends, Alive
  <2>3. Channel!Send(p)
    BY <2>1, <2>2 DEF Channel!Send
  <2> QED
    BY <2>3 DEF Channel!ChannelNext
<1>2. CASE PeerLeaves
  BY <1>2 DEF PeerLeaves, Channel!channel, Alive
<1>3. CASE ReadSome /\ whole'
  <2>1. PICK n \in 1..Len(inbound) : HeaderReceived(n) \/ PayloadReceived(n)
    BY <1>3 DEF ReadSome
  <2>2. CASE HeaderReceived(n)
    <3>1. whole /\ ~dead /\ ~dead' /\ UNCHANGED <<sent, delivered>>
      BY <1>3, <2>2, WholeHeader
    <3>2. open' = open
      BY <2>2 DEF HeaderReceived
    <3> QED
      BY <1>3, <3>1, <3>2 DEF Channel!channel, Alive, ReadInv, FramingTypeOK
  <2>3. CASE PayloadReceived(n)
    <3>1. /\ whole /\ ~dead /\ ~dead' /\ Len(delivered) < Len(sent)
          /\ delivered' = Append(delivered, Expected) /\ UNCHANGED <<sent, open>>
      BY <1>3, <2>3, WholePayload
    <3>2. Alive
      BY <2>3 DEF PayloadReceived, Bring
    <3>3. Channel!Deliver
      BY <1>3, <3>1, <3>2 DEF Channel!Deliver, Alive, Expected, ReadInv, FramingTypeOK
    <3> QED
      BY <3>3 DEF Channel!ChannelNext
  <2> QED
    BY <2>1, <2>2, <2>3
<1>4. CASE ReadSome /\ ~whole'
  <2>1. Alive /\ UNCHANGED <<sent, delivered>>
    BY <1>4, ShortRead
  <2>2. Channel!IsPrefix(delivered, delivered')
    BY <2>1, <1>0, Lengths DEF Channel!IsPrefix
  <2>3. Channel!Garble
    BY <1>4, <2>1, <2>2 DEF Channel!Garble
  <2> QED
    BY <2>3 DEF Channel!ChannelNext
<1>5. CASE EmptyPayload
  <2>1. Alive /\ ~Alive' /\ UNCHANGED <<sent, delivered, whole>>
    BY <1>5 DEF EmptyPayload, Alive
  <2> QED
    BY <2>1 DEF Channel!ChannelNext, Channel!GoDown
<1>6. CASE ReadError
  <2>1. Alive /\ ~Alive' /\ UNCHANGED <<sent, delivered, whole>>
    BY <1>6 DEF ReadError, Alive, reading
  <2> QED
    BY <2>1 DEF Channel!ChannelNext, Channel!GoDown
<1>7. ASSUME NEW w \in Writers, StartWrite(w) \/ WriteFlag(w) \/ WriteSize(w) \/ WriteData(w)
      PROVE  [Channel!ChannelNext]_(Channel!channel)
  <2>1. UNCHANGED <<reading, open>>
    BY <1>7 DEF StartWrite, WriteFlag, WriteSize, WriteData, WriteSome
  <2> QED
    BY <2>1 DEF reading, Channel!channel, Alive
<1>8. ASSUME NEW w \in Writers, EndWrite(w)
      PROVE  [Channel!ChannelNext]_(Channel!channel)
  <2>1. ~dead /\ (open' => open) /\ UNCHANGED reading
    BY <1>0, <1>8, EndWriteDoes
  <2>2. UNCHANGED <<sent, delivered, whole, dead>>
    BY <2>1 DEF reading
  <2>3. open \in BOOLEAN /\ open' \in BOOLEAN
    BY <1>0, <1>8, EndWriteDoes DEF FramingTypeOK
  <2>4. CASE open' = open
    BY <2>2, <2>4 DEF Channel!channel, Alive
  <2>5. CASE open' # open
    <3>1. Alive /\ ~Alive'
      BY <2>1, <2>3, <2>5 DEF Alive
    <3> QED
      BY <2>2, <3>1 DEF Channel!ChannelNext, Channel!GoDown
  <2> QED
    BY <2>4, <2>5
<1>9. CASE UNCHANGED vars
  BY <1>9 DEF vars, reading, Channel!channel, Alive
<1> QED
  BY <1>1, <1>2, <1>3, <1>4, <1>5, <1>6, <1>7, <1>8, <1>9 DEF FramingNext, read, GoOn

(* The header and payload reads of tcpcnx are the channel stomp_sever      *)
(* expects: every step delivers the next frame, ends the connection, or    *)
(* follows a short read.                                                   *)
THEOREM ChannelImplemented == FramingSpec => ImplementsChannel
<1>1. FramingSpec => Channel!ChannelInit
  BY ChannelStarts, FramingSteps, PTL
<1>2. FramingSpec => [][Channel!ChannelNext]_(Channel!channel)
  BY ReadInvariant, ChannelStep, FramingSteps, PTL
<1> QED
  BY <1>1, <1>2 DEF ImplementsChannel, Channel!ChannelSpec

-----------------------------------------------------------------------------
(* FlattenSeq is defined by a recursive function.  That the function       *)
(* exists, and that it is the only one, is a property of the sequence that *)
(* the invariant below carries from one Append to the next, so that no     *)
(* induction over sequences is needed.                                     *)
Solves(f, s) == f = [i \in 1..Len(s) |-> IF i = 1 THEN s[i] ELSE f[i - 1] \o s[i]]

Flattened(s) ==
  /\ FlattenSeq(s) \in Seq(Bytes)
  /\ \E f : Solves(f, s) /\ \A g : Solves(g, s) => g = f

LEMMA FlattenNothing == FlattenSeq(<<>>) = <<>> /\ Flattened(<<>>)
<1>1. FlattenSeq(<<>>) = <<>>
  BY DEF FlattenSeq
<1>2. 1..Len(<<>>) = {}
  OBVIOUS
<1> DEFINE f == [i \in {} |-> <<>>]
<1>3. \A g : Solves(g, <<>>) <=> g = f
  BY <1>2 DEF Solves
<1> HIDE DEF f
<1>4. Solves(f, <<>>) /\ \A g : Solves(g, <<>>) => g = f
  BY <1>3
<1>5. <<>> \in Seq(Bytes)
  BY EmptySeq
<1> QED
  BY <1>1, <1>4, <1>5 DEF Flattened

LEMMA FlattenValue ==
  ASSUME NEW s \in Seq(Seq(Bytes)), Len(s) # 0, NEW f, Solves(f, s),
         \A g : Solves(g, s) => g = f
  PROVE  FlattenSeq(s) = f[Len(s)]
BY DEF FlattenSeq, Solves

LEMMA FlattenGrows ==
  ASSUME NEW s \in Seq(Seq(Bytes)), Flattened(s), NEW x \in Seq(Bytes)
  PROVE  /\ Flattened(Append(s, x))
         /\ FlattenSeq(Append(s, x)) = FlattenSeq(s) \o x
<1> DEFINE t == Append(s, x)
           n == Len(s)
           flat == FlattenSeq(s)
<1>1. PICK f : Solves(f, s) /\ \A g : Solves(g, s) => g = f
  BY DEF Flattened
<1>2. /\ n \in Nat /\ Len(t) = n + 1 /\ t[n + 1] = x /\ t \in Seq(Seq(Bytes))
      /\ \A i \in 1..n : t[i] = s[i]
  OBVIOUS
<1>3. flat \in Seq(Bytes) /\ (n # 0 => flat = f[n]) /\ (n = 0 => flat = <<>>)
  <2>1. flat \in Seq(Bytes)
    BY DEF Flattened
  <2>2. n # 0 => flat = f[n]
    BY <1>1, FlattenValue
  <2>3. n = 0 => s = <<>>
    OBVIOUS
  <2> QED
    BY <2>1, <2>2, <2>3, FlattenNothing
<1> HIDE DEF t, flat
<1> DEFINE g == [i \in 1..n + 1 |-> IF i = n + 1 THEN flat \o x ELSE f[i]]
<1>4. \A i \in 1..n : f[i] = IF i = 1 THEN s[i] ELSE f[i - 1] \o s[i]
  BY <1>1 DEF Solves
<1>5. g[n + 1] = flat \o x /\ \A i \in 1..n : g[i] = f[i]
  BY <1>2
<1>6. flat \o x = IF n + 1 = 1 THEN t[n + 1] ELSE g[n] \o t[n + 1]
  <2>1. CASE n = 0
    BY <2>1, <1>2, <1>3, NothingAdded
  <2>2. CASE n # 0
    <3>1. n \in 1..n /\ n + 1 # 1
      BY <2>2, <1>2
    <3> QED
      BY <3>1, <2>2, <1>2, <1>3, <1>5
  <2> QED
    BY <2>1, <2>2
<1>7. \A i \in 1..n + 1 : g[i] = IF i = 1 THEN t[i] ELSE g[i - 1] \o t[i]
  <2> TAKE i \in 1..n + 1
  <2>1. CASE i = n + 1
    <3>1. i - 1 = n
      BY <2>1, <1>2
    <3> QED
      BY <3>1, <2>1, <1>5, <1>6
  <2>2. CASE i # n + 1
    <3>1. i \in 1..n /\ (i # 1 => i - 1 \in 1..n)
      BY <2>2, <1>2
    <3>2. g[i] = f[i] /\ t[i] = s[i] /\ (i # 1 => g[i - 1] = f[i - 1])
      BY <3>1, <1>2, <1>5
    <3>3. f[i] = IF i = 1 THEN s[i] ELSE f[i - 1] \o s[i]
      BY <3>1, <1>4
    <3> HIDE DEF g
    <3> QED
      BY <3>2, <3>3
  <2> QED
    BY <2>1, <2>2
<1>8. g = [i \in 1..n + 1 |-> g[i]]
  OBVIOUS
<1>9. Solves(g, t)
  <2> HIDE DEF g
  <2> QED
    BY <1>2, <1>7, <1>8 DEF Solves
<1>10. ASSUME NEW h, Solves(h, t)
       PROVE  h = g
  <2>1. h = [i \in 1..n + 1 |-> IF i = 1 THEN t[i] ELSE h[i - 1] \o t[i]]
    BY <1>2, <1>10 DEF Solves
  <2>2. /\ h = [i \in 1..n + 1 |-> h[i]]
        /\ \A i \in 1..n + 1 : h[i] = IF i = 1 THEN t[i] ELSE h[i - 1] \o t[i]
    BY <2>1
  <2> DEFINE r == [i \in 1..n |-> h[i]]
  <2>3. \A i \in 1..n : r[i] = IF i = 1 THEN s[i] ELSE r[i - 1] \o s[i]
    <3> TAKE i \in 1..n
    <3>1. i \in 1..n + 1 /\ (i # 1 => i - 1 \in 1..n)
      BY <1>2
    <3>2. h[i] = IF i = 1 THEN s[i] ELSE h[i - 1] \o s[i]
      BY <3>1, <2>2, <1>2
    <3>3. r[i] = h[i] /\ (i # 1 => r[i - 1] = h[i - 1])
      BY <3>1
    <3> HIDE DEF r
    <3> QED
      BY <3>2, <3>3
  <2>4. r = [i \in 1..n |-> r[i]]
    OBVIOUS
  <2>5. Solves(r, s)
    <3> HIDE DEF r
    <3> QED
      BY <2>3, <2>4 DEF Solves
  <2>6. r = f
    BY <2>5, <1>1
  <2>7. \A i \in 1..n : h[i] = g[i]
    <3> TAKE i \in 1..n
    <3>1. r[i] = h[i] /\ g[i] = f[i]
      BY <1>5
    <3> QED
      BY <3>1, <2>6
  <2>8. h[n + 1] = g[n + 1]
    <3>1. n + 1 \in 1..n + 1 /\ n + 1 - 1 = n /\ (n # 0 => n \in 1..n)
      BY <1>2
    <3> HIDE DEF g
    <3>2. h[n + 1] = IF n + 1 = 1 THEN t[n + 1] ELSE h[n] \o t[n + 1]
      <4> DEFINE m == n + 1
      <4>1. m \in 1..n + 1 /\ m - 1 = n
        BY <3>1
      <4> HIDE DEF m
      <4>2. h[m] = IF m = 1 THEN t[m] ELSE h[m - 1] \o t[m]
        BY <4>1, <2>2
      <4> QED
        BY <4>1, <4>2 DEF m
    <3>3. n + 1 # 1 => h[n] = g[n]
      <4>1. n + 1 # 1 => n \in 1..n
        BY <1>2
      <4> QED
        BY <4>1, <2>7
    <3> QED
      BY <3>2, <3>3, <1>5, <1>6
  <2>9. \A i \in 1..n + 1 : h[i] = g[i]
    <3> TAKE i \in 1..n + 1
    <3>1. i \in 1..n \/ i = n + 1
      BY <1>2
    <3> HIDE DEF g
    <3> QED
      BY <3>1, <2>7, <2>8
  <2> HIDE DEF g
  <2> QED
    BY <2>2, <2>9, <1>8
<1>11. FlattenSeq(t) = flat \o x
  <2> HIDE DEF g
  <2>1. Len(t) # 0
    BY <1>2
  <2>2. FlattenSeq(t) = g[Len(t)]
    BY <2>1, <1>2, <1>9, <1>10, FlattenValue
  <2> QED
    BY <2>2, <1>2, <1>5
<1>12. flat \o x \in Seq(Bytes)
  BY <1>3, Taken
<1>13. Flattened(t)
  <2> HIDE DEF g
  <2> QED
    BY <1>9, <1>10, <1>11, <1>12 DEF Flattened
<1> QED
  BY <1>11, <1>13 DEF t, flat

-----------------------------------------------------------------------------
(* The writers.  Progress is what the thread that holds m_mtx_write has    *)
(* written of its frame, Left is the rest of it.                           *)
Written == [i \in DOMAIN began |-> ServerFrame(began[i])]

Progress(at, p) ==
  CASE at = "flag" -> <<>>
    [] at = "size" -> <<0>>
    [] at = "data" -> <<0>> \o SizeBytes(Len(p))
    [] at = "end"  -> ServerFrame(p)

LockOK == \A w \in Writers : pc[w] # "idle" <=> m_mtx_write = w

IdleOK ==
  m_mtx_write = Nobody =>
    /\ IsPrefix(out, FlattenSeq(Written))
    /\ open => ~failed /\ out = FlattenSeq(Written)

BusyOK ==
  \A w \in Writers : m_mtx_write = w =>
    \E before \in Seq(Bytes) :
      /\ FlattenSeq(Written) = before \o ServerFrame(reply[w])
      /\ IF failed THEN IsPrefix(out, FlattenSeq(Written))
                   ELSE out = before \o Progress(pc[w], reply[w])

WriteInv ==
  /\ FramingTypeOK /\ LockOK /\ Flattened(Written)
  /\ ~cut => IdleOK /\ BusyOK

LEMMA BytesPrefix ==
  \A x, y \in Seq(Bytes) : IsPrefix(x, x \o y) /\ IsPrefix(x, x)
<1> TAKE x, y \in Seq(Bytes)
<1>1. Len(x) \in Nat /\ Len(y) \in Nat /\ Len(x \o y) = Len(x) + Len(y)
  OBVIOUS
<1>2. SubSeq(x \o y, 1, Len(x)) = x
  BY BytesTaken
<1>3. SubSeq(x, 1, Len(x)) = x
  OBVIOUS
<1> QED
  BY <1>1, <1>2, <1>3 DEF IsPrefix

LEMMA ServerFrameParts ==
  ASSUME NEW p \in Replies
  PROVE  /\ p \in Seq(Bytes) /\ SizeBytes(Len(p)) \in Seq(Bytes) /\ <<0>> \in Seq(Bytes)
         /\ <<0>> \o SizeBytes(Len(p)) \in Seq(Bytes) /\ ServerFrame(p) \in Seq(Bytes)
         /\ ServerFrame(p) = (<<0>> \o SizeBytes(Len(p))) \o p
<1>1. p \in Seq(Bytes) /\ SizeBytes(Len(p)) \in Seq(Bytes)
  BY PayloadFits, SizeSurvives
<1>2. <<0>> \in Seq(Bytes)
  BY BaseFacts
<1>3. <<0>> \o SizeBytes(Len(p)) \in Seq(Bytes)
  BY <1>1, <1>2, Taken
<1>4. ServerFrame(p) = (<<0>> \o SizeBytes(Len(p))) \o p
  BY DEF ServerFrame
<1>5. ServerFrame(p) \in Seq(Bytes)
  BY <1>1, <1>3, <1>4, Taken
<1> QED
  BY <1>1, <1>2, <1>3, <1>4, <1>5

LEMMA ProgressIsPart ==
  ASSUME NEW p \in Replies, NEW at \in Places, at # "idle"
  PROVE  /\ Progress(at, p) \in Seq(Bytes)
         /\ \E left \in Seq(Bytes) : ServerFrame(p) = Progress(at, p) \o left
<1> DEFINE s == SizeBytes(Len(p))
           f == ServerFrame(p)
<1>1. /\ p \in Seq(Bytes) /\ s \in Seq(Bytes) /\ <<0>> \in Seq(Bytes)
      /\ <<0>> \o s \in Seq(Bytes) /\ f \in Seq(Bytes) /\ f = (<<0>> \o s) \o p
  BY ServerFrameParts
<1>2. <<>> \in Seq(Bytes)
  BY EmptySeq
<1> HIDE DEF s, f
<1>3. CASE at = "flag"
  <2>1. Progress(at, p) = <<>> /\ f = <<>> \o f
    BY <1>1, <1>3, NothingAdded DEF Progress
  <2> QED
    BY <1>1, <1>2, <2>1 DEF f
<1>4. CASE at = "size"
  <2>1. Progress(at, p) = <<0>>
    BY <1>4 DEF Progress
  <2>2. f = <<0>> \o (s \o p) /\ s \o p \in Seq(Bytes)
    BY <1>1, BytesGrouped, Taken
  <2> QED
    BY <1>1, <2>1, <2>2 DEF f
<1>5. CASE at = "data"
  <2>1. Progress(at, p) = <<0>> \o s
    BY <1>5 DEF Progress, s
  <2> QED
    BY <1>1, <2>1 DEF f
<1>6. CASE at = "end"
  <2>1. Progress(at, p) = f /\ f = f \o <<>>
    BY <1>1, <1>6, NothingAdded DEF Progress, f
  <2> QED
    BY <1>1, <1>2, <2>1 DEF f
<1> QED
  BY <1>3, <1>4, <1>5, <1>6 DEF Places

(* A write_some takes its frame one place further.                         *)
LEMMA ProgressGoes ==
  ASSUME NEW p \in Replies
  PROVE  /\ Progress("size", p) = Progress("flag", p) \o <<0>>
         /\ Progress("data", p) = Progress("size", p) \o SizeBytes(Len(p))
         /\ Progress("end", p) = Progress("data", p) \o p
<1>1. <<0>> \in Seq(Bytes) /\ ServerFrame(p) = (<<0>> \o SizeBytes(Len(p))) \o p
  BY ServerFrameParts
<1>2. /\ Progress("flag", p) = <<>> /\ Progress("size", p) = <<0>>
      /\ Progress("data", p) = <<0>> \o SizeBytes(Len(p)) /\ Progress("end", p) = ServerFrame(p)
  BY DEF Progress
<1> QED
  BY <1>1, <1>2, NothingAdded

LEMMA WriteInitInv == FramingInit => WriteInv
<1> SUFFICES ASSUME FramingInit PROVE WriteInv
  OBVIOUS
<1>1. /\ m_mtx_write = Nobody /\ pc = [w \in Writers |-> "idle"] /\ began = <<>> /\ out = <<>>
      /\ failed = FALSE
  BY DEF FramingInit
<1>2. Written = <<>>
  BY <1>1 DEF Written
<1>3. Nobody \notin Writers
  BY FramingAssumption
<1>4. LockOK
  BY <1>1, <1>3 DEF LockOK
<1>5. IsPrefix(<<>>, <<>>)
  BY EmptySeq, BytesPrefix
<1>6. IdleOK /\ BusyOK
  BY <1>1, <1>2, <1>3, <1>5, FlattenNothing DEF IdleOK, BusyOK
<1> QED
  BY <1>2, <1>4, <1>6, FlattenNothing, FramingInitTyped DEF WriteInv

(* While nothing but the socket changes, and it does not open again.       *)
LEMMA WriteSettled ==
  ASSUME WriteInv, FramingTypeOK', UNCHANGED writing, open' => open
  PROVE  WriteInv'
<1>1. UNCHANGED <<m_mtx_write, pc, reply, began, out, failed, cut>>
  BY DEF writing
<1>2. Written' = Written
  BY <1>1 DEF Written
<1>3. LockOK' /\ Flattened(Written)'
  BY <1>1, <1>2 DEF WriteInv, LockOK
<1>4. ~cut => IdleOK'
  BY <1>1, <1>2 DEF WriteInv, IdleOK
<1>5. ~cut => BusyOK'
  BY <1>1, <1>2 DEF WriteInv, BusyOK
<1> QED
  BY <1>1, <1>3, <1>4, <1>5 DEF WriteInv

LEMMA LockMoves ==
  ASSUME FramingTypeOK, LockOK, NEW w \in Writers, NEW to, pc' = [pc EXCEPT ![w] = to],
         \/ m_mtx_write = w /\ to # "idle" /\ m_mtx_write' = w
         \/ m_mtx_write = w /\ to = "idle" /\ m_mtx_write' = Nobody
         \/ m_mtx_write = Nobody /\ to # "idle" /\ m_mtx_write' = w
  PROVE  LockOK'
<1>1. Nobody \notin Writers
  BY FramingAssumption
<1>2. pc'[w] = to /\ \A v \in Writers \ {w} : pc'[v] = pc[v]
  BY DEF FramingTypeOK
<1>3. \A v \in Writers \ {w} : pc[v] = "idle"
  BY <1>1 DEF LockOK
<1> QED
  BY <1>1, <1>2, <1>3 DEF LockOK

LEMMA StartKeeps ==
  ASSUME WriteInv, NEW w \in Writers, StartWrite(w), FramingTypeOK'
  PROVE  WriteInv'
<1>1. FramingTypeOK
  BY DEF WriteInv
<1>2. /\ Alive /\ m_mtx_write = Nobody /\ m_mtx_write' = w /\ pc' = [pc EXCEPT ![w] = "flag"]
      /\ UNCHANGED <<out, failed, cut, open>>
  BY <1>1, StartWriteDoes
<1>3. PICK p \in Replies : reply' = [reply EXCEPT ![w] = p] /\ began' = Append(began, p)
  BY <1>1, StartWriteDoes
<1>4. LockOK'
  BY <1>1, <1>2, LockMoves DEF WriteInv
<1>5. ServerFrame(p) \in Seq(Bytes)
  BY ServerFrameParts
<1>6. Written' = Append(Written, ServerFrame(p)) /\ Written \in Seq(Seq(Bytes))
  <2> DEFINE n == Len(began)
  <2>1. /\ began \in Seq(Replies) /\ n \in Nat /\ DOMAIN began = 1..n
        /\ DOMAIN began' = 1..n + 1 /\ began'[n + 1] = p /\ \A i \in 1..n : began'[i] = began[i]
    BY <1>1, <1>3 DEF FramingTypeOK
  <2>2. \A i \in 1..n : ServerFrame(began[i]) \in Seq(Bytes)
    <3> TAKE i \in 1..n
    <3>1. began[i] \in Replies
      BY <2>1, SeqElement
    <3> QED
      BY <3>1, ServerFrameParts
  <2>3. Written = [i \in 1..n |-> ServerFrame(began[i])]
    BY <2>1 DEF Written
  <2>4. Written \in [1..n -> Seq(Bytes)]
    BY <2>2, <2>3
  <2>5. Written \in Seq(Seq(Bytes)) /\ Len(Written) = n
    BY <2>1, <2>4, Finite
  <2>6. Written' = [i \in 1..n + 1 |-> ServerFrame(began'[i])]
    BY <2>1 DEF Written
  <2>7. Append(Written, ServerFrame(p))
          = [i \in 1..n + 1 |-> IF i = n + 1 THEN ServerFrame(p) ELSE Written[i]]
    BY <2>5, <1>5, Appended
  <2>8. \A i \in 1..n + 1 :
           ServerFrame(began'[i]) = IF i = n + 1 THEN ServerFrame(p) ELSE Written[i]
    <3> TAKE i \in 1..n + 1
    <3>1. CASE i = n + 1
      BY <3>1, <2>1
    <3>2. CASE i # n + 1
      <4>1. i \in 1..n
        BY <3>2, <2>1
      <4> QED
        BY <4>1, <3>2, <2>1, <2>3
    <3> QED
      BY <3>1, <3>2
  <2> QED
    BY <2>5, <2>6, <2>7, <2>8
<1>7. Flattened(Written') /\ FlattenSeq(Written') = FlattenSeq(Written) \o ServerFrame(p)
  BY <1>5, <1>6, FlattenGrows DEF WriteInv
<1>8. ~cut => BusyOK'
  <2> SUFFICES ASSUME ~cut, NEW v \in Writers, m_mtx_write' = v
               PROVE  \E before \in Seq(Bytes) :
                        /\ FlattenSeq(Written') = before \o ServerFrame(reply'[v])
                        /\ IF failed' THEN IsPrefix(out', FlattenSeq(Written'))
                                      ELSE out' = before \o Progress(pc'[v], reply'[v])
    BY DEF BusyOK
  <2>1. v = w /\ reply'[v] = p /\ pc'[v] = "flag"
    BY <1>1, <1>2, <1>3 DEF FramingTypeOK
  <2>2. ~failed /\ out = FlattenSeq(Written) /\ FlattenSeq(Written) \in Seq(Bytes)
    BY <1>2 DEF WriteInv, IdleOK, Alive, Flattened
  <2>3. Progress("flag", p) = <<>>
    BY DEF Progress
  <2>4. out = FlattenSeq(Written) \o <<>>
    BY <2>2, NothingAdded
  <2> QED
    BY <1>2, <1>7, <2>1, <2>2, <2>3, <2>4
<1>9. IdleOK'
  BY <1>2, FramingAssumption DEF IdleOK
<1> QED
  BY <1>2, <1>4, <1>7, <1>8, <1>9 DEF WriteInv

LEMMA SomeKeeps ==
  ASSUME WriteInv, NEW w \in Writers, NEW bytes \in Seq(Bytes), NEW from \in Places,
         NEW to \in Places, from # "idle", to # "idle", WriteSome(w, bytes, from, to),
         FramingTypeOK',
         Progress(to, reply[w]) = Progress(from, reply[w]) \o bytes
  PROVE  WriteInv'
<1>1. FramingTypeOK /\ LockOK /\ Nobody \notin Writers
  BY FramingAssumption DEF WriteInv
<1>2. /\ pc[w] = from /\ pc' = [pc EXCEPT ![w] = to]
      /\ UNCHANGED <<m_mtx_write, reply, began, open>>
      /\ \/ /\ ~failed /\ UNCHANGED failed /\ (cut => cut')
            /\ out' = IF cut' THEN <<>> ELSE out \o bytes
         \/ failed' = TRUE /\ UNCHANGED <<out, cut>>
  BY <1>1, WriteSomeDoes
<1>3. m_mtx_write = w
  BY <1>1, <1>2 DEF LockOK
<1>4. LockOK'
  BY <1>1, <1>2, <1>3, LockMoves
<1>5. Written' = Written
  BY <1>2 DEF Written
<1>6. IdleOK'
  BY <1>1, <1>2, <1>3 DEF IdleOK
<1>7. ~cut' => BusyOK'
  <2> SUFFICES ASSUME ~cut', NEW v \in Writers, m_mtx_write' = v
               PROVE  \E before \in Seq(Bytes) :
                        /\ FlattenSeq(Written) = before \o ServerFrame(reply[v])
                        /\ IF failed' THEN IsPrefix(out', FlattenSeq(Written))
                                      ELSE out' = before \o Progress(pc'[v], reply[v])
    BY <1>2, <1>5 DEF BusyOK
  <2>1. v = w /\ pc'[w] = to /\ ~cut
    BY <1>1, <1>2, <1>3 DEF FramingTypeOK
  <2>2. PICK before \in Seq(Bytes) :
          /\ FlattenSeq(Written) = before \o ServerFrame(reply[w])
          /\ IF failed THEN IsPrefix(out, FlattenSeq(Written))
                       ELSE out = before \o Progress(pc[w], reply[w])
    BY <1>3, <2>1 DEF WriteInv, BusyOK
  <2> DEFINE done == Progress(from, reply[w])
             frame == ServerFrame(reply[w])
  <2>3. PICK left \in Seq(Bytes) : frame = done \o left
    BY <1>1, ReplyType, ProgressIsPart
  <2>4. done \in Seq(Bytes)
    BY <1>1, ReplyType, ProgressIsPart
  <2> HIDE DEF done, frame
  <2>5. CASE ~failed /\ UNCHANGED failed /\ out' = IF cut' THEN <<>> ELSE out \o bytes
    <3>1. out' = (before \o done) \o bytes
      BY <1>2, <2>2, <2>5 DEF done
    <3>2. out' = before \o (done \o bytes)
      BY <3>1, <2>4, BytesGrouped
    <3>3. out' = before \o Progress(pc'[v], reply[v])
      BY <3>2, <2>1 DEF done
    <3> QED
      BY <3>3, <2>1, <2>2, <2>5
  <2>6. CASE failed' = TRUE /\ UNCHANGED <<out, cut>>
    <3>1. IsPrefix(out, FlattenSeq(Written))
      <4>1. CASE failed
        BY <4>1, <2>2
      <4>2. CASE ~failed
        <5>1. out = before \o done /\ FlattenSeq(Written) = before \o (done \o left)
          BY <4>2, <1>2, <2>2, <2>3 DEF done, frame
        <5>2. FlattenSeq(Written) = (before \o done) \o left /\ before \o done \in Seq(Bytes)
          BY <5>1, <2>4, BytesGrouped, Taken
        <5> QED
          BY <5>1, <5>2, BytesPrefix
      <4> QED
        BY <4>1, <4>2
    <3> QED
      BY <3>1, <2>1, <2>2, <2>6
  <2> QED
    BY <1>2, <2>5, <2>6
<1> QED
  BY <1>4, <1>5, <1>6, <1>7 DEF WriteInv

(* A write that has failed leaves the socket closed behind it.             *)
LEMMA EndKeeps ==
  ASSUME WriteInv, NEW w \in Writers, EndWrite(w), FramingTypeOK'
  PROVE  WriteInv'
<1>1. FramingTypeOK /\ LockOK /\ Nobody \notin Writers
  BY FramingAssumption DEF WriteInv
<1>2. /\ pc[w] = "end" /\ pc' = [pc EXCEPT ![w] = "idle"] /\ m_mtx_write' = Nobody
      /\ (open' => open /\ ~failed) /\ UNCHANGED <<reply, began, out, failed, cut>>
  BY <1>1, EndWriteDoes
<1>3. m_mtx_write = w
  BY <1>1, <1>2 DEF LockOK
<1>4. LockOK'
  BY <1>1, <1>2, <1>3, LockMoves
<1>5. Written' = Written
  BY <1>2 DEF Written
<1>6. BusyOK'
  BY <1>1, <1>2 DEF BusyOK
<1>7. ~cut => IdleOK'
  <2> SUFFICES ASSUME ~cut
               PROVE  /\ IsPrefix(out, FlattenSeq(Written))
                      /\ ~failed => out = FlattenSeq(Written)
    BY <1>2, <1>5 DEF IdleOK
  <2>1. PICK before \in Seq(Bytes) :
          /\ FlattenSeq(Written) = before \o ServerFrame(reply[w])
          /\ IF failed THEN IsPrefix(out, FlattenSeq(Written))
                       ELSE out = before \o Progress("end", reply[w])
    BY <1>2, <1>3 DEF WriteInv, BusyOK
  <2>2. ~failed => out = FlattenSeq(Written)
    BY <2>1 DEF Progress
  <2>3. FlattenSeq(Written) \in Seq(Bytes)
    BY DEF WriteInv, Flattened
  <2> QED
    BY <2>1, <2>2, <2>3, BytesPrefix
<1> QED
  BY <1>2, <1>4, <1>5, <1>6, <1>7 DEF WriteInv

LEMMA WriteStep == WriteInv /\ [FramingNext]_vars => WriteInv'
<1> SUFFICES ASSUME WriteInv, [FramingNext]_vars PROVE WriteInv'
  OBVIOUS
<1>0. FramingTypeOK
  BY DEF WriteInv
<1>1. FramingTypeOK'
  BY <1>0, FramingStepTyped, FramingStutters
<1>2. CASE PeerSends \/ PeerLeaves \/ read \/ UNCHANGED vars
  <2>1. UNCHANGED writing /\ (open' => open)
    BY <1>2 DEF PeerSends, PeerLeaves, read, ReadSome, HeaderReceived, PayloadReceived,
                EmptyPayload, ReadError, Bring, Alive, vars
  <2> QED
    BY <2>1, <1>1, WriteSettled
<1>3. ASSUME NEW w \in Writers, StartWrite(w)
      PROVE  WriteInv'
  BY <1>1, <1>3, StartKeeps
<1>4. ASSUME NEW w \in Writers, WriteFlag(w) \/ WriteSize(w) \/ WriteData(w)
      PROVE  WriteInv'
  <2>1. /\ "flag" \in Places /\ "size" \in Places /\ "data" \in Places /\ "end" \in Places
    BY DEF Places
  <2>2. /\ reply[w] \in Replies /\ reply[w] \in Seq(Bytes) /\ <<0>> \in Seq(Bytes)
        /\ SizeBytes(Len(reply[w])) \in Seq(Bytes)
    BY <1>0, ReplyType
  <2>3. CASE WriteFlag(w)
    BY <1>1, <2>1, <2>2, <2>3, SomeKeeps, ProgressGoes DEF WriteFlag
  <2>4. CASE WriteSize(w)
    BY <1>1, <2>1, <2>2, <2>4, SomeKeeps, ProgressGoes DEF WriteSize
  <2>5. CASE WriteData(w)
    BY <1>1, <2>1, <2>2, <2>5, SomeKeeps, ProgressGoes DEF WriteData
  <2> QED
    BY <1>4, <2>3, <2>4, <2>5
<1>5. ASSUME NEW w \in Writers, EndWrite(w)
      PROVE  WriteInv'
  BY <1>1, <1>5, EndKeeps
<1> QED
  BY <1>2, <1>3, <1>4, <1>5 DEF FramingNext, GoOn

LEMMA WriteInvariant == FramingSpec => []WriteInv
BY WriteInitInv, WriteStep, FramingSteps, PTL

(* m_mtx_write, held over the three writes and the close, keeps the frames *)
(* of several threads apart.                                               *)
THEOREM FramesDoNotMixCorrect == FramingSpec => []FramesDoNotMix
<1>1. WriteInv => FramesDoNotMix
  <2> SUFFICES ASSUME WriteInv, ~cut
               PROVE  /\ IsPrefix(out, FlattenSeq(Written))
                      /\ open /\ m_mtx_write = Nobody => out = FlattenSeq(Written)
    BY DEF FramesDoNotMix, Written
  <2>1. CASE m_mtx_write = Nobody
    BY <2>1 DEF WriteInv, IdleOK
  <2>2. ASSUME NEW w \in Writers, m_mtx_write = w
        PROVE  IsPrefix(out, FlattenSeq(Written))
    <3>0. FramingTypeOK /\ Nobody \notin Writers
      BY FramingAssumption DEF WriteInv
    <3>1. PICK before \in Seq(Bytes) :
            /\ FlattenSeq(Written) = before \o ServerFrame(reply[w])
            /\ IF failed THEN IsPrefix(out, FlattenSeq(Written))
                         ELSE out = before \o Progress(pc[w], reply[w])
      BY <2>2 DEF WriteInv, BusyOK
    <3>2. CASE failed
      BY <3>1, <3>2
    <3>3. CASE ~failed
      <4> DEFINE done == Progress(pc[w], reply[w])
                 frame == ServerFrame(reply[w])
      <4>1. pc[w] \in Places /\ pc[w] # "idle"
        BY <2>2, <3>0 DEF WriteInv, LockOK, FramingTypeOK
      <4>2. done \in Seq(Bytes) /\ \E left \in Seq(Bytes) : frame = done \o left
        BY <4>1, <3>0, ReplyType, ProgressIsPart
      <4>3. PICK left \in Seq(Bytes) : frame = done \o left
        BY <4>2
      <4>4. out = before \o done /\ FlattenSeq(Written) = before \o (done \o left)
        BY <3>1, <3>3, <4>3
      <4> HIDE DEF done, frame
      <4>5. FlattenSeq(Written) = (before \o done) \o left /\ before \o done \in Seq(Bytes)
        BY <4>2, <4>4, BytesGrouped, Taken
      <4> QED
        BY <4>4, <4>5, BytesPrefix
    <3> QED
      BY <3>2, <3>3
  <2>3. m_mtx_write = Nobody \/ \E w \in Writers : m_mtx_write = w
    BY DEF WriteInv, FramingTypeOK
  <2>4. CASE m_mtx_write # Nobody
    BY <2>2, <2>3, <2>4
  <2> QED
    BY <2>1, <2>4
<1> QED
  BY <1>1, WriteInvariant, PTL
=============================================================================
