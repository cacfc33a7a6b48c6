------------------------- MODULE StompParser_proofs -------------------------
(***************************************************************************)
(* What TLAPS proves of StompParser: the types, that the parser            *)
(* understands exactly the frames of the grammar, that each frame gets the *)
(* outcome that the grammar and its headers call for, and that what one    *)
(* client library sends another reads; for all frames, of any length.      *)
(*                                                                         *)
(* The grammar is not an algorithm: it names the least number that ends    *)
(* the head, and the last line of a name.  That such numbers are there is  *)
(* the well-foundedness of < on the naturals, which the library states of  *)
(* sets; with it no step needs an induction over the frame.  The parser    *)
(* walks the frame line by line, and the invariant carries what it read as *)
(* HeadersUpTo(data, pos), the grammar's headers cut off at its position.  *)
(*                                                                         *)
(* The frames that are written need no parsing: Layout names each of their *)
(* places, and the grammar's head, keys and values follow from it.         *)
(***************************************************************************)
EXTENDS StompParser, WellFoundedInduction, TLAPS

-----------------------------------------------------------------------------
(* The least and the greatest of a set.                                    *)
LEMMA Least ==
  ASSUME NEW T, T \subseteq Nat, T # {}
  PROVE  \E x \in T : \A y \in T : x <= y
<1> DEFINE R == OpToRel(<, Nat)
<1>1. IsWellFoundedOn(R, Nat)
  BY NatLessThanWellFounded
<1>2. \A x, y \in Nat : x < y => <<x, y>> \in R
  BY DEF OpToRel
<1> HIDE DEF R
<1>3. PICK x \in T : \A y \in T : ~(<<y, x>> \in R)
  BY <1>1, WFMin
<1>4. \A y \in T : ~(y < x)
  BY <1>2, <1>3
<1> QED
  BY <1>4

LEMMA MinIs ==
  ASSUME NEW T, T \subseteq Nat, T # {}
  PROVE  Min(T) \in T /\ \A y \in T : Min(T) <= y
BY Least DEF Min

LEMMA MaxIs ==
  ASSUME NEW T, T \subseteq Nat, T # {}, NEW n \in Nat, \A y \in T : y <= n
  PROVE  Max(T) \in T /\ \A y \in T : y <= Max(T)
<1> DEFINE D == {n - y : y \in T}
<1>1. D \subseteq Nat /\ D # {}
  <2>1. \A y \in T : n - y \in Nat
    OBVIOUS
  <2> QED
    BY <2>1
<1>2. PICK d \in D : \A e \in D : d <= e
  BY <1>1, Least
<1>3. PICK x \in T : d = n - x
  OBVIOUS
<1>4. \A y \in T : n - x <= n - y
  BY <1>2, <1>3
<1>5. \A y \in T : x >= y
  BY <1>4
<1> QED
  BY <1>3, <1>5 DEF Max

LEMMA MaxOf ==
  ASSUME NEW T, T \subseteq Nat, NEW n \in T, \A y \in T : y <= n
  PROVE  Max(T) = n
<1>1. Max(T) \in T /\ \A y \in T : y <= Max(T)
  BY MaxIs
<1>2. Max(T) \in Nat /\ n \in Nat /\ n <= Max(T) /\ Max(T) <= n
  BY <1>1
<1> QED
  BY <1>2

-----------------------------------------------------------------------------
(* The next token of a set.                                                *)
LEMMA FirstOfIs ==
  ASSUME NEW S, NEW s \in Words, NEW from \in Nat, from >= 1
  PROVE  LET e == FirstOf(S, s, from) IN
         /\ e \in Nat /\ e <= Len(s) + 1
         /\ e <= Len(s) => e >= from /\ s[e] \in S
         /\ \A i \in Nat : i >= from /\ i < e => s[i] \notin S
         /\ from <= Len(s) + 1 => e >= from
<1> DEFINE I == {i \in from..Len(s) : s[i] \in S}
           e == FirstOf(S, s, from)
<1>1. Len(s) \in Nat
  BY DEF Words
<1>2. e = LET i == IF I # {} THEN Min(I) ELSE 0 IN IF i = 0 THEN Len(s) + 1 ELSE i
  BY DEF FirstOf, SelectInSubSeq
<1>3. I \subseteq Nat /\ 0 \notin I /\ \A i \in I : i \in from..Len(s) /\ s[i] \in S
  BY <1>1
<1>4. CASE I = {}
  <2>1. e = Len(s) + 1
    BY <1>2, <1>4
  <2>2. \A i \in from..Len(s) : s[i] \notin S
    BY <1>4
  <2> QED
    BY <2>1, <2>2, <1>1
<1>5. CASE I # {}
  <2>1. Min(I) \in I /\ \A y \in I : Min(I) <= y
    BY <1>3, <1>5, MinIs
  <2>2. e = Min(I)
    BY <1>2, <1>3, <1>5, <2>1
  <2>3. e \in from..Len(s) /\ s[e] \in S
    BY <1>3, <2>1, <2>2
  <2>4. \A i \in from..Len(s) : s[i] \in S => e <= i
    BY <2>1, <2>2
  <2> HIDE DEF I, e
  <2>5. \A i \in Nat : i >= from /\ i < e => s[i] \notin S
    BY <1>1, <2>3, <2>4
  <2> QED
    BY <1>1, <2>3, <2>5 DEF e
<1> QED
  BY <1>4, <1>5

LEMMA FirstOfUnique ==
  ASSUME NEW S, NEW s \in Words, NEW from \in Nat, from >= 1,
         NEW e \in Nat, e >= from, e <= Len(s) + 1,
         \A i \in Nat : i >= from /\ i < e => s[i] \notin S,
         e <= Len(s) => s[e] \in S
  PROVE  FirstOf(S, s, from) = e
<1> DEFINE d == FirstOf(S, s, from)
<1>1. /\ d \in Nat /\ d <= Len(s) + 1
      /\ d <= Len(s) => d >= from /\ s[d] \in S
      /\ \A i \in Nat : i >= from /\ i < d => s[i] \notin S
      /\ from <= Len(s) + 1 => d >= from
  BY FirstOfIs
<1>2. Len(s) \in Nat
  BY DEF Words
<1> HIDE DEF d
<1>3. d = e
  BY <1>1, <1>2
<1> QED
  BY <1>3 DEF d

-----------------------------------------------------------------------------
(* Words and their parts.                                                  *)
LEMMA WordPart ==
  ASSUME NEW w \in Words, NEW m \in Nat, NEW n \in Nat, m >= 1, n <= Len(w)
  PROVE  /\ SubSeq(w, m, n) \in Words
         /\ Len(SubSeq(w, m, n)) = IF m <= n THEN n - m + 1 ELSE 0
         /\ \A i \in Nat : i >= 1 /\ i <= Len(SubSeq(w, m, n)) => SubSeq(w, m, n)[i] = w[m + i - 1]
BY DEF Words

LEMMA WordElement ==
  ASSUME NEW w \in Words, NEW i \in Nat, i >= 1, i <= Len(w)
  PROVE  w[i] \in Tokens
BY DEF Words

LEMMA WordLength ==
  ASSUME NEW w \in Words
  PROVE  Len(w) \in Nat /\ (Len(w) = 0 <=> w = <<>>)
BY DEF Words

LEMMA PartOfPart ==
  ASSUME NEW w \in Words, NEW m \in Nat, NEW n \in Nat, m >= 1, n <= Len(w),
         NEW i \in Nat, NEW j \in Nat, i >= 1, j <= n - m + 1
  PROVE  SubSeq(SubSeq(w, m, n), i, j) = SubSeq(w, m + i - 1, m + j - 1)
BY DEF Words

LEMMA EmptyWord == <<>> \in Words
BY DEF Words

LEMMA Joined ==
  ASSUME NEW w \in Words, NEW v \in Words
  PROVE  w \o v \in Words
BY DEF Words

(* A word that trim leaves as it is.                                       *)
Tight(w) == w # <<>> => w[1] # Blank /\ w[Len(w)] # Blank

LEMMA TrimTight ==
  ASSUME NEW w \in Words, Tight(w)
  PROVE  trim(w) = w
<1> DEFINE I == {i \in 1..Len(w) : w[i] # Blank}
<1>0. Len(w) \in Nat
  BY WordLength
<1>1. I \subseteq 1..Len(w) /\ (w # <<>> => 1 \in I /\ Len(w) \in I) /\ (w = <<>> => I = {})
  BY <1>0, WordLength DEF Tight
<1>2. /\ SelectLastInSeq(w, LAMBDA c : c # Blank) = IF I # {} THEN Max(I) ELSE 0
      /\ SelectInSeq(w, LAMBDA c : c # Blank) = IF I # {} THEN Min(I) ELSE 0
  BY DEF SelectLastInSeq, SelectInSeq
<1> HIDE DEF I
<1>3. CASE Len(w) = 0
  <2>1. w = <<>> /\ I = {}
    BY <1>0, <1>1, <1>3, WordLength
  <2>2. rtrim(w) = SubSeq(w, 1, 0)
    BY <1>2, <2>1 DEF rtrim
  <2>3. rtrim(w) = <<>>
    BY <2>1, <2>2
  <2> QED
    BY <2>1, <2>3 DEF trim
<1>4. CASE Len(w) # 0
  <2>1. I \subseteq Nat /\ Len(w) \in I /\ 1 \in I /\ \A y \in I : y <= Len(w) /\ 1 <= y
    BY <1>0, <1>1, <1>4, WordLength
  <2>2. Max(I) = Len(w)
    BY <2>1, MaxOf
  <2>3. Min(I) = 1
    <3>1. Min(I) \in I /\ \A y \in I : Min(I) <= y
      BY <2>1, MinIs
    <3>2. Min(I) \in Nat /\ Min(I) <= 1 /\ 1 <= Min(I)
      BY <3>1, <2>1
    <3> QED
      BY <3>2
  <2>4. SubSeq(w, 1, Len(w)) = w
    BY DEF Words
  <2>5. rtrim(w) = w /\ ltrim(w) = w
    BY <1>2, <2>1, <2>2, <2>3, <2>4 DEF rtrim, ltrim
  <2> QED
    BY <2>5, <1>4 DEF trim
<1> QED
  BY <1>3, <1>4

LEMMA TrimIs ==
  ASSUME NEW w \in Words
  PROVE  /\ trim(w) \in Words /\ Tight(trim(w))
         /\ \A i \in 1..Len(trim(w)) : \E j \in 1..Len(w) : trim(w)[i] = w[j]
<1> DEFINE I == {i \in 1..Len(w) : w[i] # Blank}
           n == SelectLastInSeq(w, LAMBDA c : c # Blank)
<1>0. Len(w) \in Nat
  BY WordLength
<1>1. n = IF I # {} THEN Max(I) ELSE 0
  BY DEF SelectLastInSeq
<1>2. n \in 0..Len(w) /\ (n # 0 => w[n] # Blank)
  <2>1. I \subseteq Nat /\ \A y \in I : y <= Len(w)
    BY <1>0
  <2>2. I # {} => Max(I) \in I
    BY <2>1, <1>0, MaxIs
  <2>3. CASE I = {}
    BY <2>3, <1>0, <1>1
  <2>4. CASE I # {}
    BY <2>2, <2>4, <1>0, <1>1
  <2> QED
    BY <2>3, <2>4
<1> HIDE DEF n
<1> DEFINE v == SubSeq(w, 1, n)
<1>3. /\ v \in Words /\ Len(v) = n /\ rtrim(w) = v
      /\ \A i \in Nat : i >= 1 /\ i <= n => v[i] = w[i]
  <2>1. n \in Nat /\ n <= Len(w) /\ (1 <= n => n - 1 + 1 = n) /\ (~(1 <= n) => n = 0)
    BY <1>0, <1>2
  <2>2. /\ v \in Words /\ Len(v) = IF 1 <= n THEN n - 1 + 1 ELSE 0
        /\ \A i \in Nat : i >= 1 /\ i <= Len(v) => v[i] = w[1 + i - 1]
    BY <2>1, WordPart
  <2>3. rtrim(w) = v
    BY DEF rtrim, n
  <2> HIDE DEF v
  <2>4. Len(v) = n
    BY <2>1, <2>2
  <2>5. \A i \in Nat : 1 + i - 1 = i
    OBVIOUS
  <2> QED
    BY <2>2, <2>3, <2>4, <2>5
<1> DEFINE J == {i \in 1..Len(v) : v[i] # Blank}
           m == SelectInSeq(v, LAMBDA c : c # Blank)
<1>4. m = IF J # {} THEN Min(J) ELSE 0
  BY DEF SelectInSeq
<1>5. CASE v = <<>>
  <2>1. trim(w) = <<>>
    BY <1>3, <1>5 DEF trim
  <2> QED
    BY <2>1, EmptyWord DEF Tight
<1>6. CASE v # <<>>
  <2>1. n \in J
    BY <1>2, <1>3, <1>6, WordLength
  <2>2. J \subseteq 1..n
    BY <1>2, <1>3
  <2>3. m \in J
    <3>1. J \subseteq Nat
      BY <2>2
    <3> QED
      BY <2>1, <3>1, <1>4, MinIs
  <2>4. m \in 1..n /\ v[m] # Blank /\ n \in Nat
    BY <2>2, <2>3, <1>2
  <2>5. trim(w) = SubSeq(v, m, n)
    BY <1>3, <1>6 DEF trim, ltrim
  <2> HIDE DEF v, m, J
  <2> DEFINE t == SubSeq(v, m, n)
  <2>6. /\ t \in Words /\ Len(t) = n - m + 1
        /\ \A i \in Nat : i >= 1 /\ i <= Len(t) => t[i] = v[m + i - 1]
    BY <1>3, <2>4, WordPart
  <2> HIDE DEF t
  <2>7. t[1] = v[m] /\ t[Len(t)] = v[n] /\ v[n] = w[n] /\ w[n] # Blank
    <3>1. m + 1 - 1 = m /\ m + Len(t) - 1 = n /\ Len(t) >= 1 /\ Len(t) \in Nat /\ n >= 1
      BY <2>4, <2>6
    <3> QED
      BY <3>1, <2>6, <1>2, <1>3, <2>4
  <2>8. ASSUME NEW i \in 1..Len(t) PROVE \E j \in 1..Len(w) : t[i] = w[j]
    <3>1. m + i - 1 \in 1..n /\ i \in Nat /\ n <= Len(w)
      BY <2>4, <2>6, <1>2
    <3>2. t[i] = w[m + i - 1]
      BY <3>1, <2>6, <1>3, <2>4
    <3>3. m + i - 1 \in 1..Len(w)
      <4> DEFINE k == m + i - 1
      <4>1. k \in 1..n
        BY <3>1
      <4> HIDE DEF k
      <4>2. k \in 1..Len(w)
        BY <4>1, <3>1, <1>0, <2>4
      <4> QED
        BY <4>2 DEF k
    <3> QED
      BY <3>2, <3>3
  <2> QED
    BY <2>5, <2>6, <2>7, <2>8, <2>4 DEF Tight, t
<1> QED
  BY <1>5, <1>6

LEMMA TrimTwice == ASSUME NEW w \in Words PROVE trim(trim(w)) = trim(w)
BY TrimIs, TrimTight

LEMMA SameWord ==
  ASSUME NEW w \in Words, NEW v \in Words, Len(w) = Len(v), \A i \in 1..Len(w) : w[i] = v[i]
  PROVE  w = v
BY DEF Words

LEMMA TrimType == ASSUME NEW w \in Words PROVE trim(w) \in Words
BY TrimIs

LEMMA TrimPlain ==
  ASSUME NEW w \in Words, \A i \in Nat : i >= 1 /\ i <= Len(w) => w[i] # Blank
  PROVE  trim(w) = w
<1>1. w # <<>> => Len(w) \in Nat /\ Len(w) >= 1
  BY WordLength
<1>2. Tight(w)
  BY <1>1 DEF Tight
<1> QED
  BY <1>2, TrimTight

-----------------------------------------------------------------------------
(* The frames of the client libraries are words.                           *)
LEMMA TokenFacts ==
  /\ Commands \subseteq Tokens /\ HeaderNames \subseteq Tokens
  /\ {LF, NUL, Colon, Blank, "x", "1"} \subseteq Tokens
  /\ \A c \in Commands : c # LF /\ c # NUL /\ c # Blank /\ c # Colon
  /\ LF # NUL /\ LF # Blank /\ NUL # Blank /\ LF # Colon /\ NUL # Colon
BY FramesAssumption DEF Tokens, Commands, LF, NUL, Colon, Blank

LEMMA RawWords == RawFrames \subseteq Words /\ Bodies \subseteq Words /\ Values \subseteq Words
BY FramesAssumption

LEMMA OneToken == ASSUME NEW t \in Tokens PROVE <<t>> \in Words
BY DEF Words

LEMMA TwoTokens == ASSUME NEW t \in Tokens, NEW u \in Tokens PROVE <<t, u>> \in Words
BY DEF Words

Cat(w, v) == w \o v

LEMMA CatWords == \A w, v \in Words : Cat(w, v) \in Words
BY Joined DEF Cat

Solves(f, s) == f = [i \in 1..Len(s) |-> IF i = 1 THEN s[i] ELSE Cat(f[i - 1], s[i])]

LEMMA FlattenSolves ==
  ASSUME NEW s, Len(s) # 0, NEW f, Solves(f, s)
  PROVE  \E g : Solves(g, s) /\ FlattenSeq(s) = g[Len(s)]
BY DEF FlattenSeq, Solves, Cat

LEMMA SixLong == ASSUME NEW s, DOMAIN s = 1..6 PROVE Len(s) = 6
OBVIOUS

(* Six lines, which a frame of a SEND or of a MESSAGE has, joined.         *)
Six(s) == Cat(Cat(Cat(Cat(Cat(s[1], s[2]), s[3]), s[4]), s[5]), s[6])

LEMMA SixFlat ==
  ASSUME NEW s, Len(s) = 6
  PROVE  FlattenSeq(s) = Six(s)
<1>0. 1..Len(s) = 1..6
  OBVIOUS
<1>1. \E f : Solves(f, s)
  <2>0. \E v1, v2, v3, v4, v5, v6 :
          /\ v1 = s[1] /\ v2 = Cat(v1, s[2]) /\ v3 = Cat(v2, s[3]) /\ v4 = Cat(v3, s[4])
          /\ v5 = Cat(v4, s[5]) /\ v6 = Cat(v5, s[6])
    OBVIOUS
  <2>1. PICK v1, v2, v3, v4, v5, v6 :
          /\ v1 = s[1] /\ v2 = Cat(v1, s[2]) /\ v3 = Cat(v2, s[3]) /\ v4 = Cat(v3, s[4])
          /\ v5 = Cat(v4, s[5]) /\ v6 = Cat(v5, s[6])
    BY <2>0
  <2> DEFINE f == [i \in 1..6 |-> IF i = 1 THEN v1 ELSE IF i = 2 THEN v2 ELSE IF i = 3 THEN v3
                                  ELSE IF i = 4 THEN v4 ELSE IF i = 5 THEN v5 ELSE v6]
  <2>2. f[1] = v1 /\ f[2] = v2 /\ f[3] = v3 /\ f[4] = v4 /\ f[5] = v5 /\ f[6] = v6
    OBVIOUS
  <2>3. f = [i \in 1..6 |-> f[i]]
    OBVIOUS
  <2> HIDE DEF f
  <2>4. ASSUME NEW i \in 1..6
        PROVE  f[i] = IF i = 1 THEN s[i] ELSE Cat(f[i - 1], s[i])
    <3>1. CASE i = 1
      BY <3>1, <2>2, <2>1
    <3>2. CASE i = 2
      BY <3>2, <2>2, <2>1
    <3>3. CASE i = 3
      BY <3>3, <2>2, <2>1
    <3>4. CASE i = 4
      BY <3>4, <2>2, <2>1
    <3>5. CASE i = 5
      BY <3>5, <2>2, <2>1
    <3>6. CASE i = 6
      BY <3>6, <2>2, <2>1
    <3> QED
      BY <3>1, <3>2, <3>3, <3>4, <3>5, <3>6
  <2>5. f = [i \in 1..6 |-> IF i = 1 THEN s[i] ELSE Cat(f[i - 1], s[i])]
    BY <2>3, <2>4
  <2> QED
    BY <1>0, <2>5 DEF Solves
<1>2. PICK g : Solves(g, s) /\ FlattenSeq(s) = g[6]
  <2>1. PICK f : Solves(f, s)
    BY <1>1
  <2>2. Len(s) # 0
    OBVIOUS
  <2>3. \E g : Solves(g, s) /\ FlattenSeq(s) = g[Len(s)]
    BY <2>1, <2>2, FlattenSolves, Zenon
  <2> QED
    BY <2>3
<1>3. /\ g[1] = s[1] /\ g[2] = Cat(g[1], s[2]) /\ g[3] = Cat(g[2], s[3])
      /\ g[4] = Cat(g[3], s[4]) /\ g[5] = Cat(g[4], s[5]) /\ g[6] = Cat(g[5], s[6])
  <2>1. g = [i \in 1..6 |-> IF i = 1 THEN s[i] ELSE Cat(g[i - 1], s[i])]
    BY <1>0, <1>2 DEF Solves
  <2>2. \A i \in 1..6 : g[i] = IF i = 1 THEN s[i] ELSE Cat(g[i - 1], s[i])
    BY <2>1
  <2> QED
    BY <2>2
<1> QED
  BY <1>2, <1>3, Zenon DEF Six

(* Where a word stands in another: w is what follows the k-th token of f.  *)
At(f, k, w) == k + Len(w) <= Len(f) /\ \A i \in 1..Len(w) : f[k + i] = w[i]

LEMMA AtJoined ==
  ASSUME NEW x \in Words, NEW y \in Words
  PROVE  /\ Cat(x, y) \in Words /\ Len(Cat(x, y)) = Len(x) + Len(y)
         /\ At(Cat(x, y), 0, x) /\ At(Cat(x, y), Len(x), y)
BY DEF Words, Cat, At

LEMMA AtInside ==
  ASSUME NEW f \in Words, NEW x \in Words, NEW w \in Words, NEW k \in Nat, NEW j \in Nat,
         At(f, k, x), At(x, j, w)
  PROVE  At(f, k + j, w)
<1>1. Len(f) \in Nat /\ Len(x) \in Nat /\ Len(w) \in Nat
  BY WordLength
<1>2. k + Len(x) <= Len(f) /\ j + Len(w) <= Len(x)
  BY DEF At
<1>3. ASSUME NEW i \in 1..Len(w) PROVE f[(k + j) + i] = w[i]
  <2>1. j + i \in 1..Len(x) /\ k + (j + i) = (k + j) + i
    BY <1>1, <1>2
  <2> QED
    BY <2>1 DEF At
<1> QED
  BY <1>1, <1>2, <1>3 DEF At

LEMMA AtFirst ==
  ASSUME NEW x \in Words, NEW y \in Words, NEW w \in Words, NEW k \in Nat, At(x, k, w)
  PROVE  At(Cat(x, y), k, w)
<1>1. At(Cat(x, y), 0 + k, w)
  BY AtJoined, AtInside
<1> QED
  BY <1>1

LEMMA SixAt ==
  ASSUME NEW s, Len(s) = 6, \A i \in 1..6 : s[i] \in Words
  PROVE  LET l1 == Len(s[1])
             l2 == l1 + Len(s[2])
             l3 == l2 + Len(s[3])
             l4 == l3 + Len(s[4])
             l5 == l4 + Len(s[5])
         IN /\ Six(s) \in Words /\ Len(Six(s)) = l5 + Len(s[6])
            /\ At(Six(s), 0, s[1]) /\ At(Six(s), l1, s[2]) /\ At(Six(s), l2, s[3])
            /\ At(Six(s), l3, s[4]) /\ At(Six(s), l4, s[5]) /\ At(Six(s), l5, s[6])
<1>0. /\ s[1] \in Words /\ s[2] \in Words /\ s[3] \in Words
      /\ s[4] \in Words /\ s[5] \in Words /\ s[6] \in Words
  OBVIOUS
<1> DEFINE a2 == Cat(s[1], s[2])
           a3 == Cat(a2, s[3])
           a4 == Cat(a3, s[4])
           a5 == Cat(a4, s[5])
           a6 == Cat(a5, s[6])
<1>1. Six(s) = a6
  BY DEF Six
<1>2. /\ Len(s[1]) \in Nat /\ Len(s[2]) \in Nat /\ Len(s[3]) \in Nat
      /\ Len(s[4]) \in Nat /\ Len(s[5]) \in Nat /\ Len(s[6]) \in Nat
  BY <1>0, WordLength
<1>3. /\ a2 \in Words /\ Len(a2) = Len(s[1]) + Len(s[2])
      /\ At(a2, 0, s[1]) /\ At(a2, Len(s[1]), s[2])
  BY <1>0, AtJoined
<1> HIDE DEF a2
<1>4. /\ a3 \in Words /\ Len(a3) = Len(a2) + Len(s[3]) /\ At(a3, Len(a2), s[3])
      /\ \A w \in Words, k \in Nat : At(a2, k, w) => At(a3, k, w)
  BY <1>0, <1>3, AtJoined, AtFirst
<1> HIDE DEF a3
<1>5. /\ a4 \in Words /\ Len(a4) = Len(a3) + Len(s[4]) /\ At(a4, Len(a3), s[4])
      /\ \A w \in Words, k \in Nat : At(a3, k, w) => At(a4, k, w)
  BY <1>0, <1>4, AtJoined, AtFirst
<1> HIDE DEF a4
<1>6. /\ a5 \in Words /\ Len(a5) = Len(a4) + Len(s[5]) /\ At(a5, Len(a4), s[5])
      /\ \A w \in Words, k \in Nat : At(a4, k, w) => At(a5, k, w)
  BY <1>0, <1>5, AtJoined, AtFirst
<1> HIDE DEF a5
<1>7. /\ a6 \in Words /\ Len(a6) = Len(a5) + Len(s[6]) /\ At(a6, Len(a5), s[6])
      /\ \A w \in Words, k \in Nat : At(a5, k, w) => At(a6, k, w)
  BY <1>0, <1>6, AtJoined, AtFirst
<1> HIDE DEF a6
<1>8. \A w \in Words, k \in Nat : At(a2, k, w) => At(a6, k, w)
  BY <1>4, <1>5, <1>6, <1>7
<1>9. \A w \in Words, k \in Nat : At(a3, k, w) => At(a6, k, w)
  BY <1>5, <1>6, <1>7
<1>10. \A w \in Words, k \in Nat : At(a4, k, w) => At(a6, k, w)
  BY <1>6, <1>7
<1>11. Len(a2) \in Nat /\ Len(a3) \in Nat /\ Len(a4) \in Nat
  BY <1>2, <1>3, <1>4, <1>5
<1>12. At(a6, 0, s[1]) /\ At(a6, Len(s[1]), s[2])
  BY <1>0, <1>2, <1>3, <1>8
<1>13. At(a6, Len(a2), s[3])
  BY <1>0, <1>11, <1>4, <1>9
<1>14. At(a6, Len(a3), s[4])
  BY <1>0, <1>11, <1>5, <1>10
<1>15. At(a6, Len(a4), s[5])
  BY <1>0, <1>11, <1>6, <1>7
<1> QED
  BY <1>1, <1>3, <1>4, <1>5, <1>6, <1>7, <1>12, <1>13, <1>14, <1>15

-----------------------------------------------------------------------------
(* A line of a header, and the frame of a client or of the server.         *)
Line(name, value) == Cat(Cat(<<name, Colon>>, value), <<LF>>)

LEMMA LineAt ==
  ASSUME NEW name \in HeaderNames, NEW v \in Words
  PROVE  LET l == Line(name, v)
         IN /\ l \in Words /\ Len(l) = Len(v) + 3 /\ l[1] = name /\ l[2] = Colon
            /\ At(l, 2, v) /\ l[Len(v) + 3] = LF
<1> DEFINE a == <<name, Colon>>
           x == Cat(a, v)
           e == <<LF>>
           l == Cat(x, e)
<1>1. /\ a \in Words /\ Len(a) = 2 /\ a[1] = name /\ a[2] = Colon
      /\ e \in Words /\ Len(e) = 1 /\ e[1] = LF
  BY TokenFacts, OneToken, TwoTokens
<1> HIDE DEF a, e
<1>2. x \in Words /\ Len(x) = 2 + Len(v) /\ At(x, 0, a) /\ At(x, 2, v)
  BY <1>1, AtJoined
<1> HIDE DEF x
<1>3. /\ l \in Words /\ Len(l) = Len(x) + 1 /\ At(l, 0, x) /\ At(l, Len(x), e)
      /\ At(l, 0, a) /\ At(l, 2, v)
  BY <1>1, <1>2, AtJoined, AtFirst
<1>4. l = Line(name, v)
  BY DEF Line, x, a, e
<1> HIDE DEF l
<1>5. l[0 + 1] = name /\ l[0 + 2] = Colon /\ l[Len(x) + 1] = LF
  BY <1>1, <1>3 DEF At
<1>6. Len(v) \in Nat
  BY WordLength
<1>7. l[1] = name /\ l[2] = Colon /\ l[Len(v) + 3] = LF /\ Len(l) = Len(v) + 3
  BY <1>2, <1>3, <1>5, <1>6
<1> QED
  BY <1>3, <1>4, <1>7

LEMMA ShortLine ==
  ASSUME NEW name \in HeaderNames, NEW t \in Tokens
  PROVE  Line(name, <<t>>) \in Words /\ Len(Line(name, <<t>>)) = 4
<1>1. <<t>> \in Words /\ Len(<<t>>) = 1
  BY OneToken
<1>2. Line(name, <<t>>) \in Words /\ Len(Line(name, <<t>>)) = Len(<<t>>) + 3
  BY <1>1, LineAt
<1> QED
  BY <1>1, <1>2

SendHeaders(v, w) ==
  << <<"transaction", <<"1">>>>, <<"session-id", <<"x">>>>, <<"origin", <<"x">>>>,
     <<"destination", <<"x">>>>, <<"content-type", v>>, <<"content-length", w>> >>

LEMMA LinesOf ==
  ASSUME NEW v \in Words, NEW w \in Words
  PROVE  \E s : /\ Len(s) = 6 /\ HeaderLines(SendHeaders(v, w)) = Six(s)
                /\ s[1] = Line("transaction", <<"1">>) /\ s[2] = Line("session-id", <<"x">>)
                /\ s[3] = Line("origin", <<"x">>) /\ s[4] = Line("destination", <<"x">>)
                /\ s[5] = Line("content-type", v) /\ s[6] = Line("content-length", w)
<1> DEFINE p == SendHeaders(v, w)
           s == [i \in DOMAIN p |-> <<p[i][1], Colon>> \o p[i][2] \o <<LF>>]
<1>1. /\ DOMAIN p = 1..6
      /\ p[1] = <<"transaction", <<"1">>>> /\ p[2] = <<"session-id", <<"x">>>>
      /\ p[3] = <<"origin", <<"x">>>> /\ p[4] = <<"destination", <<"x">>>>
      /\ p[5] = <<"content-type", v>> /\ p[6] = <<"content-length", w>>
  BY DEF SendHeaders
<1> HIDE DEF p
<1>2. s = [i \in 1..6 |-> Line(p[i][1], p[i][2])]
  BY <1>1 DEF Line, Cat
<1>3. HeaderLines(p) = FlattenSeq(s)
  BY DEF HeaderLines
<1> HIDE DEF s
<1>4. DOMAIN s = 1..6 /\ \A i \in 1..6 : s[i] = Line(p[i][1], p[i][2])
  BY <1>2
<1>5. Len(s) = 6
  BY <1>4, SixLong, Zenon
<1>6. HeaderLines(p) = Six(s)
  BY <1>3, <1>5, SixFlat
<1>7. /\ s[1] = Line("transaction", <<"1">>) /\ s[2] = Line("session-id", <<"x">>)
      /\ s[3] = Line("origin", <<"x">>) /\ s[4] = Line("destination", <<"x">>)
      /\ s[5] = Line("content-type", v) /\ s[6] = Line("content-length", w)
  <2>1. /\ s[1] = Line(p[1][1], p[1][2]) /\ s[2] = Line(p[2][1], p[2][2])
        /\ s[3] = Line(p[3][1], p[3][2]) /\ s[4] = Line(p[4][1], p[4][2])
        /\ s[5] = Line(p[5][1], p[5][2]) /\ s[6] = Line(p[6][1], p[6][2])
    BY <1>4
  <2> QED
    BY <1>1, <2>1
<1> QED
  BY <1>5, <1>6, <1>7 DEF p

LEMMA HeadersAt ==
  ASSUME NEW v \in Words, NEW w \in Words
  PROVE  LET h == HeaderLines(SendHeaders(v, w))
         IN /\ h \in Words /\ Len(h) = 22 + Len(v) + Len(w)
            /\ At(h, 0, Line("transaction", <<"1">>)) /\ At(h, 4, Line("session-id", <<"x">>))
            /\ At(h, 8, Line("origin", <<"x">>)) /\ At(h, 12, Line("destination", <<"x">>))
            /\ At(h, 16, Line("content-type", v))
            /\ At(h, 19 + Len(v), Line("content-length", w))
<1>1. PICK s : /\ Len(s) = 6 /\ HeaderLines(SendHeaders(v, w)) = Six(s)
               /\ s[1] = Line("transaction", <<"1">>) /\ s[2] = Line("session-id", <<"x">>)
               /\ s[3] = Line("origin", <<"x">>) /\ s[4] = Line("destination", <<"x">>)
               /\ s[5] = Line("content-type", v) /\ s[6] = Line("content-length", w)
  BY LinesOf
<1>2. "1" \in Tokens /\ "x" \in Tokens
  BY TokenFacts
<1>3. {"transaction", "session-id", "origin", "destination", "content-type", "content-length"}
        \subseteq HeaderNames
  BY DEF HeaderNames
<1>4. /\ s[1] \in Words /\ Len(s[1]) = 4 /\ s[2] \in Words /\ Len(s[2]) = 4
      /\ s[3] \in Words /\ Len(s[3]) = 4 /\ s[4] \in Words /\ Len(s[4]) = 4
      /\ s[5] \in Words /\ Len(s[5]) = Len(v) + 3 /\ s[6] \in Words /\ Len(s[6]) = Len(w) + 3
  <2>1. s[1] \in Words /\ Len(s[1]) = 4 /\ s[2] \in Words /\ Len(s[2]) = 4
    BY <1>1, <1>2, <1>3, ShortLine
  <2>2. s[3] \in Words /\ Len(s[3]) = 4 /\ s[4] \in Words /\ Len(s[4]) = 4
    BY <1>1, <1>2, <1>3, ShortLine
  <2>3. s[5] \in Words /\ Len(s[5]) = Len(v) + 3 /\ s[6] \in Words /\ Len(s[6]) = Len(w) + 3
    BY <1>1, <1>3, LineAt
  <2> QED
    BY <2>1, <2>2, <2>3
<1>5. \A i \in 1..6 : s[i] \in Words
  BY <1>4
<1>6. LET l1 == Len(s[1])
          l2 == l1 + Len(s[2])
          l3 == l2 + Len(s[3])
          l4 == l3 + Len(s[4])
          l5 == l4 + Len(s[5])
      IN /\ Six(s) \in Words /\ Len(Six(s)) = l5 + Len(s[6])
         /\ At(Six(s), 0, s[1]) /\ At(Six(s), l1, s[2]) /\ At(Six(s), l2, s[3])
         /\ At(Six(s), l3, s[4]) /\ At(Six(s), l4, s[5]) /\ At(Six(s), l5, s[6])
  BY <1>1, <1>5, SixAt
<1>7. Len(v) \in Nat /\ Len(w) \in Nat
  BY WordLength
<1>8. /\ Six(s) \in Words /\ Len(Six(s)) = 22 + Len(v) + Len(w)
      /\ At(Six(s), 0, s[1]) /\ At(Six(s), 4, s[2]) /\ At(Six(s), 8, s[3])
      /\ At(Six(s), 12, s[4]) /\ At(Six(s), 16, s[5]) /\ At(Six(s), 19 + Len(v), s[6])
  BY <1>4, <1>6, <1>7
<1> QED
  BY <1>1, <1>8

LEMMA ReceivedType ==
  ASSUME NEW by \in {"js", "python"}, NEW v \in Values, NEW b \in Bodies
  PROVE  Received(by, v, b) \in Words
<1> DEFINE lines == HeaderLines(ClientHeaders(v))
           head == (<<"SEND", LF>> \o lines) \o <<LF>>
<1>1. v \in Words /\ b \in Words /\ lines \in Words
  <2>1. <<Blank, "1">> \in Words
    BY TokenFacts, TwoTokens
  <2>2. v \in Words /\ b \in Words
    BY RawWords
  <2>3. ClientHeaders(v) = SendHeaders(v, <<Blank, "1">>)
    BY DEF ClientHeaders, SendHeaders
  <2> QED
    BY <2>1, <2>2, <2>3, HeadersAt
<1>2. <<"SEND", LF>> \in Words /\ <<LF>> \in Words /\ <<NUL>> \in Words
  <2>1. "SEND" \in Tokens
    BY TokenFacts DEF Commands
  <2> QED
    BY <2>1, TokenFacts, OneToken, TwoTokens
<1> HIDE DEF lines
<1>3. head \o b \in Words
  <2>1. <<"SEND", LF>> \o lines \in Words
    BY <1>1, <1>2, Joined
  <2>2. head \in Words
    BY <2>1, <1>2, Joined
  <2> QED
    BY <2>2, <1>1, Joined
<1>4. (head \o b) \o <<NUL>> \in Words
  BY <1>2, <1>3, Joined
<1>5. build_message(v, b) \in Words /\ buildSTOMPMessage(v, b) \in Words
  BY <1>3, <1>4 DEF build_message, buildSTOMPMessage, lines
<1>6. ASSUME NEW w \in Words
      PROVE  UpToNul(w) \in Words
  <2>1. FirstOf({NUL}, w, 1) \in Nat /\ FirstOf({NUL}, w, 1) <= Len(w) + 1
        /\ FirstOf({NUL}, w, 1) >= 1
    BY FirstOfIs, WordLength
  <2> QED
    BY <2>1, WordLength, WordPart DEF UpToNul
<1> QED
  BY <1>5, <1>6 DEF Received

-----------------------------------------------------------------------------
(* The head of a frame.                                                    *)
Empty(f, i) == i + 1 <= Len(f) /\ f[i] = LF /\ f[i + 1] = LF

LEMMA HeadLengthIs ==
  ASSUME NEW f \in Words
  PROVE  /\ HeadLength(f) \in 0..Len(f)
         /\ HeadLength(f) = Len(f) \/ Empty(f, HeadLength(f) + 1)
         /\ \A m \in 0..Len(f) : Empty(f, m + 1) => HeadLength(f) <= m
<1> DEFINE N == {n \in 0..Len(f) :
                   n = Len(f) \/ (n + 2 <= Len(f) /\ f[n + 1] = LF /\ f[n + 2] = LF)}
<1>1. Len(f) \in Nat
  BY WordLength
<1>2. N \subseteq Nat /\ Len(f) \in N
  BY <1>1
<1>3. Min(N) \in N /\ \A y \in N : Min(N) <= y
  BY <1>2, MinIs
<1>4. HeadLength(f) = Min(N)
  BY DEF HeadLength
<1>5. \A m \in 0..Len(f) : m + 1 + 1 = m + 2
  OBVIOUS
<1>6. \A m \in 0..Len(f) : m \in N <=> m = Len(f) \/ Empty(f, m + 1)
  BY <1>1, <1>5 DEF Empty
<1>7. \A m \in N : m \in 0..Len(f)
  OBVIOUS
<1> HIDE DEF N
<1> QED
  BY <1>3, <1>4, <1>6, <1>7

LEMMA HeadLengthUnique ==
  ASSUME NEW f \in Words, NEW n \in 0..Len(f), n = Len(f) \/ Empty(f, n + 1),
         \A m \in 0..Len(f) : Empty(f, m + 1) => n <= m
  PROVE  HeadLength(f) = n
<1>1. /\ HeadLength(f) \in 0..Len(f)
      /\ HeadLength(f) = Len(f) \/ Empty(f, HeadLength(f) + 1)
      /\ \A m \in 0..Len(f) : Empty(f, m + 1) => HeadLength(f) <= m
  BY HeadLengthIs
<1>2. Len(f) \in Nat
  BY WordLength
<1>3. HeadLength(f) <= n
  BY <1>1, <1>2
<1>4. n <= HeadLength(f)
  BY <1>1, <1>2
<1> QED
  BY <1>1, <1>2, <1>3, <1>4

(* What the parser has read when it stands before p: a part of the head    *)
(* that has neither a NUL nor an empty line, and in each line a header.    *)
ReadLines(f, p) == {i \in 3..p - 1 : f[i - 1] = LF}

HeadersUpTo(f, p) ==
  [k \in {Key(f, i) : i \in ReadLines(f, p)} |->
     Value(f, Max({i \in ReadLines(f, p) : Key(f, i) = k}))]

HeadRead(f, p) ==
  /\ \A i \in 1..p - 1 : i <= Len(f) => f[i] # NUL
  /\ \A i \in 1..p - 2 : ~Empty(f, i)
  /\ \A i \in ReadLines(f, p) : FirstOf({Colon}, f, i) < LineEnd(f, i)

CommandRead(f, c) ==
  /\ f # <<>> /\ is_cmd_recognized(<<f[1]>>) /\ c = <<f[1]>>
  /\ Len(f) = 1 \/ f[2] = LF

Verdict(f, e, c, h, b) ==
  /\ e = "OK" <=> Understood(f)
  /\ e = "OK" => /\ c = <<f[1]>> /\ h = HeadersOf(f)
                 /\ b = SubSeq(f, HeadLength(f) + 3, Len(f))

(* At the beginning of a line: the end of the line is within the head, and *)
(* so is a NUL that ends it.                                               *)
LEMMA LineInHead ==
  ASSUME NEW f \in Words, NEW p \in Nat, p >= 3, p <= Len(f), f[p - 1] = LF, HeadRead(f, p),
         NEW e \in Nat, e >= p, e <= Len(f) + 1,
         \A i \in Nat : i >= p /\ i < e => f[i] \notin {LF, NUL}
  PROVE  /\ e > p => HeadLength(f) >= e - 1
         /\ e <= Len(f) /\ f[e] = NUL => HeadLength(f) >= e
<1> DEFINE n == HeadLength(f)
<1>1. Len(f) \in Nat /\ n \in 0..Len(f) /\ (n = Len(f) \/ Empty(f, n + 1))
  BY WordLength, HeadLengthIs
<1> HIDE DEF n
<1>2. LF # NUL
  BY TokenFacts
<1>3. CASE n = Len(f)
  BY <1>1, <1>3 DEF n
<1>4. CASE Empty(f, n + 1)
  <2>1. n + 2 <= Len(f) /\ f[n + 1] = LF /\ f[n + 2] = LF
    BY <1>4, <1>1 DEF Empty
  <2>2. ~(n + 1 \in 1..p - 2)
    BY <1>4 DEF HeadRead
  <2>3. n + 1 >= p - 1
    BY <2>2, <1>1
  <2>4. ASSUME e > p PROVE n >= e - 1
    <3>1. ~(n + 1 >= p /\ n + 1 < e) /\ ~(n + 2 >= p /\ n + 2 < e)
      BY <2>1, <1>1
    <3> QED
      BY <3>1, <2>3, <2>4, <1>1
  <2>5. ASSUME e <= Len(f), f[e] = NUL PROVE n >= e
    <3>1. ~(n + 1 >= p /\ n + 1 <= e) /\ ~(n + 2 >= p /\ n + 2 <= e)
      <4>1. \A i \in Nat : i >= p /\ i <= e => f[i] # LF
        BY <1>2, <2>5
      <4> QED
        BY <4>1, <2>1, <1>1
    <3> QED
      BY <3>1, <2>3, <1>1
  <2> QED
    BY <2>4, <2>5 DEF n
<1> QED
  BY <1>1, <1>3, <1>4

LEMMA NulSpoils ==
  ASSUME NEW f \in Words, NEW e \in Nat, e >= 1, e <= HeadLength(f), f[e] = NUL
  PROVE  ~Understood(f)
<1>1. HeadLength(f) \in Nat
  BY HeadLengthIs, WordLength
<1> QED
  BY <1>1 DEF Understood

(* The first colon of a line, looked for in the line and in the frame.     *)
LEMMA ColonOfLine ==
  ASSUME NEW S, NEW f \in Words, NEW p \in Nat, p >= 1, NEW e \in Nat, p < e, e <= Len(f) + 1
  PROVE  LET c == FirstOf(S, SubSeq(f, p, e - 1), 1)
             d == FirstOf(S, f, p)
         IN /\ c \in 1..e - p + 1 /\ d \in Nat
            /\ c <= e - p => d = p + c - 1
            /\ c > e - p => d >= e
<1> DEFINE w == SubSeq(f, p, e - 1)
           c == FirstOf(S, w, 1)
           d == FirstOf(S, f, p)
<1>1. Len(f) \in Nat /\ e - 1 \in Nat
  BY WordLength
<1>2. w \in Words /\ Len(w) = e - p /\ \A i \in Nat : i >= 1 /\ i <= e - p => w[i] = f[p + i - 1]
  <2>1. /\ w \in Words
        /\ Len(w) = IF p <= e - 1 THEN (e - 1) - p + 1 ELSE 0
        /\ \A i \in Nat : i >= 1 /\ i <= Len(w) => w[i] = f[p + i - 1]
    BY <1>1, WordPart
  <2>2. Len(w) = e - p
    BY <2>1, <1>1
  <2> QED
    BY <2>1, <2>2
<1> HIDE DEF w
<1>3. /\ c \in Nat /\ c <= Len(w) + 1
      /\ c <= Len(w) => c >= 1 /\ w[c] \in S
      /\ \A i \in Nat : i >= 1 /\ i < c => w[i] \notin S
      /\ 1 <= Len(w) + 1 => c >= 1
  BY <1>2, FirstOfIs
<1>4. /\ d \in Nat /\ d <= Len(f) + 1
      /\ d <= Len(f) => d >= p /\ f[d] \in S
      /\ \A i \in Nat : i >= p /\ i < d => f[i] \notin S
      /\ p <= Len(f) + 1 => d >= p
  BY FirstOfIs
<1> HIDE DEF c, d
<1>5. c \in 1..e - p + 1
  BY <1>2, <1>3
<1>6. \A j \in Nat : j >= p /\ j < p + c - 1 /\ j < e => f[j] \notin S
  <2> TAKE j \in Nat
  <2> HAVE j >= p /\ j < p + c - 1 /\ j < e
  <2>1. j - p + 1 \in Nat /\ j - p + 1 >= 1 /\ j - p + 1 < c /\ j - p + 1 <= e - p
    BY <1>3
  <2>2. w[j - p + 1] \notin S
    BY <2>1, <1>3
  <2>3. w[j - p + 1] = f[p + (j - p + 1) - 1]
    BY <2>1, <1>2
  <2>4. p + (j - p + 1) - 1 = j
    OBVIOUS
  <2> QED
    BY <2>2, <2>3, <2>4
<1>7. ASSUME c <= e - p PROVE d = p + c - 1
  <2>1. f[p + c - 1] \in S
    BY <1>2, <1>3, <1>5, <1>7
  <2>2. p + c - 1 \in Nat /\ p + c - 1 >= p /\ p + c - 1 <= e - 1 /\ p + c - 1 <= Len(f) + 1
    BY <1>1, <1>5, <1>7
  <2>3. \A i \in Nat : i >= p /\ i < p + c - 1 => f[i] \notin S
    BY <1>6, <2>2
  <2> DEFINE x == p + c - 1
  <2> HIDE DEF x
  <2>4. FirstOf(S, f, p) = x
    BY <2>1, <2>2, <2>3, FirstOfUnique DEF x
  <2> QED
    BY <2>4 DEF d, x
<1>8. ASSUME c > e - p PROVE d >= e
  <2>1. \A j \in Nat : j >= p /\ j < e => f[j] \notin S
    BY <1>5, <1>6, <1>8
  <2> QED
    BY <1>1, <1>4, <2>1
<1> QED
  BY <1>4, <1>5, <1>7, <1>8 DEF c, d, w

-----------------------------------------------------------------------------
(* One more line.                                                          *)
LEMMA OneMoreLine ==
  ASSUME NEW f, NEW p \in Nat, p >= 3, f[p - 1] = LF, NEW q \in Nat, q > p,
         \A i \in Nat : i >= p /\ i < q - 1 => f[i] # LF
  PROVE  /\ ReadLines(f, q) = ReadLines(f, p) \cup {p}
         /\ \A i \in ReadLines(f, p) : i \in Nat /\ i < p
<1>1. \A i \in ReadLines(f, p) : i \in Nat /\ i < p
  BY DEF ReadLines
<1>2. ASSUME NEW i \in ReadLines(f, q), i # p
      PROVE  i \in ReadLines(f, p)
  <2>1. i \in 3..q - 1 /\ f[i - 1] = LF
    BY DEF ReadLines
  <2>2. i - 1 \in Nat /\ i - 1 < q - 1
    BY <2>1
  <2>3. ~(i - 1 >= p)
    BY <2>1, <2>2
  <2>4. i \in 3..p - 1
    BY <1>2, <2>1, <2>3
  <2> QED
    BY <2>1, <2>4 DEF ReadLines
<1>3. ReadLines(f, p) \subseteq ReadLines(f, q) /\ p \in ReadLines(f, q)
  BY DEF ReadLines
<1> QED
  BY <1>1, <1>2, <1>3

With(h, key, value) == [k \in DOMAIN h \cup {key} |-> IF k = key THEN value ELSE h[k]]

LEMMA OneMoreHeader ==
  ASSUME NEW f, NEW p \in Nat, p >= 3, f[p - 1] = LF, NEW q \in Nat, q > p,
         \A i \in Nat : i >= p /\ i < q - 1 => f[i] # LF
  PROVE  HeadersUpTo(f, q) = With(HeadersUpTo(f, p), Key(f, p), Value(f, p))
<1> DEFINE R == ReadLines(f, p)
           T == ReadLines(f, q)
           h == HeadersUpTo(f, p)
           Of(Q, k) == {i \in Q : Key(f, i) = k}
<1>1. T = R \cup {p} /\ \A i \in R : i \in Nat /\ i < p
  BY OneMoreLine
<1>2. h = [k \in {Key(f, i) : i \in R} |-> Value(f, Max(Of(R, k)))]
  BY DEF HeadersUpTo
<1>3. HeadersUpTo(f, q) = [k \in {Key(f, i) : i \in T} |-> Value(f, Max(Of(T, k)))]
  BY DEF HeadersUpTo
<1> HIDE DEF R, T, h
<1>4. {Key(f, i) : i \in T} = DOMAIN h \cup {Key(f, p)}
  BY <1>1, <1>2
<1>5. Max(Of(T, Key(f, p))) = p
  <2>1. Of(T, Key(f, p)) \subseteq Nat /\ p \in Of(T, Key(f, p))
        /\ \A y \in Of(T, Key(f, p)) : y <= p
    BY <1>1
  <2> HIDE DEF Of
  <2> QED
    BY <2>1, MaxOf
<1>6. ASSUME NEW k \in DOMAIN h, k # Key(f, p)
      PROVE  Of(T, k) = Of(R, k) /\ h[k] = Value(f, Max(Of(R, k)))
  BY <1>1, <1>2, <1>6
<1>7. ASSUME NEW k \in DOMAIN h \cup {Key(f, p)}
      PROVE  Value(f, Max(Of(T, k))) = IF k = Key(f, p) THEN Value(f, p) ELSE h[k]
  BY <1>5, <1>6
<1> HIDE DEF Of
<1> QED
  BY <1>3, <1>4, <1>7 DEF h, With

(* The end of a line that is not empty, and what it shows.                 *)
LEMMA EndOfLine ==
  ASSUME NEW f \in Words, NEW p \in Nat, p >= 1, p <= Len(f)
  PROVE  LET e == FirstOf({LF, NUL}, f, p)
         IN /\ e \in Nat /\ e <= Len(f) + 1 /\ e >= p
            /\ e <= Len(f) => f[e] \in {LF, NUL}
            /\ \A i \in Nat : i >= p /\ i < e => f[i] \notin {LF, NUL}
            /\ ~(e <= Len(f) /\ f[e] = NUL) => LineEnd(f, p) = e - 1
<1> DEFINE e == FirstOf({LF, NUL}, f, p)
<1>0. Len(f) \in Nat
  BY WordLength
<1>1. /\ e \in Nat /\ e <= Len(f) + 1 /\ e >= p
      /\ e <= Len(f) => f[e] \in {LF, NUL}
      /\ \A i \in Nat : i >= p /\ i < e => f[i] \notin {LF, NUL}
  BY FirstOfIs, <1>0
<1> HIDE DEF e
<1>2. ASSUME ~(e <= Len(f) /\ f[e] = NUL) PROVE LineEnd(f, p) = e - 1
  <2>1. e <= Len(f) => f[e] \in {LF}
    BY <1>1, <1>2
  <2>2. \A i \in Nat : i >= p /\ i < e => f[i] \notin {LF}
    BY <1>1
  <2>3. FirstOf({LF}, f, p) = e
    BY <1>1, <2>1, <2>2, FirstOfUnique
  <2> QED
    BY <2>3 DEF LineEnd
<1> QED
  BY <1>1, <1>2 DEF e

LEMMA NextLineRead ==
  ASSUME NEW f \in Words, NEW p \in Nat, p >= 3, p <= Len(f), f[p - 1] = LF, HeadRead(f, p),
         NEW e \in Nat, e > p, e <= Len(f) + 1, e <= Len(f) => f[e] = LF,
         \A i \in Nat : i >= p /\ i < e => f[i] # LF /\ f[i] # NUL,
         FirstOf({Colon}, f, p) < LineEnd(f, p)
  PROVE  LET q == IF e > Len(f) THEN e ELSE e + 1
         IN /\ q \in Nat /\ q > p /\ q <= Len(f) + 1 /\ (q <= Len(f) => f[q - 1] = LF)
            /\ HeadRead(f, q)
            /\ \A i \in Nat : i >= p /\ i < q - 1 => f[i] # LF
<1> DEFINE q == IF e > Len(f) THEN e ELSE e + 1
<1>0. Len(f) \in Nat
  BY WordLength
<1>1. q \in Nat /\ q > p /\ q <= Len(f) + 1 /\ q \in {e, e + 1}
  BY <1>0
<1>2. q <= Len(f) => f[q - 1] = LF
  <2>1. CASE e > Len(f)
    BY <2>1, <1>0
  <2>2. CASE ~(e > Len(f))
    <3>1. q - 1 = e /\ e <= Len(f)
      BY <2>2, <1>0
    <3> QED
      BY <3>1
  <2> QED
    BY <2>1, <2>2
<1>3. q = e + 1 => e <= Len(f)
  BY <1>0
<1> HIDE DEF q
<1>4. \A i \in Nat : i >= p /\ i < q - 1 => f[i] # LF
  BY <1>1
<1>5. ReadLines(f, q) = ReadLines(f, p) \cup {p}
  BY <1>1, <1>4, OneMoreLine
<1>6. ASSUME NEW i \in 1..q - 1, i <= Len(f) PROVE f[i] # NUL
  <2>1. CASE i < p
    <3>1. i \in 1..p - 1
      BY <2>1
    <3> QED
      BY <3>1, <1>6 DEF HeadRead
  <2>2. CASE i >= p /\ i < e
    <3>1. i \in Nat
      OBVIOUS
    <3> QED
      BY <3>1, <2>2
  <2>3. CASE i >= e
    <3>1. i = e
      BY <2>3, <1>1
    <3>2. f[i] = LF
      BY <3>1, <1>6
    <3> QED
      BY <3>2, TokenFacts
  <2> QED
    BY <2>1, <2>2, <2>3
<1>7. ASSUME NEW i \in 1..q - 2 PROVE ~Empty(f, i)
  <2>1. CASE i <= p - 2
    <3>1. i \in 1..p - 2
      BY <2>1
    <3> QED
      BY <3>1 DEF HeadRead
  <2>2. CASE i = p - 1
    <3>1. i + 1 = p
      BY <2>2
    <3>2. f[p] # LF
      <4>1. p >= p /\ p < e
        OBVIOUS
      <4> QED
        BY <4>1
    <3> QED
      BY <3>1, <3>2 DEF Empty
  <2>3. CASE i >= p
    <3>1. i \in Nat /\ i < q - 1
      BY <1>1
    <3>2. f[i] # LF
      BY <1>4, <2>3, <3>1
    <3> QED
      BY <3>2 DEF Empty
  <2> QED
    BY <2>1, <2>2, <2>3
<1>8. \A i \in ReadLines(f, q) : FirstOf({Colon}, f, i) < LineEnd(f, i)
  BY <1>5 DEF HeadRead
<1> QED
  BY <1>1, <1>2, <1>4, <1>6, <1>7, <1>8 DEF HeadRead, q

LEMMA LineParts ==
  ASSUME NEW f \in Words, NEW p \in Nat, p >= 1, NEW e \in Nat, e > p, e <= Len(f) + 1,
         NEW c \in Nat, c >= 1, c < e - p
  PROVE  /\ SubSeq(SubSeq(f, p, e - 1), 1, c - 1) = SubSeq(f, p, (p + c - 1) - 1)
         /\ SubSeq(SubSeq(f, p, e - 1), c + 1, e - p) = SubSeq(f, (p + c - 1) + 1, e - 1)
<1>0. Len(f) \in Nat
  BY WordLength
<1> DEFINE m == e - 1
           k == c - 1
           j == c + 1
           l == e - p
<1>1. /\ m \in Nat /\ m <= Len(f) /\ k \in Nat /\ k <= m - p + 1
      /\ j \in Nat /\ j >= 1 /\ l \in Nat /\ l <= m - p + 1
      /\ p + 1 - 1 = p /\ p + k - 1 = (p + c - 1) - 1
      /\ p + j - 1 = (p + c - 1) + 1 /\ p + l - 1 = m
  BY <1>0
<1> HIDE DEF m, k, j, l
<1>2. SubSeq(SubSeq(f, p, m), 1, k) = SubSeq(f, p + 1 - 1, p + k - 1)
  BY <1>1, PartOfPart
<1>3. SubSeq(SubSeq(f, p, m), j, l) = SubSeq(f, p + j - 1, p + l - 1)
  BY <1>1, PartOfPart
<1> QED
  BY <1>1, <1>2, <1>3 DEF m, k, j, l

LEMMA LineRead ==
  ASSUME NEW f \in Words, NEW p \in Nat, p >= 3, p <= Len(f), f[p - 1] = LF, HeadRead(f, p)
  PROVE  LET e == FirstOf({LF, NUL}, f, p)
             line == SubSeq(f, p, e - 1)
             colon == SplitAt(line)
             q == IF e > Len(f) THEN e ELSE e + 1
         IN line # <<>> =>
            /\ e \in Nat /\ e > p /\ e <= Len(f) + 1 /\ Len(line) = e - p /\ line \in Words
            /\ colon \in 1..Len(line) + 1
            /\ e <= Len(f) /\ f[e] = NUL => ~Understood(f)
            /\ colon >= Len(line) => ~Understood(f)
            /\ ~(e <= Len(f) /\ f[e] = NUL) /\ colon < Len(line) =>
                 /\ q \in Nat /\ q > p /\ q <= Len(f) + 1 /\ (q <= Len(f) => f[q - 1] = LF)
                 /\ HeadRead(f, q)
                 /\ trim(SubSeq(line, 1, colon - 1)) = Key(f, p)
                 /\ trim(SubSeq(line, colon + 1, Len(line))) = Value(f, p)
                 /\ \A i \in Nat : i >= p /\ i < q - 1 => f[i] # LF
<1> DEFINE e == FirstOf({LF, NUL}, f, p)
           line == SubSeq(f, p, e - 1)
           colon == SplitAt(line)
           q == IF e > Len(f) THEN e ELSE e + 1
           d == FirstOf({Colon}, f, p)
           n == HeadLength(f)
<1>0. Len(f) \in Nat
  BY WordLength
<1>1. /\ e \in Nat /\ e <= Len(f) + 1 /\ e >= p
      /\ e <= Len(f) => f[e] \in {LF, NUL}
      /\ \A i \in Nat : i >= p /\ i < e => f[i] \notin {LF, NUL}
      /\ ~(e <= Len(f) /\ f[e] = NUL) => LineEnd(f, p) = e - 1
  <2>1. p >= 1
    OBVIOUS
  <2> QED
    BY <2>1, EndOfLine
<1> HIDE DEF e
<1> SUFFICES ASSUME line # <<>>
             PROVE  /\ e \in Nat /\ e > p /\ e <= Len(f) + 1 /\ Len(line) = e - p /\ line \in Words
                    /\ colon \in 1..Len(line) + 1
                    /\ e <= Len(f) /\ f[e] = NUL => ~Understood(f)
                    /\ colon >= Len(line) => ~Understood(f)
                    /\ ~(e <= Len(f) /\ f[e] = NUL) /\ colon < Len(line) =>
                         /\ q \in Nat /\ q > p /\ q <= Len(f) + 1 /\ (q <= Len(f) => f[q - 1] = LF)
                         /\ HeadRead(f, q)
                         /\ trim(SubSeq(line, 1, colon - 1)) = Key(f, p)
                         /\ trim(SubSeq(line, colon + 1, Len(line))) = Value(f, p)
                         /\ \A i \in Nat : i >= p /\ i < q - 1 => f[i] # LF
  BY DEF e
<1>2. e - 1 \in Nat /\ e - 1 <= Len(f)
  BY <1>0, <1>1
<1>3. line \in Words /\ Len(line) = IF p <= e - 1 THEN (e - 1) - p + 1 ELSE 0
  BY <1>2, WordPart
<1>4. e > p /\ Len(line) = e - p
  <2>1. Len(line) # 0
    BY <1>3, WordLength
  <2> HIDE DEF line
  <2> QED
    BY <1>1, <1>3, <2>1
<1>5. /\ colon \in 1..e - p + 1 /\ d \in Nat
      /\ colon <= e - p => d = p + colon - 1
      /\ colon > e - p => d >= e
  BY <1>1, <1>4, ColonOfLine DEF SplitAt
<1>6. colon < e - p =>
        /\ SubSeq(line, 1, colon - 1) = SubSeq(f, p, d - 1)
        /\ SubSeq(line, colon + 1, Len(line)) = SubSeq(f, d + 1, e - 1)
  <2> HIDE DEF colon, d
  <2>1. ASSUME colon < e - p
        PROVE  colon \in Nat /\ colon >= 1 /\ d = p + colon - 1
    BY <2>1, <1>5, <1>1
  <2>2. p >= 1
    OBVIOUS
  <2>3. ASSUME colon < e - p
        PROVE  /\ SubSeq(SubSeq(f, p, e - 1), 1, colon - 1) = SubSeq(f, p, (p + colon - 1) - 1)
               /\ SubSeq(SubSeq(f, p, e - 1), colon + 1, e - p)
                  = SubSeq(f, (p + colon - 1) + 1, e - 1)
    BY <2>1, <2>2, <2>3, <1>1, <1>4, LineParts
  <2>4. Len(line) = e - p
    BY <1>4
  <2> HIDE DEF line
  <2>5. line = SubSeq(f, p, e - 1)
    BY DEF line
  <2>6. ASSUME colon < e - p
        PROVE  SubSeq(line, 1, colon - 1) = SubSeq(f, p, d - 1)
    <3>1. SubSeq(SubSeq(f, p, e - 1), 1, colon - 1) = SubSeq(f, p, (p + colon - 1) - 1)
      BY <2>3, <2>6
    <3>2. SubSeq(f, p, (p + colon - 1) - 1) = SubSeq(f, p, d - 1)
      BY <2>1, <2>6, Zenon
    <3> QED
      BY <3>1, <3>2, <2>5, Zenon
  <2>7. ASSUME colon < e - p
        PROVE  SubSeq(line, colon + 1, Len(line)) = SubSeq(f, d + 1, e - 1)
    BY <2>1, <2>3, <2>4, <2>5, <2>7, Zenon
  <2> QED
    BY <2>6, <2>7
<1> HIDE DEF colon, d, line
<1>7. n \in Nat /\ n <= Len(f) /\ n >= e - 1 /\ (e <= Len(f) /\ f[e] = NUL => n >= e)
  <2>1. n \in Nat /\ n <= Len(f)
    BY <1>0, HeadLengthIs
  <2>2. (e > p => n >= e - 1) /\ (e <= Len(f) /\ f[e] = NUL => n >= e)
    BY <1>1, LineInHead
  <2> QED
    BY <2>1, <2>2, <1>4
<1>8. e <= Len(f) /\ f[e] = NUL => ~Understood(f)
  <2>1. e >= 1
    BY <1>1
  <2> QED
    BY <2>1, <1>1, <1>7, NulSpoils
<1> HIDE DEF n
<1>9. ASSUME colon >= Len(line), ~(e <= Len(f) /\ f[e] = NUL)
      PROVE  ~Understood(f)
  <2>1. p \in HeadLines(f)
    BY <1>1, <1>4, <1>7 DEF HeadLines, n
  <2>2. ~(d < LineEnd(f, p))
    <3>1. colon = e - p \/ colon > e - p
      BY <1>1, <1>4, <1>5, <1>9
    <3> QED
      BY <3>1, <1>1, <1>4, <1>5, <1>9
  <2> QED
    BY <2>1, <2>2 DEF Understood, d
<1>10. ASSUME ~(e <= Len(f) /\ f[e] = NUL), colon < Len(line)
       PROVE  /\ q \in Nat /\ q > p /\ q <= Len(f) + 1 /\ (q <= Len(f) => f[q - 1] = LF)
              /\ HeadRead(f, q)
              /\ trim(SubSeq(line, 1, colon - 1)) = Key(f, p)
              /\ trim(SubSeq(line, colon + 1, Len(line))) = Value(f, p)
              /\ \A i \in Nat : i >= p /\ i < q - 1 => f[i] # LF
  <2>1. d = p + colon - 1 /\ colon \in Nat /\ colon >= 1 /\ colon < e - p
    BY <1>4, <1>5, <1>10, <1>1
  <2>2. d < e - 1
    BY <2>1, <1>1
  <2>3. LineEnd(f, p) = e - 1
    BY <1>1, <1>10
  <2>4. e <= Len(f) => f[e] = LF
    BY <1>1, <1>10
  <2>5. \A i \in Nat : i >= p /\ i < e => f[i] # LF /\ f[i] # NUL
    BY <1>1
  <2>6. FirstOf({Colon}, f, p) < LineEnd(f, p)
    BY <2>2, <2>3 DEF d
  <2>7. /\ q \in Nat /\ q > p /\ q <= Len(f) + 1 /\ (q <= Len(f) => f[q - 1] = LF)
        /\ HeadRead(f, q)
        /\ \A i \in Nat : i >= p /\ i < q - 1 => f[i] # LF
    BY <1>1, <1>4, <2>4, <2>5, <2>6, NextLineRead, Zenon
  <2>8. trim(SubSeq(line, 1, colon - 1)) = Key(f, p)
    BY <1>6, <2>1 DEF Key, d
  <2>9. trim(SubSeq(line, colon + 1, Len(line))) = Value(f, p)
    BY <1>6, <2>1, <2>3 DEF Value, d
  <2> QED
    BY <2>7, <2>8, <2>9
<1>11. colon \in 1..Len(line) + 1
  BY <1>4, <1>5
<1>12. colon >= Len(line) => ~Understood(f)
  BY <1>8, <1>9
<1> HIDE DEF q
<1> QED
  BY <1>1, <1>3, <1>4, <1>8, <1>10, <1>11, <1>12

-----------------------------------------------------------------------------
(* The end of the head.                                                    *)
LEMMA HeadIsRead ==
  ASSUME NEW f \in Words, NEW c, CommandRead(f, c), NEW p \in Nat, p >= 3, HeadRead(f, p),
         HeadLines(f) = ReadLines(f, p), HeadLength(f) < p, HeadLength(f) >= 1,
         NEW h, h = HeadersUpTo(f, p)
  PROVE  Understood(f) /\ h = HeadersOf(f)
<1> DEFINE n == HeadLength(f)
<1>1. n \in Nat /\ n <= Len(f) /\ Len(f) \in Nat
  BY HeadLengthIs, WordLength
<1>2. n = 1 \/ f[2] = LF
  BY <1>1 DEF CommandRead
<1>3. \A i \in 1..n : f[i] # NUL
  BY <1>1 DEF HeadRead
<1>4. \A i \in HeadLines(f) : FirstOf({Colon}, f, i) < LineEnd(f, i)
  BY DEF HeadRead
<1>5. h = HeadersOf(f)
  BY DEF HeadersUpTo, HeadersOf
<1>6. n > 0 /\ is_cmd_recognized(<<f[1]>>)
  BY <1>1 DEF CommandRead
<1>7. Understood(f)
  BY <1>2, <1>3, <1>4, <1>6, Zenon DEF Understood
<1> QED
  BY <1>5, <1>7

LEMMA HeadEndsAtEmptyLine ==
  ASSUME NEW f \in Words, NEW c, CommandRead(f, c), NEW p \in Nat, p >= 3, p <= Len(f),
         f[p - 1] = LF, f[p] = LF, HeadRead(f, p), NEW h, h = HeadersUpTo(f, p)
  PROVE  Understood(f) /\ h = HeadersOf(f) /\ HeadLength(f) = p - 2
<1>0. Len(f) \in Nat
  BY WordLength
<1> DEFINE n == p - 2
<1>1. n \in 0..Len(f) /\ n >= 1 /\ n + 1 = p - 1 /\ n + 1 + 1 = p
  BY <1>0
<1>2. Empty(f, n + 1)
  BY <1>1 DEF Empty
<1>3. ASSUME NEW m \in 0..Len(f), Empty(f, m + 1) PROVE n <= m
  <2>1. ~(m + 1 \in 1..p - 2)
    BY <1>3 DEF HeadRead
  <2> QED
    BY <2>1, <1>0
<1> HIDE DEF n
<1>4. HeadLength(f) = n
  BY <1>1, <1>2, <1>3, HeadLengthUnique
<1>5. HeadLines(f) = ReadLines(f, p)
  <2>1. ASSUME NEW i \in ReadLines(f, p)
        PROVE  i \in 3..n
    <3>1. i \in 3..p - 1 /\ f[i - 1] = LF
      BY DEF ReadLines
    <3>2. ASSUME i = p - 1 PROVE FALSE
      <4>1. i - 1 \in 1..p - 2 /\ (i - 1) + 1 = i /\ i <= Len(f)
        BY <3>1, <3>2, <1>0
      <4>2. Empty(f, i - 1)
        BY <4>1, <3>1, <3>2 DEF Empty
      <4> QED
        BY <4>1, <4>2 DEF HeadRead
    <3>3. n = p - 2
      BY DEF n
    <3> QED
      BY <3>1, <3>2, <3>3
  <2>2. \A i \in 3..n : i \in 3..p - 1
    BY DEF n
  <2> QED
    BY <1>4, <2>1, <2>2 DEF HeadLines, ReadLines
<1>6. HeadLength(f) < p /\ HeadLength(f) >= 1
  BY <1>1, <1>4 DEF n
<1>7. Understood(f) /\ h = HeadersOf(f)
  BY <1>5, <1>6, HeadIsRead
<1> QED
  BY <1>4, <1>7 DEF n

LEMMA HeadIsAll ==
  ASSUME NEW f \in Words, NEW c, CommandRead(f, c), NEW p \in Nat, p >= 3,
         p > Len(f), p <= Len(f) + 2, HeadRead(f, p), NEW h, h = HeadersUpTo(f, p),
         p = Len(f) + 2 => ReadLines(f, p) = {}
  PROVE  Understood(f) /\ h = HeadersOf(f) /\ HeadLength(f) = Len(f)
<1> DEFINE n == Len(f)
<1>0. n \in Nat /\ n >= 1 /\ n \in 0..n
  BY WordLength DEF CommandRead
<1>1. ASSUME NEW m \in 0..n, Empty(f, m + 1) PROVE n <= m
  <2>1. m + 2 <= n
    BY <1>0, <1>1 DEF Empty
  <2>2. ~(m + 1 \in 1..p - 2)
    BY <1>1 DEF HeadRead
  <2> QED
    BY <2>1, <2>2, <1>0
<1>2. HeadLength(f) = n
  BY <1>0, <1>1, HeadLengthUnique
<1>3. HeadLines(f) = ReadLines(f, p)
  <2> HIDE DEF n
  <2>1. HeadLines(f) = {i \in 3..n : f[i - 1] = LF}
    BY <1>2 DEF HeadLines
  <2>2. CASE p = n + 1
    <3>1. p - 1 = n
      BY <2>2, <1>0
    <3> QED
      BY <2>1, <3>1 DEF ReadLines
  <2>3. CASE p = n + 2
    <3>1. ReadLines(f, p) = {}
      BY <2>3 DEF n
    <3>2. HeadLines(f) \subseteq ReadLines(f, p)
      BY <2>1, <2>3, <1>0 DEF ReadLines
    <3> QED
      BY <3>1, <3>2
  <2> QED
    BY <2>2, <2>3, <1>0 DEF n
<1>4. HeadLength(f) < p /\ HeadLength(f) >= 1
  BY <1>0, <1>2
<1>5. Understood(f) /\ h = HeadersOf(f)
  BY <1>3, <1>4, HeadIsRead
<1> QED
  BY <1>2, <1>5

-----------------------------------------------------------------------------
(* The command.                                                            *)
LEMMA CommandWord ==
  ASSUME NEW f \in Words, f # <<>>
  PROVE  LET e == FirstOf({LF, NUL, Blank}, f, 1)
         IN /\ e \in Nat /\ e >= 1 /\ e <= Len(f) + 1
            /\ e <= Len(f) => f[e] \in {LF, NUL, Blank}
            /\ \A i \in Nat : i >= 1 /\ i < e => f[i] \notin {LF, NUL, Blank}
            /\ SubSeq(f, 1, e - 1) \in Words
            /\ Len(SubSeq(f, 1, e - 1)) = e - 1
            /\ e > 1 => SubSeq(f, 1, e - 1)[1] = f[1]
            /\ trim(SubSeq(f, 1, e - 1)) = SubSeq(f, 1, e - 1)
<1> DEFINE e == FirstOf({LF, NUL, Blank}, f, 1)
           w == SubSeq(f, 1, e - 1)
<1>0. Len(f) \in Nat
  BY WordLength
<1>1. /\ e \in Nat /\ e >= 1 /\ e <= Len(f) + 1
      /\ e <= Len(f) => f[e] \in {LF, NUL, Blank}
      /\ \A i \in Nat : i >= 1 /\ i < e => f[i] \notin {LF, NUL, Blank}
  BY FirstOfIs, <1>0
<1> HIDE DEF e
<1>2. e - 1 \in Nat /\ e - 1 <= Len(f)
  BY <1>0, <1>1
<1>3. /\ w \in Words /\ Len(w) = IF 1 <= e - 1 THEN (e - 1) - 1 + 1 ELSE 0
      /\ \A i \in Nat : i >= 1 /\ i <= Len(w) => w[i] = f[1 + i - 1]
  BY <1>2, WordPart
<1> HIDE DEF w
<1>4. Len(w) = e - 1
  BY <1>1, <1>3
<1>5. \A i \in Nat : i >= 1 /\ i <= Len(w) => w[i] = f[i]
  <2> TAKE i \in Nat
  <2>1. 1 + i - 1 = i
    OBVIOUS
  <2> QED
    BY <1>3, <2>1
<1>6. \A i \in Nat : i >= 1 /\ i <= Len(w) => w[i] # Blank
  BY <1>1, <1>4, <1>5
<1>7. trim(w) = w
  BY <1>3, <1>6, TrimPlain
<1>8. e > 1 => w[1] = f[1]
  BY <1>1, <1>4, <1>5
<1> QED
  BY <1>1, <1>3, <1>4, <1>7, <1>8 DEF e, w

LEMMA CommandOfFrame ==
  ASSUME NEW f \in Words, f # <<>>
  PROVE  LET e == FirstOf({LF, NUL, Blank}, f, 1)
             w == SubSeq(f, 1, e - 1)
         IN /\ e <= Len(f) /\ f[e] # LF => ~Understood(f)
            /\ ~is_cmd_recognized(w) => ~Understood(f)
            /\ ~(e <= Len(f) /\ f[e] # LF) /\ is_cmd_recognized(w) =>
                 /\ e = 2 /\ CommandRead(f, w) /\ HeadRead(f, 3) /\ ReadLines(f, 3) = {}
<1> DEFINE e == FirstOf({LF, NUL, Blank}, f, 1)
           w == SubSeq(f, 1, e - 1)
           n == HeadLength(f)
<1>0. Len(f) \in Nat /\ Len(f) >= 1
  BY WordLength
<1>1. /\ e \in Nat /\ e >= 1 /\ e <= Len(f) + 1
      /\ e <= Len(f) => f[e] \in {LF, NUL, Blank}
      /\ \A i \in Nat : i >= 1 /\ i < e => f[i] \notin {LF, NUL, Blank}
      /\ w \in Words /\ Len(w) = e - 1 /\ (e > 1 => w[1] = f[1])
  BY CommandWord
<1>2. n \in Nat /\ n <= Len(f) /\ (n = Len(f) \/ Empty(f, n + 1))
  BY <1>0, HeadLengthIs
<1> HIDE DEF e, w, n
<1>3. ASSUME Understood(f)
      PROVE  e = 2 /\ (n = 1 \/ f[2] = LF) /\ is_cmd_recognized(<<f[1]>>) /\ n >= 1
  <2>1. n > 0 /\ is_cmd_recognized(<<f[1]>>) /\ (n = 1 \/ f[2] = LF)
    BY <1>3 DEF Understood, n
  <2>2. f[1] \in Commands
    BY <2>1 DEF is_cmd_recognized
  <2>3. e # 1
    BY <2>2, <1>0, <1>1, TokenFacts
  <2>4. ASSUME e > 2 PROVE FALSE
    <3>1. f[2] # LF /\ Len(f) >= 2
      BY <1>0, <1>1, <2>4
    <3>2. n = 1 /\ Empty(f, n + 1)
      BY <2>1, <3>1, <1>0, <1>2
    <3> QED
      BY <3>1, <3>2 DEF Empty
  <2> QED
    BY <2>1, <2>3, <2>4, <1>1, <1>2
<1>4. ASSUME e <= Len(f), f[e] # LF, Understood(f) PROVE FALSE
  <2>1. e = 2 /\ n = 1
    BY <1>3, <1>4
  <2>2. Empty(f, n + 1)
    BY <2>1, <1>2, <1>4, <1>0
  <2> QED
    BY <2>1, <2>2, <1>4 DEF Empty
<1>5. e = 2 => w = <<f[1]>>
  BY <1>1 DEF Words
<1>6. ASSUME ~is_cmd_recognized(w), Understood(f) PROVE FALSE
  BY <1>3, <1>5, <1>6
<1>7. ASSUME ~(e <= Len(f) /\ f[e] # LF), is_cmd_recognized(w)
      PROVE  e = 2 /\ CommandRead(f, w) /\ HeadRead(f, 3) /\ ReadLines(f, 3) = {}
  <2>1. PICK c \in Commands : w = <<c>>
    BY <1>7 DEF is_cmd_recognized
  <2>2. e = 2
    BY <1>1, <2>1
  <2>3. w = <<f[1]>> /\ f[1] = c
    BY <1>1, <1>5, <2>1, <2>2
  <2>4. Len(f) = 1 \/ f[2] = LF
    <3>1. Len(f) = 1 \/ 2 <= Len(f)
      BY <1>0
    <3>2. 2 <= Len(f) => f[2] = LF
      BY <1>7, <2>2, Zenon
    <3> QED
      BY <3>1, <3>2
  <2>5. CommandRead(f, w)
    BY <1>7, <2>3, <2>4 DEF CommandRead
  <2>6. \A i \in 1..2 : i = 1 \/ i = 2
    OBVIOUS
  <2>7. \A i \in 1..3 - 1 : i <= Len(f) => f[i] # NUL
    BY <2>3, <2>4, <2>6, <1>0, TokenFacts
  <2>8. \A i \in 1..3 - 2 : ~Empty(f, i)
    <3>1. ~Empty(f, 1)
      BY <2>3, TokenFacts DEF Empty
    <3>2. \A i \in 1..1 : i = 1
      OBVIOUS
    <3> QED
      BY <3>1, <3>2
  <2>9. ReadLines(f, 3) = {}
    BY DEF ReadLines
  <2> QED
    BY <2>2, <2>5, <2>7, <2>8, <2>9 DEF HeadRead
<1> QED
  BY <1>4, <1>6, <1>7 DEF e, w

-----------------------------------------------------------------------------
(* The inductive invariant: before the verdict, what was read is a part of *)
(* the head that the grammar allows; from then on the verdict is that of   *)
(* the grammar.                                                            *)
StartOK ==
  /\ stage = "command" => pos = 1 /\ headers = [k \in {} |-> <<>>] /\ ec = "OK"
  /\ stage \in {"command", "headers"} => payload = <<>>

ReadingOK ==
  stage = "headers" =>
    /\ ec = "OK" /\ CommandRead(data, command)
    /\ pos >= 3 /\ (pos <= Len(data) => data[pos - 1] = LF)
    /\ HeadRead(data, pos) /\ headers = HeadersUpTo(data, pos)

VerdictOK ==
  stage \in {"parsed", "refused", "ignored", "handled"} =>
    Verdict(data, ec, command, headers, payload)

ParserInv == ParserTypeOK /\ StartOK /\ ReadingOK /\ VerdictOK /\ OutcomeIsDue

LEMMA ParserStarts == ParserInit => ParserInv
<1> SUFFICES ASSUME ParserInit PROVE ParserInv
  OBVIOUS
<1>1. /\ pos = 1 /\ stage = "command" /\ command = <<>> /\ headers = [k \in {} |-> <<>>]
      /\ payload = <<>> /\ ec = "OK" /\ client \in {"hand", "js", "python"}
  BY DEF ParserInit
<1>2. data \in Words
  <2>1. CASE data \in RawFrames
    BY <2>1, RawWords
  <2>2. CASE \E by \in {"js", "python"}, v \in Values, b \in Bodies : data = Received(by, v, b)
    BY <2>2, ReceivedType
  <2> QED
    BY <2>1, <2>2 DEF ParserInit
<1>3. pos \in 1..Len(data) + 2 /\ pos # Len(data) + 2
  BY <1>1, <1>2, WordLength
<1>4. DOMAIN headers = {}
  BY <1>1
<1>5. ParserTypeOK
  BY <1>1, <1>2, <1>3, <1>4, EmptyWord DEF ParserTypeOK, Errors
<1>6. StartOK /\ ReadingOK /\ VerdictOK /\ OutcomeIsDue
  BY <1>1 DEF StartOK, ReadingOK, VerdictOK, OutcomeIsDue
<1> QED
  BY <1>5, <1>6 DEF ParserInv

LEMMA ParserStutters == ParserInv /\ UNCHANGED vars => ParserInv'
<1> SUFFICES ASSUME ParserInv, UNCHANGED vars PROVE ParserInv'
  OBVIOUS
<1>1. ParserTypeOK'
  BY DEF ParserInv, ParserTypeOK, vars
<1>2. StartOK' /\ ReadingOK' /\ VerdictOK'
  BY DEF ParserInv, StartOK, ReadingOK, VerdictOK, vars
<1>3. OutcomeIsDue'
  BY DEF ParserInv, OutcomeIsDue, vars
<1> QED
  BY <1>1, <1>2, <1>3 DEF ParserInv

LEMMA EmptyFrameKeeps == ParserInv /\ EmptyFrame => ParserInv'
<1> SUFFICES ASSUME ParserInv, EmptyFrame PROVE ParserInv'
  OBVIOUS
<1>1. /\ stage' = "thrown" /\ data = <<>> /\ data' = data /\ client' = client /\ pos' = pos
      /\ command' = command /\ headers' = headers /\ payload' = payload /\ ec' = ec
      /\ stage = "command"
  BY DEF EmptyFrame
<1>2. pos # Len(data) + 2
  BY <1>1, WordLength DEF ParserInv, StartOK, ParserTypeOK
<1>3. ParserTypeOK'
  BY <1>1, <1>2 DEF ParserInv, ParserTypeOK, Settled
<1>4. StartOK' /\ ReadingOK' /\ VerdictOK' /\ OutcomeIsDue'
  BY <1>1 DEF StartOK, ReadingOK, VerdictOK, OutcomeIsDue
<1> QED
  BY <1>3, <1>4 DEF ParserInv

-----------------------------------------------------------------------------
(* parse_command.                                                          *)
LEMMA CommandDoes ==
  ASSUME ParserTypeOK, parse_command
  PROVE  LET e == FirstOf({LF, NUL, Blank}, data, 1)
             w == SubSeq(data, 1, e - 1)
         IN /\ stage = "command" /\ data # <<>> /\ data' = data /\ client' = client
            /\ headers' = headers /\ payload' = payload
            /\ e <= Len(data) /\ data[e] # LF =>
                 /\ command' = command /\ pos' = pos
                 /\ ec' = "INVALID_FORMAT_COMMAND" /\ stage' = "parsed"
            /\ ~(e <= Len(data) /\ data[e] # LF) =>
                 /\ command' = w /\ pos' = e + 1
                 /\ is_cmd_recognized(w) => ec' = "OK" /\ stage' = "headers"
                 /\ ~is_cmd_recognized(w) => ec' = "UNKOWN_COMMAND" /\ stage' = "parsed"
<1> DEFINE e == FirstOf({LF, NUL, Blank}, data, 1)
           w == SubSeq(data, 1, e - 1)
<1>1. /\ stage = "command" /\ data # <<>> /\ data' = data /\ client' = client
      /\ headers' = headers /\ payload' = payload
      /\ stage' = IF ec' = "OK" THEN "headers" ELSE "parsed"
  BY DEF parse_command
<1>2. trim(w) = w
  BY <1>1, CommandWord DEF ParserTypeOK
<1>3. IF e <= Len(data) /\ data[e] # LF
      THEN ec' = "INVALID_FORMAT_COMMAND" /\ command' = command /\ pos' = pos
      ELSE /\ command' = trim(w) /\ pos' = e + 1
           /\ ec' = IF is_cmd_recognized(command') THEN "OK" ELSE "UNKOWN_COMMAND"
  BY DEF parse_command
<1> HIDE DEF e, w
<1>4. CASE e <= Len(data) /\ data[e] # LF
  BY <1>1, <1>3, <1>4 DEF e, w
<1>5. CASE ~(e <= Len(data) /\ data[e] # LF)
  <2>1. command' = w /\ pos' = e + 1
    BY <1>2, <1>3, <1>5
  <2>2. ec' = IF is_cmd_recognized(w) THEN "OK" ELSE "UNKOWN_COMMAND"
    BY <1>3, <1>5, <2>1
  <2> QED
    BY <1>1, <1>5, <2>1, <2>2 DEF e, w
<1> QED
  BY <1>4, <1>5

LEMMA CommandKeeps == ParserInv /\ parse_command => ParserInv'
<1> SUFFICES ASSUME ParserInv, parse_command PROVE ParserInv'
  OBVIOUS
<1> DEFINE e == FirstOf({LF, NUL, Blank}, data, 1)
           w == SubSeq(data, 1, e - 1)
<1>0. ParserTypeOK /\ StartOK
  BY DEF ParserInv
<1>1. /\ stage = "command" /\ data # <<>> /\ data' = data /\ client' = client
      /\ headers' = headers /\ payload' = payload
      /\ e <= Len(data) /\ data[e] # LF =>
           /\ command' = command /\ pos' = pos
           /\ ec' = "INVALID_FORMAT_COMMAND" /\ stage' = "parsed"
      /\ ~(e <= Len(data) /\ data[e] # LF) =>
           /\ command' = w /\ pos' = e + 1
           /\ is_cmd_recognized(w) => ec' = "OK" /\ stage' = "headers"
           /\ ~is_cmd_recognized(w) => ec' = "UNKOWN_COMMAND" /\ stage' = "parsed"
  BY <1>0, CommandDoes
<1>2. /\ data \in Words /\ pos = 1 /\ headers = [k \in {} |-> <<>>] /\ payload = <<>>
      /\ command \in Words /\ client \in {"hand", "js", "python"} /\ DOMAIN headers = {}
      /\ Len(data) \in Nat
  BY <1>0, <1>1, WordLength DEF ParserTypeOK, StartOK
<1>3. e \in Nat /\ e >= 1 /\ e <= Len(data) + 1 /\ w \in Words
  BY <1>1, <1>2, CommandWord
<1>4. /\ e <= Len(data) /\ data[e] # LF => ~Understood(data)
      /\ ~is_cmd_recognized(w) => ~Understood(data)
      /\ ~(e <= Len(data) /\ data[e] # LF) /\ is_cmd_recognized(w) =>
           e = 2 /\ CommandRead(data, w) /\ HeadRead(data, 3) /\ ReadLines(data, 3) = {}
  BY <1>1, <1>2, CommandOfFrame
<1> HIDE DEF e, w
<1>5. CASE e <= Len(data) /\ data[e] # LF
  <2>1. ParserTypeOK'
    BY <1>1, <1>2, <1>5, EmptyWord DEF ParserTypeOK, Errors, Settled
  <2>2. VerdictOK'
    BY <1>1, <1>4, <1>5 DEF VerdictOK, Verdict
  <2>3. StartOK' /\ ReadingOK' /\ OutcomeIsDue'
    BY <1>1, <1>5 DEF StartOK, ReadingOK, OutcomeIsDue
  <2> QED
    BY <2>1, <2>2, <2>3 DEF ParserInv
<1>6. CASE ~(e <= Len(data) /\ data[e] # LF) /\ ~is_cmd_recognized(w)
  <2>1. ParserTypeOK'
    BY <1>1, <1>2, <1>3, <1>6, EmptyWord DEF ParserTypeOK, Errors, Settled
  <2>2. VerdictOK'
    BY <1>1, <1>4, <1>6 DEF VerdictOK, Verdict
  <2>3. StartOK' /\ ReadingOK' /\ OutcomeIsDue'
    BY <1>1, <1>6 DEF StartOK, ReadingOK, OutcomeIsDue
  <2> QED
    BY <2>1, <2>2, <2>3 DEF ParserInv
<1>7. CASE ~(e <= Len(data) /\ data[e] # LF) /\ is_cmd_recognized(w)
  <2>0. /\ command' = w /\ pos' = 3 /\ ec' = "OK" /\ stage' = "headers"
        /\ e = 2 /\ CommandRead(data, w) /\ HeadRead(data, 3) /\ ReadLines(data, 3) = {}
    BY <1>1, <1>4, <1>7
  <2>1. ParserTypeOK'
    BY <1>1, <1>2, <1>3, <2>0, EmptyWord DEF ParserTypeOK, Errors
  <2>2. HeadersUpTo(data, 3) = [k \in {} |-> <<>>]
    BY <2>0 DEF HeadersUpTo
  <2>3. 3 <= Len(data) => data[2] = LF
    BY <2>0, <1>2, <1>7
  <2>4. ReadingOK'
    BY <1>1, <1>2, <2>0, <2>2, <2>3 DEF ReadingOK
  <2>5. StartOK' /\ VerdictOK' /\ OutcomeIsDue'
    BY <1>1, <1>2, <2>0 DEF StartOK, VerdictOK, OutcomeIsDue
  <2> QED
    BY <2>1, <2>4, <2>5 DEF ParserInv
<1> QED
  BY <1>5, <1>6, <1>7

-----------------------------------------------------------------------------
(* ReadHeader.                                                             *)
LEMMA HeaderDoes ==
  ASSUME ReadHeader
  PROVE  LET e == FirstOf({LF, NUL}, data, pos)
             line == SubSeq(data, pos, e - 1)
             colon == SplitAt(line)
         IN /\ stage = "headers" /\ pos <= Len(data) /\ line # <<>>
            /\ data' = data /\ client' = client /\ command' = command /\ payload' = payload
            /\ pos' = IF e > Len(data) THEN e ELSE e + 1
            /\ headers' = IF colon >= Len(line) THEN headers
                          ELSE LET key == trim(SubSeq(line, 1, colon - 1))
                                   value == trim(SubSeq(line, colon + 1, Len(line)))
                               IN [k \in DOMAIN headers \cup {key} |->
                                     IF k = key THEN value ELSE headers[k]]
            /\ ec' = IF (e <= Len(data) /\ data[e] = NUL) \/ colon >= Len(line)
                     THEN "UNKOWN_FORMAT_HEADER" ELSE ec
            /\ stage' = IF ec' = "OK" THEN "headers" ELSE "parsed"
BY DEF ReadHeader, parse_head, NextLinePos

(* The words of the message stay words.                                    *)
LEMMA HeaderTyped ==
  ASSUME NEW h, DOMAIN h \subseteq Words, \A k \in DOMAIN h : h[k] \in Words,
         NEW key \in Words, NEW value \in Words,
         NEW g, g = [k \in DOMAIN h \cup {key} |-> IF k = key THEN value ELSE h[k]]
  PROVE  DOMAIN g \subseteq Words /\ \A k \in DOMAIN g : g[k] \in Words
OBVIOUS

LEMMA HeaderKeeps == ParserInv /\ ReadHeader => ParserInv'
<1> SUFFICES ASSUME ParserInv, ReadHeader PROVE ParserInv'
  OBVIOUS
<1> DEFINE e == FirstOf({LF, NUL}, data, pos)
           line == SubSeq(data, pos, e - 1)
           colon == SplitAt(line)
           key == trim(SubSeq(line, 1, colon - 1))
           value == trim(SubSeq(line, colon + 1, Len(line)))
           q == IF e > Len(data) THEN e ELSE e + 1
           Bad == (e <= Len(data) /\ data[e] = NUL) \/ colon >= Len(line)
<1>1. /\ stage = "headers" /\ pos <= Len(data) /\ line # <<>>
      /\ data' = data /\ client' = client /\ command' = command /\ payload' = payload
      /\ pos' = q
      /\ headers' = IF colon >= Len(line) THEN headers
                    ELSE [k \in DOMAIN headers \cup {key} |-> IF k = key THEN value ELSE headers[k]]
      /\ ec' = IF Bad THEN "UNKOWN_FORMAT_HEADER" ELSE ec
      /\ stage' = IF ec' = "OK" THEN "headers" ELSE "parsed"
  BY HeaderDoes
<1>2. /\ data \in Words /\ pos \in Nat /\ Len(data) \in Nat /\ payload = <<>>
      /\ command \in Words /\ client \in {"hand", "js", "python"}
      /\ DOMAIN headers \subseteq Words /\ \A k \in DOMAIN headers : headers[k] \in Words
  BY <1>1, WordLength DEF ParserInv, ParserTypeOK, StartOK
<1>3. /\ ec = "OK" /\ CommandRead(data, command) /\ pos >= 3 /\ data[pos - 1] = LF
      /\ HeadRead(data, pos) /\ headers = HeadersUpTo(data, pos)
  BY <1>1 DEF ParserInv, ReadingOK
<1>4. /\ e \in Nat /\ e > pos /\ e <= Len(data) + 1 /\ Len(line) = e - pos /\ line \in Words
      /\ colon \in 1..Len(line) + 1
      /\ e <= Len(data) /\ data[e] = NUL => ~Understood(data)
      /\ colon >= Len(line) => ~Understood(data)
      /\ ~(e <= Len(data) /\ data[e] = NUL) /\ colon < Len(line) =>
           /\ q \in Nat /\ q > pos /\ q <= Len(data) + 1 /\ (q <= Len(data) => data[q - 1] = LF)
           /\ HeadRead(data, q)
           /\ key = Key(data, pos)
           /\ value = Value(data, pos)
           /\ \A i \in Nat : i >= pos /\ i < q - 1 => data[i] # LF
  BY <1>1, <1>2, <1>3, LineRead
<1>5. colon < Len(line) => key \in Words /\ value \in Words
  <2> HIDE DEF line, colon
  <2>1. ASSUME colon < Len(line)
        PROVE  /\ colon - 1 \in Nat /\ colon - 1 <= Len(line) /\ colon + 1 \in Nat
               /\ colon + 1 >= 1 /\ Len(line) \in Nat /\ Len(line) <= Len(line)
    BY <1>2, <1>4, <2>1
  <2>2. colon < Len(line) => /\ SubSeq(line, 1, colon - 1) \in Words
                             /\ SubSeq(line, colon + 1, Len(line)) \in Words
    BY <1>4, <2>1, WordPart
  <2> QED
    BY <2>2, TrimType
<1>6. pos' \in 1..Len(data) + 1
  <2> HIDE DEF e, line, colon, key, value
  <2>1. q \in 1..Len(data) + 1
    <3>1. CASE e > Len(data)
      BY <3>1, <1>2, <1>4
    <3>2. CASE ~(e > Len(data))
      BY <3>2, <1>2, <1>4
    <3> QED
      BY <3>1, <3>2
  <2> QED
    BY <2>1, <1>1
<1>7. colon \in Nat /\ Len(line) \in Nat
  BY <1>2, <1>4
<1>8. Bad => ~Understood(data)
  BY <1>4
<1> HIDE DEF e, line, colon, key, value, q
<1>9. DOMAIN headers' \subseteq Words /\ \A k \in DOMAIN headers' : headers'[k] \in Words
  <2>1. CASE colon >= Len(line)
    BY <2>1, <1>1, <1>2
  <2>2. CASE ~(colon >= Len(line))
    <3>1. key \in Words /\ value \in Words
      BY <2>2, <1>5, <1>7
    <3> DEFINE g == [k \in DOMAIN headers \cup {key} |-> IF k = key THEN value ELSE headers[k]]
    <3>2. headers' = g
      BY <2>2, <1>1
    <3>3. DOMAIN g \subseteq Words /\ \A k \in DOMAIN g : g[k] \in Words
      BY <1>2, <3>1, HeaderTyped
    <3> QED
      BY <3>2, <3>3
  <2> QED
    BY <2>1, <2>2
<1>10. ParserTypeOK'
  <2>1. pos' # Len(data) + 2 /\ pos' \in 1..Len(data) + 2
    BY <1>2, <1>6
  <2>2. ec' \in Errors /\ stage' \in {"headers", "parsed"}
    BY <1>1, <1>3 DEF Errors
  <2> QED
    BY <1>1, <1>2, <1>9, <2>1, <2>2, EmptyWord DEF ParserTypeOK
<1>11. CASE Bad
  <2>1. ec' = "UNKOWN_FORMAT_HEADER" /\ stage' = "parsed"
    BY <1>1, <1>11
  <2>2. VerdictOK'
    BY <1>1, <1>8, <1>11, <2>1 DEF VerdictOK, Verdict
  <2>3. StartOK' /\ ReadingOK' /\ OutcomeIsDue'
    BY <2>1 DEF StartOK, ReadingOK, OutcomeIsDue
  <2> QED
    BY <1>10, <2>2, <2>3 DEF ParserInv
<1>12. CASE ~Bad
  <2>1. ec' = "OK" /\ stage' = "headers" /\ colon < Len(line)
    BY <1>1, <1>3, <1>7, <1>12
  <2>2. /\ q \in Nat /\ q > pos /\ q <= Len(data) + 1 /\ (q <= Len(data) => data[q - 1] = LF)
        /\ HeadRead(data, q) /\ key = Key(data, pos) /\ value = Value(data, pos)
        /\ \A i \in Nat : i >= pos /\ i < q - 1 => data[i] # LF
    BY <1>4, <1>12, <2>1
  <2>3. headers' = [k \in DOMAIN headers \cup {key} |-> IF k = key THEN value ELSE headers[k]]
    BY <1>1, <1>12
  <2>4. headers' = HeadersUpTo(data, q)
    <3>1. /\ pos \in Nat /\ pos >= 3 /\ data[pos - 1] = LF /\ q \in Nat /\ q > pos
          /\ \A i \in Nat : i >= pos /\ i < q - 1 => data[i] # LF
      BY <1>2, <1>3, <2>2
    <3>2. HeadersUpTo(data, q) = With(HeadersUpTo(data, pos), Key(data, pos), Value(data, pos))
      BY <3>1, OneMoreHeader
    <3>3. HeadersUpTo(data, q) = With(headers, key, value)
      BY <3>2, <1>3, <2>2
    <3> QED
      BY <3>3, <2>3 DEF With
  <2>5. q >= 3
    BY <1>2, <1>3, <2>2
  <2>6. ReadingOK'
    BY <1>1, <1>3, <2>1, <2>2, <2>4, <2>5 DEF ReadingOK
  <2>7. StartOK' /\ VerdictOK' /\ OutcomeIsDue'
    BY <1>1, <1>2, <2>1 DEF StartOK, VerdictOK, OutcomeIsDue
  <2> QED
    BY <1>10, <2>6, <2>7 DEF ParserInv
<1> QED
  BY <1>11, <1>12

-----------------------------------------------------------------------------
(* The end of the headers.                                                 *)
LEMMA PayloadKeeps == ParserInv /\ ReadPayload => ParserInv'
<1> SUFFICES ASSUME ParserInv, ReadPayload PROVE ParserInv'
  OBVIOUS
<1>1. /\ stage = "headers" /\ pos <= Len(data) /\ data[pos] \in {LF, NUL}
      /\ data' = data /\ client' = client /\ command' = command /\ headers' = headers
      /\ pos' = NextLinePos(pos) /\ stage' = "parsed"
      /\ ec' = IF data[pos] = NUL THEN "UNKOWN_FORMAT_HEADER" ELSE ec
      /\ payload' = IF ec' = "OK" THEN SubSeq(data, pos', Len(data)) ELSE payload
  BY DEF ReadPayload
<1>2. /\ data \in Words /\ pos \in Nat /\ pos >= 1 /\ Len(data) \in Nat /\ payload = <<>>
      /\ command \in Words /\ client \in {"hand", "js", "python"}
      /\ DOMAIN headers \subseteq Words /\ \A k \in DOMAIN headers : headers[k] \in Words
  BY <1>1, WordLength DEF ParserInv, ParserTypeOK, StartOK
<1>3. /\ ec = "OK" /\ CommandRead(data, command) /\ pos >= 3 /\ data[pos - 1] = LF
      /\ HeadRead(data, pos) /\ headers = HeadersUpTo(data, pos)
  BY <1>1 DEF ParserInv, ReadingOK
<1>4. pos' = pos + 1 /\ pos' \in Nat
  BY <1>1, <1>2 DEF NextLinePos
<1>5. LF # NUL
  BY TokenFacts
<1>6. payload' \in Words /\ ec' \in Errors
  <2>1. SubSeq(data, pos + 1, Len(data)) \in Words
    <3>1. pos + 1 \in Nat /\ pos + 1 >= 1 /\ Len(data) <= Len(data)
      BY <1>2
    <3> QED
      BY <3>1, <1>2, WordPart
  <2> QED
    BY <2>1, <1>1, <1>2, <1>3, <1>4, EmptyWord DEF Errors
<1>7. ParserTypeOK'
  <2>1. pos' # Len(data) + 2 /\ pos' \in 1..Len(data) + 2
    BY <1>1, <1>2, <1>4
  <2> QED
    BY <1>1, <1>2, <1>6, <2>1 DEF ParserTypeOK
<1>8. StartOK' /\ ReadingOK' /\ OutcomeIsDue'
  BY <1>1 DEF StartOK, ReadingOK, OutcomeIsDue
<1>9. CASE data[pos] = NUL
  <2>1. ~(pos < pos) /\ \A i \in Nat : i >= pos /\ i < pos => data[i] \notin {LF, NUL}
    BY <1>2
  <2>2. HeadLength(data) >= pos
    BY <2>1, <1>1, <1>2, <1>3, <1>9, LineInHead
  <2>3. ~Understood(data)
    BY <2>2, <1>2, <1>9, NulSpoils, HeadLengthIs
  <2>4. ec' # "OK"
    BY <1>1, <1>9
  <2>5. VerdictOK'
    BY <1>1, <2>3, <2>4 DEF VerdictOK, Verdict
  <2> QED
    BY <1>7, <1>8, <2>5 DEF ParserInv
<1>10. CASE data[pos] # NUL
  <2>1. data[pos] = LF /\ ec' = "OK" /\ payload' = SubSeq(data, pos + 1, Len(data))
    BY <1>1, <1>3, <1>4, <1>10
  <2>2. Understood(data) /\ headers = HeadersOf(data) /\ HeadLength(data) = pos - 2
    BY <2>1, <1>1, <1>2, <1>3, HeadEndsAtEmptyLine
  <2>3. HeadLength(data) + 3 = pos + 1
    BY <2>2, <1>2
  <2>4. command = <<data[1]>>
    BY <1>3 DEF CommandRead
  <2>5. VerdictOK'
    BY <1>1, <2>1, <2>2, <2>3, <2>4 DEF VerdictOK, Verdict
  <2> QED
    BY <1>7, <1>8, <2>5 DEF ParserInv
<1> QED
  BY <1>9, <1>10

LEMMA EndOfDataKeeps == ParserInv /\ EndOfData => ParserInv'
<1> SUFFICES ASSUME ParserInv, EndOfData PROVE ParserInv'
  OBVIOUS
<1>1. /\ stage = "headers" /\ pos > Len(data) /\ stage' = "parsed" /\ pos' = pos
      /\ data' = data /\ client' = client /\ command' = command /\ headers' = headers
      /\ ec' = ec /\ payload' = payload
  BY DEF EndOfData
<1>2. /\ data \in Words /\ pos \in Nat /\ Len(data) \in Nat /\ payload = <<>>
      /\ pos <= Len(data) + 2 /\ (pos = Len(data) + 2 => DOMAIN headers = {})
  BY <1>1, WordLength DEF ParserInv, ParserTypeOK, StartOK
<1>3. /\ ec = "OK" /\ CommandRead(data, command) /\ pos >= 3
      /\ HeadRead(data, pos) /\ headers = HeadersUpTo(data, pos)
  BY <1>1 DEF ParserInv, ReadingOK
<1>4. DOMAIN headers = {} => ReadLines(data, pos) = {}
  BY <1>3 DEF HeadersUpTo
<1>5. Understood(data) /\ headers = HeadersOf(data) /\ HeadLength(data) = Len(data)
  BY <1>1, <1>2, <1>3, <1>4, HeadIsAll
<1>6. payload = SubSeq(data, HeadLength(data) + 3, Len(data))
  BY <1>2, <1>5 DEF Words
<1>7. command = <<data[1]>>
  BY <1>3 DEF CommandRead
<1>8. VerdictOK'
  BY <1>1, <1>3, <1>5, <1>6, <1>7 DEF VerdictOK, Verdict
<1>9. ParserTypeOK'
  BY <1>1 DEF ParserInv, ParserTypeOK
<1>10. StartOK' /\ ReadingOK' /\ OutcomeIsDue'
  BY <1>1 DEF StartOK, ReadingOK, OutcomeIsDue
<1> QED
  BY <1>8, <1>9, <1>10 DEF ParserInv

-----------------------------------------------------------------------------
(* What becomes of the frame.                                              *)
LEMMA HeadersAreThere ==
  ASSUME NEW f
  PROVE  DOMAIN HeadersOf(f) = {Key(f, l) : l \in HeadLines(f)}
BY DEF HeadersOf

Complete(f) ==
  /\ Understood(f) /\ f[1] \in DOMAIN Required
  /\ \A i \in DOMAIN Required[f[1]] :
       \E l \in HeadLines(f) : Key(f, l) = <<Required[f[1]][i]>>

(* What the last actions have in common: the message stays as it is.       *)
Keeps ==
  UNCHANGED <<client, data, pos, command, headers, payload, ec>>

LEMMA OutcomeKeeps ==
  ASSUME ParserInv, stage = "parsed", Keeps,
         \/ stage' = "refused" /\ ~Complete(data)
         \/ stage' = "handled" /\ Complete(data)
         \/ stage' = "ignored" /\ Understood(data) /\ data[1] \notin DOMAIN Required
  PROVE  ParserInv'
<1>1. ParserTypeOK'
  BY DEF ParserInv, ParserTypeOK, Keeps, Settled
<1>2. StartOK' /\ ReadingOK'
  BY DEF StartOK, ReadingOK
<1>3. VerdictOK'
  BY DEF ParserInv, VerdictOK, Keeps
<1>4. OutcomeIsDue'
  BY DEF OutcomeIsDue, Complete, Keeps
<1> QED
  BY <1>1, <1>2, <1>3, <1>4 DEF ParserInv

LEMMA RefuseKeeps == ParserInv /\ RefuseMessage => ParserInv'
<1> SUFFICES ASSUME ParserInv, RefuseMessage PROVE ParserInv'
  OBVIOUS
<1>1. stage = "parsed" /\ ec # "OK" /\ stage' = "refused" /\ Keeps
  BY DEF RefuseMessage, Keeps
<1>2. ~Complete(data)
  BY <1>1 DEF ParserInv, VerdictOK, Verdict, Complete
<1> QED
  BY <1>1, <1>2, OutcomeKeeps

LEMMA DispatchedIs ==
  ASSUME ParserInv, NEW c \in DOMAIN Required, Dispatches(c)
  PROVE  /\ stage = "parsed" /\ Understood(data) /\ data[1] = c
         /\ fetch_header(c) = {} <=> Complete(data)
<1>1. stage = "parsed" /\ ec = "OK" /\ command = <<c>>
  BY DEF Dispatches
<1>2. Understood(data) /\ command = <<data[1]>> /\ headers = HeadersOf(data)
  BY <1>1 DEF ParserInv, VerdictOK, Verdict
<1>3. data[1] = c
  BY <1>1, <1>2
<1>4. DOMAIN headers = {Key(data, l) : l \in HeadLines(data)}
  BY <1>2, HeadersAreThere
<1>5. fetch_header(c) = {} <=>
        \A i \in DOMAIN Required[c] : <<Required[c][i]>> \in DOMAIN headers
  BY DEF fetch_header
<1>6. Complete(data) <=>
        \A i \in DOMAIN Required[c] : \E l \in HeadLines(data) : Key(data, l) = <<Required[c][i]>>
  BY <1>2, <1>3 DEF Complete
<1> QED
  BY <1>1, <1>2, <1>3, <1>4, <1>5, <1>6

LEMMA MissingKeeps == ParserInv /\ MissingHeader => ParserInv'
<1> SUFFICES ASSUME ParserInv, MissingHeader PROVE ParserInv'
  OBVIOUS
<1>1. PICK c \in DOMAIN Required :
        Dispatches(c) /\ fetch_header(c) # {} /\ stage' = "refused" /\ Keeps
  BY DEF MissingHeader, Keeps
<1> QED
  BY <1>1, DispatchedIs, OutcomeKeeps

LEMMA HandleKeeps == ParserInv /\ Handle => ParserInv'
<1> SUFFICES ASSUME ParserInv, Handle PROVE ParserInv'
  OBVIOUS
<1>1. PICK c \in DOMAIN Required :
        Dispatches(c) /\ fetch_header(c) = {} /\ stage' = "handled" /\ Keeps
  BY DEF Handle, Keeps
<1> QED
  BY <1>1, DispatchedIs, OutcomeKeeps

LEMMA IgnoreKeeps == ParserInv /\ Ignore => ParserInv'
<1> SUFFICES ASSUME ParserInv, Ignore PROVE ParserInv'
  OBVIOUS
<1>1. /\ stage = "parsed" /\ ec = "OK" /\ command \notin {<<c>> : c \in DOMAIN Required}
      /\ stage' = "ignored" /\ Keeps
  BY DEF Ignore, Keeps
<1>2. Understood(data) /\ command = <<data[1]>>
  BY <1>1 DEF ParserInv, VerdictOK, Verdict
<1>3. data[1] \notin DOMAIN Required
  BY <1>1, <1>2
<1> QED
  BY <1>1, <1>2, <1>3, OutcomeKeeps

LEMMA ParserStep == ParserInv /\ [ParserNext]_vars => ParserInv'
<1> SUFFICES ASSUME ParserInv, [ParserNext]_vars PROVE ParserInv'
  OBVIOUS
<1>1. CASE EmptyFrame
  BY <1>1, EmptyFrameKeeps
<1>2. CASE parse_command
  BY <1>2, CommandKeeps
<1>3. CASE ReadHeader
  BY <1>3, HeaderKeeps
<1>4. CASE ReadPayload
  BY <1>4, PayloadKeeps
<1>5. CASE EndOfData
  BY <1>5, EndOfDataKeeps
<1>6. CASE RefuseMessage
  BY <1>6, RefuseKeeps
<1>7. CASE MissingHeader
  BY <1>7, MissingKeeps
<1>8. CASE Handle
  BY <1>8, HandleKeeps
<1>9. CASE Ignore
  BY <1>9, IgnoreKeeps
<1>10. CASE UNCHANGED vars
  BY <1>10, ParserStutters
<1> QED
  BY <1>1, <1>2, <1>3, <1>4, <1>5, <1>6, <1>7, <1>8, <1>9, <1>10 DEF ParserNext

LEMMA ParserSteps == ParserSpec => ParserInit /\ [][ParserNext]_vars
BY PTL DEF ParserSpec

LEMMA ParserInvHolds == ParserSpec => []ParserInv
BY ParserStarts, ParserStep, ParserSteps, PTL

-----------------------------------------------------------------------------
(* Where the parts of a SEND or of a MESSAGE are: c the command, v and w   *)
(* the values of its last two headers, b all that follows the head.        *)
Layout(f, c, v, w, b) ==
  LET n == Len(v)
      m == Len(w)
  IN /\ f \in Words /\ Len(f) = 25 + n + m + Len(b)
     /\ f[1] = c /\ f[2] = LF
     /\ f[3] = "transaction" /\ f[4] = Colon /\ f[5] = "1" /\ f[6] = LF
     /\ f[7] = "session-id" /\ f[8] = Colon /\ f[9] = "x" /\ f[10] = LF
     /\ f[11] = "origin" /\ f[12] = Colon /\ f[13] = "x" /\ f[14] = LF
     /\ f[15] = "destination" /\ f[16] = Colon /\ f[17] = "x" /\ f[18] = LF
     /\ f[19] = "content-type" /\ f[20] = Colon /\ At(f, 20, v) /\ f[21 + n] = LF
     /\ f[22 + n] = "content-length" /\ f[23 + n] = Colon /\ At(f, 23 + n, w)
     /\ f[24 + n + m] = LF /\ f[25 + n + m] = LF /\ At(f, 25 + n + m, b)

Framed(c, v, w) == Cat(Cat(<<c, LF>>, HeaderLines(SendHeaders(v, w))), <<LF>>)

LEMMA LineIn ==
  ASSUME NEW f \in Words, NEW k \in Nat, NEW name \in HeaderNames, NEW v \in Words,
         At(f, k, Line(name, v))
  PROVE  /\ f[k + 1] = name /\ f[k + 2] = Colon /\ At(f, k + 2, v) /\ f[k + 3 + Len(v)] = LF
         /\ v # <<>> => f[k + 3] = v[1]
<1> DEFINE l == Line(name, v)
<1>1. /\ l \in Words /\ Len(l) = Len(v) + 3 /\ l[1] = name /\ l[2] = Colon
      /\ At(l, 2, v) /\ l[Len(v) + 3] = LF
  BY LineAt
<1>2. Len(v) \in Nat
  BY WordLength
<1> HIDE DEF l
<1>3. f[k + 1] = l[1] /\ f[k + 2] = l[2] /\ f[k + (Len(v) + 3)] = l[Len(v) + 3]
  BY <1>1, <1>2 DEF At, l
<1>4. At(f, k + 2, v)
  BY <1>1, AtInside DEF l
<1>5. v # <<>> => f[(k + 2) + 1] = v[1]
  BY <1>2, <1>4, WordLength DEF At
<1> QED
  BY <1>1, <1>2, <1>3, <1>4, <1>5

LEMMA ShortLineIn ==
  ASSUME NEW f \in Words, NEW k \in Nat, NEW name \in HeaderNames, NEW v \in Words,
         Len(v) = 1, At(f, k, Line(name, v))
  PROVE  f[k + 1] = name /\ f[k + 2] = Colon /\ f[k + 3] = v[1] /\ f[k + 4] = LF
<1> DEFINE l == Line(name, v)
<1>1. /\ l \in Words /\ Len(l) = Len(v) + 3 /\ l[1] = name /\ l[2] = Colon
      /\ At(l, 2, v) /\ l[Len(v) + 3] = LF
  BY LineAt
<1>2. At(f, k, l)
  OBVIOUS
<1> HIDE DEF l
<1>3. Len(l) = 4 /\ l[4] = LF /\ l[2 + 1] = v[1]
  BY <1>1 DEF At
<1> QED
  BY <1>1, <1>2, <1>3 DEF At

LEMMA FrameLayout ==
  ASSUME NEW c \in Commands, NEW v \in Words, NEW w \in Words, NEW b \in Words
  PROVE  Layout(Cat(Framed(c, v, w), b), c, v, w, b)
<1> DEFINE h == HeaderLines(SendHeaders(v, w))
           a == <<c, LF>>
           e == <<LF>>
           x == Cat(a, h)
           y == Cat(x, e)
           f == Cat(y, b)
           one == <<"1">>
           ex == <<"x">>
<1>0. Len(v) \in Nat /\ Len(w) \in Nat
  BY WordLength
<1>1. /\ a \in Words /\ Len(a) = 2 /\ a[1] = c /\ a[2] = LF
      /\ e \in Words /\ Len(e) = 1 /\ e[1] = LF
  BY TokenFacts, OneToken, TwoTokens
<1>2. /\ h \in Words /\ Len(h) = 22 + Len(v) + Len(w)
      /\ At(h, 0, Line("transaction", one)) /\ At(h, 4, Line("session-id", ex))
      /\ At(h, 8, Line("origin", ex)) /\ At(h, 12, Line("destination", ex))
      /\ At(h, 16, Line("content-type", v)) /\ At(h, 19 + Len(v), Line("content-length", w))
  BY HeadersAt
<1>9. /\ one \in Words /\ Len(one) = 1 /\ one[1] = "1"
      /\ ex \in Words /\ Len(ex) = 1 /\ ex[1] = "x"
  BY TokenFacts, OneToken
<1> HIDE DEF a, e, h, one, ex
<1>3. x \in Words /\ Len(x) = 2 + Len(h) /\ At(x, 0, a) /\ At(x, 2, h)
  <2>1. x \in Words /\ Len(x) = Len(a) + Len(h) /\ At(x, 0, a) /\ At(x, Len(a), h)
    BY <1>1, <1>2, AtJoined
  <2> HIDE DEF x
  <2> QED
    BY <1>1, <2>1
<1> HIDE DEF x
<1>4. /\ y \in Words /\ Len(y) = Len(x) + 1 /\ At(y, Len(x), e)
      /\ At(y, 0, a) /\ At(y, 2, h)
  <2>1. /\ y \in Words /\ Len(y) = Len(x) + Len(e) /\ At(y, Len(x), e)
        /\ \A u \in Words, k \in Nat : At(x, k, u) => At(y, k, u)
    BY <1>1, <1>3, AtJoined, AtFirst
  <2> HIDE DEF y
  <2> QED
    BY <1>1, <1>2, <1>3, <2>1
<1> HIDE DEF y
<1>5. /\ f \in Words /\ Len(f) = Len(y) + Len(b) /\ At(f, Len(y), b)
      /\ \A u \in Words, k \in Nat : At(y, k, u) => At(f, k, u)
  BY <1>4, AtJoined, AtFirst
<1> HIDE DEF f
<1>6. Len(x) \in Nat /\ Len(x) = 24 + Len(v) + Len(w)
  BY <1>0, <1>2, <1>3
<1>7. At(f, Len(x), e) /\ At(f, 0, a) /\ At(f, 2, h)
  BY <1>1, <1>2, <1>4, <1>5, <1>6
<1>8. f[0 + 1] = c /\ f[0 + 2] = LF /\ f[Len(x) + 1] = LF
  BY <1>1, <1>7 DEF At
<1>10. {"transaction", "session-id", "origin", "destination", "content-type", "content-length"}
         \subseteq HeaderNames
  BY DEF HeaderNames
<1>11. \A k \in Nat, name \in HeaderNames, u \in Words :
         At(h, k, Line(name, u)) => At(f, 2 + k, Line(name, u))
  BY <1>2, <1>5, <1>7, AtInside, LineAt
<1>12. /\ At(f, 2 + 0, Line("transaction", one)) /\ At(f, 2 + 4, Line("session-id", ex))
       /\ At(f, 2 + 8, Line("origin", ex)) /\ At(f, 2 + 12, Line("destination", ex))
       /\ At(f, 2 + 16, Line("content-type", v))
       /\ At(f, 2 + (19 + Len(v)), Line("content-length", w))
  BY <1>0, <1>2, <1>9, <1>10, <1>11
<1>13. /\ At(f, 2, Line("transaction", one)) /\ At(f, 6, Line("session-id", ex))
       /\ At(f, 10, Line("origin", ex)) /\ At(f, 14, Line("destination", ex))
       /\ At(f, 18, Line("content-type", v)) /\ At(f, 21 + Len(v), Line("content-length", w))
  BY <1>0, <1>12
<1>23. ASSUME NEW k \in Nat, NEW name \in HeaderNames, NEW u \in Words, Len(u) = 1,
              At(f, k, Line(name, u))
       PROVE  f[k + 1] = name /\ f[k + 2] = Colon /\ f[k + 3] = u[1] /\ f[k + 4] = LF
  BY <1>5, <1>23, ShortLineIn
<1>14. f[3] = "transaction" /\ f[4] = Colon /\ f[5] = "1" /\ f[6] = LF
  <2>1. "transaction" \in HeaderNames /\ At(f, 2, Line("transaction", one)) /\ 2 \in Nat
    BY <1>10, <1>13
  <2>2. /\ f[2 + 1] = "transaction" /\ f[2 + 2] = Colon
        /\ f[2 + 3] = one[1] /\ f[2 + 4] = LF
    BY <1>9, <1>23, <2>1
  <2> QED
    BY <1>9, <2>2
<1>15. f[7] = "session-id" /\ f[8] = Colon /\ f[9] = "x" /\ f[10] = LF
  <2>1. "session-id" \in HeaderNames /\ At(f, 6, Line("session-id", ex)) /\ 6 \in Nat
    BY <1>10, <1>13
  <2>2. /\ f[6 + 1] = "session-id" /\ f[6 + 2] = Colon
        /\ f[6 + 3] = ex[1] /\ f[6 + 4] = LF
    BY <1>9, <1>23, <2>1
  <2> QED
    BY <1>9, <2>2
<1>16. f[11] = "origin" /\ f[12] = Colon /\ f[13] = "x" /\ f[14] = LF
  <2>1. "origin" \in HeaderNames /\ At(f, 10, Line("origin", ex)) /\ 10 \in Nat
    BY <1>10, <1>13
  <2>2. /\ f[10 + 1] = "origin" /\ f[10 + 2] = Colon
        /\ f[10 + 3] = ex[1] /\ f[10 + 4] = LF
    BY <1>9, <1>23, <2>1
  <2> QED
    BY <1>9, <2>2
<1>17. f[15] = "destination" /\ f[16] = Colon /\ f[17] = "x" /\ f[18] = LF
  <2>1. "destination" \in HeaderNames /\ At(f, 14, Line("destination", ex)) /\ 14 \in Nat
    BY <1>10, <1>13
  <2>2. /\ f[14 + 1] = "destination" /\ f[14 + 2] = Colon
        /\ f[14 + 3] = ex[1] /\ f[14 + 4] = LF
    BY <1>9, <1>23, <2>1
  <2> QED
    BY <1>9, <2>2
<1>18. f[19] = "content-type" /\ f[20] = Colon /\ At(f, 20, v) /\ f[21 + Len(v)] = LF
  BY <1>0, <1>5, <1>10, <1>13, LineIn
<1>19. /\ f[(21 + Len(v)) + 1] = "content-length" /\ f[(21 + Len(v)) + 2] = Colon
       /\ At(f, (21 + Len(v)) + 2, w) /\ f[(21 + Len(v)) + 3 + Len(w)] = LF
  BY <1>0, <1>5, <1>10, <1>13, LineIn
<1>20. f[22 + Len(v)] = "content-length" /\ f[23 + Len(v)] = Colon /\ At(f, 23 + Len(v), w)
       /\ f[24 + Len(v) + Len(w)] = LF /\ f[25 + Len(v) + Len(w)] = LF
  BY <1>0, <1>6, <1>8, <1>19
<1>21. /\ Len(f) = 25 + Len(v) + Len(w) + Len(b) /\ At(f, 25 + Len(v) + Len(w), b)
       /\ f[1] = c /\ f[2] = LF
  BY <1>0, <1>4, <1>5, <1>6, <1>8, WordLength
<1>22. f = Cat(Framed(c, v, w), b)
  BY DEF f, y, x, a, e, h, Framed
<1> QED
  BY <1>5, <1>14, <1>15, <1>16, <1>17, <1>18, <1>20, <1>21, <1>22 DEF Layout

LEMMA TrimOne ==
  ASSUME NEW t \in Tokens, t # Blank
  PROVE  trim(<<t>>) = <<t>> /\ trim(<<Blank, t>>) = <<t>>
<1> DEFINE a == <<t>>
           b == <<Blank, t>>
<1>1. a \in Words /\ Len(a) = 1 /\ a[1] = t /\ b \in Words /\ Len(b) = 2 /\ b[1] = Blank /\ b[2] = t
  BY TokenFacts, OneToken, TwoTokens
<1>2. trim(a) = a
  <2> HIDE DEF a
  <2>1. Tight(a)
    BY <1>1 DEF Tight
  <2> QED
    BY <1>1, <2>1, TrimTight
<1>3. rtrim(b) = b
  <2> DEFINE I == {i \in 1..Len(b) : b[i] # Blank}
  <2>1. SelectLastInSeq(b, LAMBDA c : c # Blank) = IF I # {} THEN Max(I) ELSE 0
    BY DEF SelectLastInSeq
  <2> HIDE DEF b
  <2>2. I \subseteq Nat /\ 2 \in I /\ \A y \in I : y <= 2
    BY <1>1
  <2>3. Max(I) = 2
    BY <2>2, MaxOf
  <2>4. SubSeq(b, 1, 2) = b
    BY <1>1 DEF Words
  <2> QED
    BY <2>1, <2>2, <2>3, <2>4 DEF rtrim
<1>4. ltrim(b) = a
  <2> DEFINE I == {i \in 1..Len(b) : b[i] # Blank}
  <2>1. SelectInSeq(b, LAMBDA c : c # Blank) = IF I # {} THEN Min(I) ELSE 0
    BY DEF SelectInSeq
  <2> HIDE DEF b
  <2>2. I = {2}
    <3>1. 1..Len(b) = {1, 2}
      BY <1>1
    <3> QED
      BY <1>1, <3>1
  <2>3. Min(I) = 2
    <3>1. I \subseteq Nat /\ I # {}
      BY <2>2
    <3>2. Min(I) \in I
      BY <3>1, MinIs
    <3> QED
      BY <2>2, <3>2
  <2>4. SubSeq(b, 2, 2) = a
    <3> DEFINE c == SubSeq(b, 2, 2)
    <3>1. c \in Words /\ Len(c) = 1 /\ \A i \in Nat : i >= 1 /\ i <= 1 => c[i] = b[2 + i - 1]
      <4>1. c \in Words /\ Len(c) = IF 2 <= 2 THEN 2 - 2 + 1 ELSE 0
        BY <1>1, WordPart
      <4>2. Len(c) = 1
        BY <4>1
      <4> QED
        BY <1>1, <4>1, <4>2, WordPart
    <3> HIDE DEF c
    <3>2. c[1] = b[2]
      BY <3>1
    <3> HIDE DEF a, b
    <3>3. Len(c) = Len(a) /\ \A i \in 1..Len(c) : c[i] = a[i]
      BY <1>1, <3>1, <3>2
    <3>4. c = a
      BY <1>1, <3>1, <3>3, SameWord
    <3> QED
      BY <3>4 DEF c
  <2> QED
    BY <2>1, <2>2, <2>3, <2>4, <1>1 DEF ltrim
<1> QED
  <2>1. rtrim(b) # <<>>
    BY <1>1, <1>3
  <2>2. trim(b) = ltrim(rtrim(b))
    BY <2>1 DEF trim
  <2> QED
    BY <1>2, <1>3, <1>4, <2>2

Plain(w) == \A i \in 1..Len(w) : w[i] # LF

LEMMA PlainTokens ==
  /\ \A c \in Commands \cup HeaderNames \cup {"1", "x", "0"} : c \notin {LF, NUL, Colon, Blank}
  /\ "0" \in Tokens
BY FramesAssumption DEF Tokens, Commands, HeaderNames, LF, NUL, Colon, Blank

(* Where the lines of such a frame end.                                    *)
LEMMA LayoutEnds ==
  ASSUME NEW f, NEW c \in Commands, NEW v \in Words, NEW w \in Words, NEW b \in Words,
         Layout(f, c, v, w, b), Plain(v), Plain(w)
  PROVE  \A i \in 1..24 + Len(v) + Len(w) :
           f[i] = LF <=> i \in {2, 6, 10, 14, 18, 21 + Len(v), 24 + Len(v) + Len(w)}
<1> DEFINE n == Len(v)
           m == Len(w)
<1>0. n \in Nat /\ m \in Nat
  BY WordLength
<1> SUFFICES ASSUME NEW i \in 1..24 + n + m
             PROVE  f[i] = LF <=> i \in {2, 6, 10, 14, 18, 21 + n, 24 + n + m}
  OBVIOUS
<1>1. /\ f[1] # LF /\ f[3] # LF /\ f[4] # LF /\ f[5] # LF /\ f[7] # LF /\ f[8] # LF /\ f[9] # LF
      /\ f[11] # LF /\ f[12] # LF /\ f[13] # LF /\ f[15] # LF /\ f[16] # LF /\ f[17] # LF
      /\ f[19] # LF /\ f[20] # LF /\ f[22 + n] # LF /\ f[23 + n] # LF
  BY PlainTokens, TokenFacts DEF Layout, HeaderNames
<1>2. /\ f[2] = LF /\ f[6] = LF /\ f[10] = LF /\ f[14] = LF /\ f[18] = LF
      /\ f[21 + n] = LF /\ f[24 + n + m] = LF
  BY DEF Layout
<1>3. CASE i <= 20
  <2>1. CASE i \in {2, 6, 10, 14, 18}
    BY <1>2, <2>1
  <2>2. CASE i \in {1, 3, 4, 5, 7, 8, 9, 11, 12, 13, 15, 16, 17, 19, 20}
    <3>1. f[i] # LF
      BY <1>1, <2>2
    <3>2. i \notin {2, 6, 10, 14, 18, 21 + n, 24 + n + m}
      BY <1>0, <2>2
    <3> QED
      BY <3>1, <3>2
  <2>3. i \in 1..20
    BY <1>3
  <2> QED
    BY <2>1, <2>2, <2>3
<1>4. CASE i > 20 /\ i <= 20 + n
  <2>1. i - 20 \in 1..Len(v) /\ 20 + (i - 20) = i
    BY <1>0, <1>4
  <2>2. f[20 + (i - 20)] = v[i - 20] /\ v[i - 20] # LF
    BY <2>1 DEF Layout, At, Plain
  <2> QED
    BY <1>0, <1>4, <2>1, <2>2
<1>5. CASE i \in {21 + n, 22 + n, 23 + n, 24 + n + m}
  BY <1>0, <1>1, <1>2, <1>5
<1>6. CASE i > 23 + n /\ i < 24 + n + m
  <2>1. i - (23 + n) \in 1..Len(w) /\ (23 + n) + (i - (23 + n)) = i
    BY <1>0, <1>6
  <2>2. At(f, 23 + n, w)
    BY DEF Layout
  <2>3. f[(23 + n) + (i - (23 + n))] = w[i - (23 + n)] /\ w[i - (23 + n)] # LF
    BY <2>1, <2>2 DEF At, Plain
  <2> QED
    BY <1>0, <1>6, <2>1, <2>3
<1> QED
  BY <1>0, <1>3, <1>4, <1>5, <1>6

LEMMA LayoutHead ==
  ASSUME NEW f, NEW c \in Commands, NEW v \in Words, NEW w \in Words, NEW b \in Words,
         Layout(f, c, v, w, b), Plain(v), Plain(w)
  PROVE  /\ HeadLength(f) = 23 + Len(v) + Len(w)
         /\ HeadLines(f) = {3, 7, 11, 15, 19, 22 + Len(v)}
<1> DEFINE n == Len(v)
           m == Len(w)
           h == 23 + n + m
           E == {2, 6, 10, 14, 18, 21 + n, 24 + n + m}
<1>0. n \in Nat /\ m \in Nat
  BY WordLength
<1>1. /\ f \in Words /\ Len(f) \in Nat /\ Len(f) >= 25 + n + m
      /\ f[24 + n + m] = LF /\ f[25 + n + m] = LF
  BY <1>0, WordLength DEF Layout
<1>2. \A i \in 1..24 + n + m : f[i] = LF <=> i \in E
  BY LayoutEnds
<1>3. h \in 0..Len(f) /\ Empty(f, h + 1)
  BY <1>0, <1>1 DEF Empty
<1>4. ASSUME NEW k \in 0..Len(f), Empty(f, k + 1) PROVE h <= k
  <2> SUFFICES ASSUME k < h PROVE FALSE
    BY <1>0
  <2>1. f[k + 1] = LF /\ f[k + 2] = LF
    BY <1>4 DEF Empty
  <2>2. k + 1 \in 1..24 + n + m /\ k + 2 \in 1..24 + n + m
    BY <1>0
  <2>3. k + 1 \in E /\ k + 2 \in E
    BY <1>2, <2>1, <2>2
  <2> QED
    BY <2>3, <1>0
<1>5. HeadLength(f) = h
  <2> HIDE DEF h
  <2> QED
    BY <1>1, <1>3, <1>4, HeadLengthUnique
<1>6. ASSUME NEW i \in 3..h PROVE f[i - 1] = LF <=> i \in {3, 7, 11, 15, 19, 22 + n}
  <2>1. i - 1 \in 1..24 + n + m
    BY <1>0
  <2>2. f[i - 1] = LF <=> i - 1 \in E
    BY <1>2, <2>1
  <2>3. i - 1 \in E <=> i \in {3, 7, 11, 15, 19, 22 + n}
    BY <1>0
  <2> QED
    BY <2>2, <2>3
<1>7. {3, 7, 11, 15, 19, 22 + n} \subseteq 3..h
  BY <1>0
<1>8. HeadLines(f) = {i \in 3..h : f[i - 1] = LF}
  BY <1>5 DEF HeadLines
<1> QED
  BY <1>5, <1>6, <1>7, <1>8

LEMMA KeyIs ==
  ASSUME NEW f \in Words, NEW l \in Nat, l >= 1, l + 1 <= Len(f),
         f[l] \notin {Colon, Blank}, f[l + 1] = Colon
  PROVE  FirstOf({Colon}, f, l) = l + 1 /\ Key(f, l) = <<f[l]>>
<1>0. Len(f) \in Nat
  BY WordLength
<1>1. FirstOf({Colon}, f, l) = l + 1
  <2> DEFINE e == l + 1
  <2>1. /\ e \in Nat /\ e >= l /\ e <= Len(f) + 1 /\ f[e] \in {Colon}
        /\ \A i \in Nat : i >= l /\ i < e => f[i] \notin {Colon}
    BY <1>0
  <2> HIDE DEF e
  <2>2. FirstOf({Colon}, f, l) = e
    BY <2>1, FirstOfUnique
  <2> QED
    BY <2>2 DEF e
<1>2. SubSeq(f, l, l) = <<f[l]>> /\ f[l] \in Tokens
  <2>1. f[l] \in Tokens
    BY <1>0, WordElement
  <2> DEFINE z == l
             s == SubSeq(f, l, z)
             t == f[l]
             a == <<t>>
  <2>7. z \in Nat /\ z <= Len(f) /\ l <= z /\ z - l + 1 = 1
    BY <1>0
  <2> HIDE DEF z
  <2>2. s \in Words /\ Len(s) = IF l <= z THEN z - l + 1 ELSE 0
    BY <2>7, WordPart
  <2>3. \A i \in Nat : i >= 1 /\ i <= Len(s) => s[i] = f[l + i - 1]
    BY <2>7, WordPart
  <2> HIDE DEF s
  <2>4. Len(s) = 1 /\ s[1] = f[l]
    <3>1. Len(s) = 1 /\ l + 1 - 1 = l
      BY <2>2, <2>7
    <3> QED
      BY <2>3, <3>1
  <2>5. a \in Words /\ Len(a) = 1 /\ a[1] = f[l]
    BY <2>1, OneToken
  <2> HIDE DEF a
  <2>6. s = a
    BY <2>2, <2>4, <2>5, SameWord
  <2> QED
    BY <2>1, <2>6 DEF s, a, z
<1>3. trim(<<f[l]>>) = <<f[l]>>
  BY <1>2, TrimOne
<1>4. (l + 1) - 1 = l
  OBVIOUS
<1> QED
  BY <1>1, <1>2, <1>3, <1>4 DEF Key

LEMMA PartIs ==
  ASSUME NEW f \in Words, NEW k \in Nat, NEW u \in Words, At(f, k, u)
  PROVE  SubSeq(f, k + 1, k + Len(u)) = u
<1>0. Len(f) \in Nat /\ Len(u) \in Nat
  BY WordLength
<1> DEFINE s == SubSeq(f, k + 1, k + Len(u))
           a == k + 1
           z == k + Len(u)
<1>1. a \in Nat /\ a >= 1 /\ z \in Nat /\ z <= Len(f)
  BY <1>0 DEF At
<1>2. (a <= z => z - a + 1 = Len(u)) /\ (~(a <= z) => Len(u) = 0)
      /\ \A i \in Nat : a + i - 1 = k + i
  BY <1>0
<1>3. s = SubSeq(f, a, z)
  OBVIOUS
<1> HIDE DEF a, z, s
<1>4. /\ s \in Words /\ Len(s) = IF a <= z THEN z - a + 1 ELSE 0
      /\ \A i \in Nat : i >= 1 /\ i <= Len(s) => s[i] = f[a + i - 1]
  BY <1>1, <1>3, WordPart
<1>5. Len(s) = Len(u)
  BY <1>2, <1>4
<1>6. \A i \in 1..Len(s) : s[i] = u[i]
  BY <1>0, <1>2, <1>4, <1>5 DEF At
<1> QED
  BY <1>4, <1>5, <1>6, SameWord DEF s

LEMMA ValueIs ==
  ASSUME NEW f \in Words, NEW l \in Nat, l >= 1, f[l] \notin {Colon, Blank, LF},
         f[l + 1] = Colon, NEW u \in Words, Plain(u), At(f, l + 1, u),
         l + 2 + Len(u) <= Len(f), f[l + 2 + Len(u)] = LF
  PROVE  FirstOf({LF}, f, l) = l + 2 + Len(u) /\ Value(f, l) = trim(u)
<1>0. Len(f) \in Nat /\ Len(u) \in Nat
  BY WordLength
<1>1. FirstOf({LF}, f, l) = l + 2 + Len(u)
  <2> DEFINE e == l + 2 + Len(u)
  <2>1. e \in Nat /\ e >= l /\ e <= Len(f) + 1 /\ f[e] \in {LF}
    BY <1>0
  <2>2. ASSUME NEW i \in Nat, i >= l, i < e PROVE f[i] \notin {LF}
    <3>1. CASE i = l \/ i = l + 1
      BY <3>1, TokenFacts
    <3>2. CASE i > l + 1
      <4>1. i - (l + 1) \in 1..Len(u) /\ (l + 1) + (i - (l + 1)) = i
        BY <1>0, <2>2, <3>2
      <4> QED
        BY <4>1 DEF At, Plain
    <3> QED
      BY <2>2, <3>1, <3>2
  <2> HIDE DEF e
  <2>3. FirstOf({LF}, f, l) = e
    BY <2>1, <2>2, FirstOfUnique
  <2> QED
    BY <2>3 DEF e
<1>2. FirstOf({Colon}, f, l) = l + 1
  <2>1. l + 1 <= Len(f) /\ f[l] \notin {Colon, Blank}
    BY <1>0
  <2> QED
    BY <2>1, KeyIs
<1>3. SubSeq(f, (l + 1) + 1, (l + 1) + Len(u)) = u
  <2> DEFINE k == l + 1
  <2>1. k \in Nat /\ At(f, k, u)
    OBVIOUS
  <2> HIDE DEF k
  <2>2. SubSeq(f, k + 1, k + Len(u)) = u
    BY <2>1, PartIs
  <2> QED
    BY <2>2 DEF k
<1>4. LineEnd(f, l) = (l + 1) + Len(u)
  BY <1>0, <1>1 DEF LineEnd
<1> QED
  BY <1>1, <1>2, <1>3, <1>4 DEF Value

(* The names of the headers and their values.                              *)
LEMMA LayoutKeys ==
  ASSUME NEW f, NEW c \in Commands, NEW v \in Words, NEW w \in Words, NEW b \in Words,
         Layout(f, c, v, w, b), NEW l \in {3, 7, 11, 15, 19, 22 + Len(v)}
  PROVE  Key(f, l) = <<f[l]>> /\ f[l] \notin {Colon, Blank, LF}
<1>1. Len(v) \in Nat /\ Len(w) \in Nat /\ Len(b) \in Nat
  BY WordLength
<1>2. f \in Words /\ Len(f) = 25 + Len(v) + Len(w) + Len(b)
  BY DEF Layout
<1>3. f[l] \in HeaderNames /\ f[l + 1] = Colon
  <2>1. CASE l = 3
    BY <2>1 DEF Layout, HeaderNames
  <2>2. CASE l = 7
    BY <2>2 DEF Layout, HeaderNames
  <2>3. CASE l = 11
    BY <2>3 DEF Layout, HeaderNames
  <2>4. CASE l = 15
    BY <2>4 DEF Layout, HeaderNames
  <2>5. CASE l = 19
    BY <2>5 DEF Layout, HeaderNames
  <2>6. CASE l = 22 + Len(v)
    <3>1. f[22 + Len(v)] = "content-length" /\ f[23 + Len(v)] = Colon
      BY DEF Layout
    <3>2. 22 + Len(v) + 1 = 23 + Len(v)
      BY <1>1
    <3> QED
      BY <2>6, <3>1, <3>2 DEF HeaderNames
  <2> QED
    BY <2>1, <2>2, <2>3, <2>4, <2>5, <2>6
<1>4. l \in Nat /\ l >= 1 /\ l + 1 <= Len(f)
  BY <1>1, <1>2
<1>5. f[l] \notin {Colon, Blank, LF}
  BY <1>3, PlainTokens
<1> QED
  BY <1>2, <1>3, <1>4, <1>5, KeyIs

LEMMA OnlyLine ==
  ASSUME NEW f, NEW l \in Nat, NEW k, l \in HeadLines(f), Key(f, l) = k,
         \A i \in HeadLines(f) : i # l => Key(f, i) # k
  PROVE  HeadersOf(f)[k] = Value(f, l)
<1>1. {i \in HeadLines(f) : Key(f, i) = k} = {l}
  OBVIOUS
<1>2. Max({l}) = l
  BY MaxOf
<1>3. k \in {Key(f, i) : i \in HeadLines(f)}
  OBVIOUS
<1> QED
  BY <1>1, <1>2, <1>3 DEF HeadersOf

LEMMA LayoutHeaders ==
  ASSUME NEW f, NEW c \in Commands, NEW v \in Words, NEW w \in Words, NEW b \in Words,
         Layout(f, c, v, w, b), Plain(v), Plain(w)
  PROVE  /\ HeadersOf(f)[<<"transaction">>] = <<"1">>
         /\ HeadersOf(f)[<<"content-type">>] = trim(v)
         /\ HeadersOf(f)[<<"content-length">>] = trim(w)
         /\ SubSeq(f, HeadLength(f) + 3, Len(f)) = b
<1> DEFINE n == Len(v)
           m == Len(w)
           one == <<"1">>
           L == {3, 7, 11, 15, 19, 22 + n}
<1>1. n \in Nat /\ m \in Nat /\ Len(b) \in Nat
  BY WordLength
<1>2. f \in Words /\ Len(f) = 25 + n + m + Len(b)
  BY DEF Layout
<1>3. HeadLength(f) = 23 + n + m /\ HeadLines(f) = L
  BY LayoutHead
<1>4. \A l \in L : Key(f, l) = <<f[l]>> /\ f[l] \notin {Colon, Blank, LF}
  BY LayoutKeys
<1>5. /\ f[3] = "transaction" /\ f[7] = "session-id" /\ f[11] = "origin"
      /\ f[15] = "destination" /\ f[19] = "content-type" /\ f[22 + n] = "content-length"
  BY DEF Layout
<1>6. \A l \in L : l # 3 => f[l] # "transaction"
  BY <1>1, <1>5
<1>7. \A l \in L : l # 19 => f[l] # "content-type"
  BY <1>1, <1>5
<1>8. \A l \in L : l # 22 + n => f[l] # "content-length"
  BY <1>1, <1>5
<1>9. /\ HeadersOf(f)[<<"transaction">>] = Value(f, 3)
      /\ HeadersOf(f)[<<"content-type">>] = Value(f, 19)
      /\ HeadersOf(f)[<<"content-length">>] = Value(f, 22 + n)
  <2>1. 3 \in L /\ 19 \in L /\ 22 + n \in L /\ 22 + n \in Nat
    BY <1>1
  <2> HIDE DEF L
  <2>2. \A x, y : <<x>> = <<y>> => x = y
    OBVIOUS
  <2>3. \A l \in L : l # 3 => Key(f, l) # <<"transaction">>
    BY <1>4, <1>6, <2>2
  <2>4. \A l \in L : l # 19 => Key(f, l) # <<"content-type">>
    BY <1>4, <1>7, <2>2
  <2>5. \A l \in L : l # 22 + n => Key(f, l) # <<"content-length">>
    BY <1>4, <1>8, <2>2
  <2>6. /\ Key(f, 3) = <<"transaction">> /\ Key(f, 19) = <<"content-type">>
        /\ Key(f, 22 + n) = <<"content-length">>
    BY <1>4, <1>5, <2>1
  <2>7. HeadersOf(f)[<<"transaction">>] = Value(f, 3)
    BY <1>3, <2>1, <2>3, <2>6, OnlyLine
  <2>8. HeadersOf(f)[<<"content-type">>] = Value(f, 19)
    BY <1>3, <2>1, <2>4, <2>6, OnlyLine
  <2>9. HeadersOf(f)[<<"content-length">>] = Value(f, 22 + n)
    BY <1>3, <2>1, <2>5, <2>6, OnlyLine
  <2> QED
    BY <2>7, <2>8, <2>9
<1>10. one \in Words /\ Len(one) = 1 /\ one[1] = "1" /\ trim(one) = one /\ Plain(one)
  <2>1. "1" \in Tokens /\ "1" # Blank /\ "1" # LF
    BY TokenFacts, PlainTokens
  <2>2. one \in Words /\ trim(one) = one
    BY <2>1, OneToken, TrimOne
  <2> QED
    BY <2>1, <2>2 DEF Plain
<1> HIDE DEF one
<1>11. Value(f, 3) = one
  <2> DEFINE l == 3
  <2>1. /\ l \in Nat /\ l >= 1 /\ f[l] \notin {Colon, Blank, LF} /\ f[l + 1] = Colon
        /\ l + 2 + Len(one) <= Len(f)
    BY <1>1, <1>2, <1>4, <1>10 DEF Layout
  <2>2. f[l + 2 + Len(one)] = LF
    BY <1>10 DEF Layout
  <2>3. At(f, l + 1, one)
    <3>1. f[4 + 1] = "1"
      BY DEF Layout
    <3>2. l + 1 = 4 /\ 1..Len(one) = {1}
      BY <1>10
    <3> QED
      BY <1>1, <1>2, <1>10, <3>1, <3>2 DEF At
  <2> HIDE DEF l
  <2>4. Value(f, l) = trim(one)
    BY <1>2, <1>10, <2>1, <2>2, <2>3, ValueIs
  <2> QED
    BY <1>10, <2>4 DEF l
<1>12. Value(f, 19) = trim(v)
  <2> DEFINE l == 19
  <2>1. /\ l \in Nat /\ l >= 1 /\ f[l] \notin {Colon, Blank, LF} /\ f[l + 1] = Colon
        /\ l + 2 + Len(v) <= Len(f)
    BY <1>1, <1>2, <1>4 DEF Layout
  <2>2. f[l + 2 + Len(v)] = LF
    <3>1. f[21 + n] = LF
      BY DEF Layout
    <3>2. l + 2 + Len(v) = 21 + n
      BY <1>1
    <3> QED
      BY <3>1, <3>2
  <2>3. At(f, l + 1, v)
    <3>1. l + 1 = 20 /\ At(f, 20, v)
      BY DEF Layout
    <3> QED
      BY <3>1
  <2> HIDE DEF l
  <2>4. Value(f, l) = trim(v)
    BY <1>2, <2>1, <2>2, <2>3, ValueIs
  <2> QED
    BY <2>4 DEF l
<1>13. Value(f, 22 + n) = trim(w)
  <2> DEFINE l == 22 + n
  <2>1. l \in Nat /\ l >= 1 /\ l + 2 + m = 24 + n + m /\ l + 1 = 23 + n
    BY <1>1
  <2>2. f[l + 1] = Colon /\ At(f, l + 1, w) /\ f[l + 2 + Len(w)] = LF
    BY <2>1 DEF Layout
  <2>3. f[l] \notin {Colon, Blank, LF} /\ l + 2 + Len(w) <= Len(f)
    BY <1>1, <1>2, <1>4
  <2> HIDE DEF l
  <2>4. Value(f, l) = trim(w)
    BY <1>2, <2>1, <2>2, <2>3, ValueIs
  <2> QED
    BY <2>4 DEF l
<1>14. SubSeq(f, HeadLength(f) + 3, Len(f)) = b
  <2> DEFINE k == 25 + n + m
  <2>1. k \in Nat /\ At(f, k, b) /\ HeadLength(f) + 3 = k + 1 /\ Len(f) = k + Len(b)
    BY <1>1, <1>2, <1>3 DEF Layout
  <2> HIDE DEF k
  <2> QED
    BY <1>2, <2>1, PartIs
<1> QED
  BY <1>9, <1>11, <1>12, <1>13, <1>14 DEF one

(* What a client reads of such a frame.                                    *)
LEMMA LayoutParsed ==
  ASSUME NEW f, NEW c \in Commands, NEW v \in Words, NEW w \in Words, NEW b \in Words,
         NEW t \in Tokens, Layout(f, c, v, w, Cat(b, <<t>>)), Plain(v), Plain(w)
  PROVE  ParsedBody(f) = b /\ ParsedValue(f, "content-type") = trim(v)
<1> DEFINE n == Len(v)
           m == Len(w)
           e == 24 + n + m
           d == <<t>>
           z == Cat(b, d)
           L == {3, 7, 11, 15, 19, 22 + n}
<1>1. n \in Nat /\ m \in Nat /\ Len(b) \in Nat
  BY WordLength
<1>2. d \in Words /\ Len(d) = 1
  BY OneToken
<1> HIDE DEF d
<1>3. z \in Words /\ Len(z) = Len(b) + 1 /\ At(z, 0, b)
  BY <1>2, AtJoined
<1>4. Layout(f, c, v, w, z)
  BY DEF d
<1> HIDE DEF z
<1>5. f \in Words /\ Len(f) = 25 + n + m + Len(b) + 1 /\ e \in Nat
  <2>1. f \in Words /\ Len(f) = 25 + n + m + Len(z)
    BY <1>4 DEF Layout
  <2> QED
    BY <1>1, <1>3, <2>1
<1>6. HeadLength(f) = e - 1 /\ HeadLines(f) = L
  BY <1>1, <1>3, <1>4, LayoutHead
<1>7. e \in 1..Len(f) /\ f[e] = LF /\ f[e + 1] = LF
  <2>1. f[24 + n + m] = LF /\ f[25 + n + m] = LF
    BY <1>4 DEF Layout
  <2>2. e + 1 = 25 + n + m /\ e \in 1..Len(f)
    BY <1>1, <1>5
  <2> QED
    BY <2>1, <2>2
<1>8. \A i \in 1..e - 1 : ~(f[i] = LF /\ f[i + 1] = LF)
  <2>1. \A k \in 0..Len(f) : Empty(f, k + 1) => e - 1 <= k
    BY <1>5, <1>6, HeadLengthIs
  <2> SUFFICES ASSUME NEW i \in 1..e - 1, f[i] = LF, f[i + 1] = LF PROVE FALSE
    OBVIOUS
  <2>2. i - 1 \in 0..Len(f) /\ i - 1 + 1 = i /\ i + 1 <= Len(f) /\ ~(e - 1 <= i - 1)
    BY <1>1, <1>5
  <2> QED
    BY <2>1, <2>2 DEF Empty
<1>9. EmptyLine(f) = e
  <2> HIDE DEF e
  <2>1. \A i \in 1..Len(f) : i < e => i \in 1..e - 1
    BY <1>5
  <2>2. \A i \in 1..Len(f) : i > e => e \in 1..i - 1
    BY <1>5, <1>7
  <2>3. \A i \in 1..Len(f) :
          /\ f[i] = LF /\ f[i + 1] = LF /\ \A j \in 1..i-1 : ~(f[j] = LF /\ f[j + 1] = LF)
          => i = e
    BY <1>5, <1>7, <1>8, <2>1, <2>2
  <2> QED
    BY <1>7, <1>8, <2>3 DEF EmptyLine
<1>10. ParsedBody(f) = b
  <2> DEFINE k == 25 + n + m
  <2>1. k \in Nat /\ At(f, k, z)
    BY <1>1, <1>4 DEF Layout
  <2>2. At(f, k, b)
    <3>1. At(f, k + 0, b)
      BY <1>3, <1>5, <2>1, AtInside
    <3>2. k + 0 = k
      BY <2>1
    <3> QED
      BY <3>1, <3>2
  <2>3. e + 2 = k + 1 /\ Len(f) - 1 = k + Len(b)
    BY <1>1, <1>5
  <2> HIDE DEF k, e
  <2> QED
    BY <1>5, <1>9, <2>1, <2>2, <2>3, PartIs DEF ParsedBody
<1>11. \A i \in 1..e : f[i] = "content-type" /\ f[i - 1] = LF <=> i = 19
  <2>1. f[1] = c /\ f[2] = LF /\ f[18] = LF /\ f[19] = "content-type"
    BY <1>4 DEF Layout
  <2>2. "content-type" \notin Commands /\ "content-type" # LF
    BY PlainTokens DEF Commands, HeaderNames
  <2>3. ASSUME NEW i \in 1..e, f[i] = "content-type", f[i - 1] = LF PROVE i = 19
    <3>1. i \in 3..e - 1
      <4>1. i # 1 /\ i # 2 /\ i # e
        BY <1>7, <2>1, <2>2, <2>3
      <4> QED
        BY <1>5, <4>1
    <3>2. i \in L
      BY <1>6, <2>3, <3>1 DEF HeadLines
    <3>3. /\ f[3] = "transaction" /\ f[7] = "session-id" /\ f[11] = "origin"
          /\ f[15] = "destination" /\ f[22 + n] = "content-length"
      BY <1>4 DEF Layout
    <3> QED
      BY <3>2, <3>3, <2>3
  <2>4. 19 \in 1..e /\ 19 - 1 = 18
    BY <1>1
  <2> QED
    BY <2>1, <2>3, <2>4
<1>12. (CHOOSE i \in 1..e : f[i] = "content-type" /\ f[i - 1] = LF) = 19
  <2>1. 19 \in 1..e
    BY <1>1
  <2> HIDE DEF e
  <2> QED
    BY <1>11, <2>1
<1>13. ParsedValue(f, "content-type") = trim(SubSeq(f, 21, FirstOf({LF}, f, 19) - 1))
  <2>1. 19 + 2 = 21
    OBVIOUS
  <2> HIDE DEF e
  <2> QED
    BY <1>9, <1>12, <2>1 DEF ParsedValue
<1>14. FirstOf({LF}, f, 19) = 21 + n
  <2> DEFINE l == 19
  <2>1. f[l] = "content-type" /\ f[l + 1] = Colon /\ At(f, l + 1, v)
    <3>1. l + 1 = 20
      OBVIOUS
    <3> QED
      BY <1>4, <3>1 DEF Layout
  <2>2. l \in Nat /\ l >= 1 /\ l + 2 + Len(v) = 21 + n /\ l + 2 + Len(v) <= Len(f)
    BY <1>1, <1>5
  <2>3. f[l] \notin {Colon, Blank, LF}
    BY <2>1, PlainTokens DEF HeaderNames
  <2>4. f[l + 2 + Len(v)] = LF
    BY <1>4, <2>2 DEF Layout
  <2> HIDE DEF l
  <2>5. FirstOf({LF}, f, l) = l + 2 + Len(v)
    BY <1>5, <2>1, <2>2, <2>3, <2>4, ValueIs
  <2> QED
    BY <2>2, <2>5 DEF l
<1>15. SubSeq(f, 21, 20 + n) = v
  <2> DEFINE k == 20
  <2>1. k \in Nat /\ At(f, k, v)
    BY <1>4 DEF Layout
  <2> HIDE DEF k
  <2>2. SubSeq(f, k + 1, k + Len(v)) = v
    BY <1>5, <2>1, PartIs
  <2>3. k + 1 = 21
    BY DEF k
  <2> QED
    BY <2>2, <2>3 DEF k
<1>16. FirstOf({LF}, f, 19) - 1 = 20 + n
  BY <1>1, <1>14
<1>17. ParsedValue(f, "content-type") = trim(v)
  BY <1>13, <1>15, <1>16, Zenon
<1> QED
  BY <1>10, <1>17

-----------------------------------------------------------------------------
(* The frame that a client library sends, as far as it arrives.            *)
LEMMA CutAtNul ==
  ASSUME NEW f \in Words
  PROVE  LET u == UpToNul(f)
             e == FirstOf({NUL}, f, 1)
         IN /\ e \in Nat /\ e >= 1 /\ e <= Len(f) + 1 /\ (e <= Len(f) => f[e] = NUL)
            /\ u \in Words /\ Len(u) = e - 1 /\ \A i \in 1..e - 1 : u[i] = f[i] /\ f[i] # NUL
<1> DEFINE e == FirstOf({NUL}, f, 1)
           z == e - 1
           u == SubSeq(f, 1, z)
<1>0. Len(f) \in Nat
  BY WordLength
<1>1. /\ e \in Nat /\ e >= 1 /\ e <= Len(f) + 1 /\ (e <= Len(f) => f[e] = NUL)
      /\ \A i \in Nat : i >= 1 /\ i < e => f[i] # NUL
  BY <1>0, FirstOfIs
<1> HIDE DEF e
<1>2. z \in Nat /\ z <= Len(f) /\ (1 <= z => z - 1 + 1 = z) /\ (~(1 <= z) => z = 0)
  BY <1>0, <1>1
<1>3. UpToNul(f) = u
  BY DEF UpToNul, e
<1>4. \A i \in 1..z : i \in Nat /\ i >= 1 /\ i < e
  BY <1>1
<1> HIDE DEF z
<1>5. /\ u \in Words /\ Len(u) = IF 1 <= z THEN z - 1 + 1 ELSE 0
      /\ \A i \in Nat : i >= 1 /\ i <= Len(u) => u[i] = f[1 + i - 1]
  BY <1>2, WordPart
<1> HIDE DEF u
<1>6. Len(u) = z
  BY <1>2, <1>5
<1>7. \A i \in 1..z : u[i] = f[i] /\ f[i] # NUL
  <2>1. \A i \in Nat : 1 + i - 1 = i
    OBVIOUS
  <2>2. \A i \in 1..z : i \in Nat /\ i >= 1 /\ i <= z
    BY <1>2
  <2> QED
    BY <1>1, <1>4, <1>5, <1>6, <2>1, <2>2
<1> QED
  BY <1>1, <1>3, <1>5, <1>6, <1>7 DEF z, e

NoNul(w) == \A i \in 1..Len(w) : w[i] # NUL

(* A NUL of the frame is in the value or in the body.                      *)
LEMMA LayoutNuls ==
  ASSUME NEW f, NEW c \in Commands, NEW v \in Words, NEW w \in Words, NEW b \in Words,
         Layout(f, c, v, w, b), NoNul(w)
  PROVE  /\ \A i \in 1..20 : f[i] # NUL
         /\ NoNul(v) => \A i \in 1..25 + Len(v) + Len(w) : f[i] # NUL
<1> DEFINE n == Len(v)
           m == Len(w)
<1>0. n \in Nat /\ m \in Nat
  BY WordLength
<1>1. /\ f[1] # NUL /\ f[3] # NUL /\ f[4] # NUL /\ f[5] # NUL /\ f[7] # NUL /\ f[8] # NUL
      /\ f[9] # NUL /\ f[11] # NUL /\ f[12] # NUL /\ f[13] # NUL /\ f[15] # NUL /\ f[16] # NUL
      /\ f[17] # NUL /\ f[19] # NUL /\ f[20] # NUL /\ f[22 + n] # NUL /\ f[23 + n] # NUL
  BY PlainTokens, TokenFacts DEF Layout, HeaderNames
<1>2. /\ f[2] # NUL /\ f[6] # NUL /\ f[10] # NUL /\ f[14] # NUL /\ f[18] # NUL
      /\ f[21 + n] # NUL /\ f[24 + n + m] # NUL /\ f[25 + n + m] # NUL
  BY TokenFacts DEF Layout
<1>3. ASSUME NEW i \in 1..20 PROVE f[i] # NUL
  <2>1. CASE i \in {2, 6, 10, 14, 18}
    BY <1>2, <2>1
  <2>2. CASE i \in {1, 3, 4, 5, 7, 8, 9, 11, 12, 13, 15, 16, 17, 19, 20}
    BY <1>1, <2>2
  <2> QED
    BY <2>1, <2>2
<1>4. ASSUME NoNul(v), NEW i \in 1..25 + n + m PROVE f[i] # NUL
  <2>1. CASE i <= 20
    <3>1. i \in 1..20
      BY <2>1
    <3> QED
      BY <1>3, <3>1
  <2>2. CASE i > 20 /\ i <= 20 + n
    <3>1. i - 20 \in 1..Len(v) /\ 20 + (i - 20) = i
      BY <1>0, <2>2
    <3>2. f[20 + (i - 20)] = v[i - 20] /\ v[i - 20] # NUL
      BY <1>4, <3>1 DEF Layout, At, NoNul
    <3> QED
      BY <3>1, <3>2
  <2>3. CASE i \in {21 + n, 22 + n, 23 + n, 24 + n + m, 25 + n + m}
    BY <1>0, <1>1, <1>2, <2>3
  <2>4. CASE i > 23 + n /\ i < 24 + n + m
    <3>1. i - (23 + n) \in 1..Len(w) /\ (23 + n) + (i - (23 + n)) = i
      BY <1>0, <2>4
    <3>2. At(f, 23 + n, w)
      BY DEF Layout
    <3>3. f[(23 + n) + (i - (23 + n))] = w[i - (23 + n)] /\ w[i - (23 + n)] # NUL
      BY <3>1, <3>2 DEF At, NoNul
    <3> QED
      BY <3>1, <3>3
  <2> QED
    BY <1>0, <2>1, <2>2, <2>3, <2>4
<1> QED
  BY <1>3, <1>4

LEMMA CutInside ==
  ASSUME NEW f \in Words, NEW k \in Nat, NEW b \in Words, At(f, k, b), Len(f) = k + Len(b),
         \A i \in 1..k : f[i] # NUL
  PROVE  /\ Len(UpToNul(f)) = k + Len(UpToNul(b)) /\ At(UpToNul(f), k, UpToNul(b))
         /\ \A i \in 1..k : UpToNul(f)[i] = f[i]
<1> DEFINE d == FirstOf({NUL}, b, 1)
           u == UpToNul(f)
           x == UpToNul(b)
           e == k + d
<1>0. Len(f) \in Nat /\ Len(b) \in Nat
  BY WordLength
<1>1. /\ d \in Nat /\ d >= 1 /\ d <= Len(b) + 1 /\ (d <= Len(b) => b[d] = NUL)
      /\ x \in Words /\ Len(x) = d - 1 /\ \A i \in 1..d - 1 : x[i] = b[i] /\ b[i] # NUL
  BY CutAtNul
<1> HIDE DEF d
<1>2. e \in Nat /\ e >= 1 /\ e <= Len(f) + 1
  BY <1>0, <1>1
<1>3. e <= Len(f) => f[e] \in {NUL}
  <2> SUFFICES ASSUME e <= Len(f) PROVE f[e] = NUL
    OBVIOUS
  <2>1. d \in 1..Len(b) /\ d <= Len(b)
    BY <1>0, <1>1
  <2> QED
    BY <1>1, <2>1 DEF At
<1>4. ASSUME NEW i \in Nat, i >= 1, i < e PROVE f[i] \notin {NUL}
  <2>1. CASE i <= k
    <3>1. i \in 1..k
      BY <1>4, <2>1
    <3> QED
      BY <3>1
  <2>2. CASE i > k
    <3>1. i - k \in 1..Len(b) /\ i - k \in 1..d - 1 /\ k + (i - k) = i
      BY <1>0, <1>1, <1>4, <2>2
    <3>2. f[k + (i - k)] = b[i - k] /\ b[i - k] # NUL
      BY <1>1, <3>1 DEF At
    <3> QED
      BY <3>1, <3>2
  <2> QED
    BY <2>1, <2>2
<1>5. FirstOf({NUL}, f, 1) = e
  <2> HIDE DEF e
  <2>1. \A i \in Nat : i >= 1 /\ i < e => f[i] \notin {NUL}
    BY <1>4
  <2>2. 1 \in Nat /\ 1 >= 1
    OBVIOUS
  <2> QED
    BY <1>2, <1>3, <2>1, <2>2, FirstOfUnique
<1>6. u \in Words /\ Len(u) = e - 1 /\ \A i \in 1..e - 1 : u[i] = f[i]
  <2> HIDE DEF e
  <2> QED
    BY <1>5, CutAtNul
<1> HIDE DEF u, x
<1>7. Len(u) = k + Len(x)
  BY <1>1, <1>6
<1>8. \A i \in 1..k : u[i] = f[i]
  <2>1. \A i \in 1..k : i \in 1..e - 1
    BY <1>1
  <2> QED
    BY <1>6, <2>1
<1>9. ASSUME NEW i \in 1..Len(x) PROVE u[k + i] = x[i]
  <2>1. i \in 1..d - 1 /\ i \in 1..Len(b) /\ k + i \in 1..e - 1
    BY <1>0, <1>1
  <2>2. u[k + i] = f[k + i] /\ f[k + i] = b[i] /\ x[i] = b[i]
    BY <1>1, <1>6, <2>1 DEF At
  <2> QED
    BY <2>2
<1>10. At(u, k, x)
  BY <1>1, <1>7, <1>9 DEF At
<1> QED
  BY <1>7, <1>8, <1>10 DEF u, x

LEMMA CutLayout ==
  ASSUME NEW f, NEW c \in Commands, NEW v \in Words, NEW w \in Words, NEW b \in Words,
         Layout(f, c, v, w, b), NoNul(v), NoNul(w)
  PROVE  Layout(UpToNul(f), c, v, w, UpToNul(b))
<1> DEFINE n == Len(v)
           m == Len(w)
           k == 25 + n + m
           u == UpToNul(f)
           x == UpToNul(b)
<1>1. n \in Nat /\ m \in Nat /\ k \in Nat /\ Len(b) \in Nat
  BY WordLength
<1>2. f \in Words /\ Len(f) = k + Len(b) /\ At(f, k, b)
  BY DEF Layout
<1>3. \A i \in 1..k : f[i] # NUL
  BY LayoutNuls
<1>4. Len(u) = k + Len(x) /\ At(u, k, x) /\ \A i \in 1..k : u[i] = f[i]
  <2> HIDE DEF k
  <2> QED
    BY <1>1, <1>2, <1>3, CutInside
<1>5. u \in Words /\ x \in Words
  BY <1>2, CutAtNul
<1> HIDE DEF u, x
<1>6. Len(x) \in Nat
  BY <1>5, WordLength
<1>7. \A i \in 1..20 : u[i] = f[i]
  <2>1. \A i \in 1..20 : i \in 1..k
    BY <1>1
  <2> QED
    BY <1>4, <2>1
<1>8. /\ u[21 + n] = f[21 + n] /\ u[22 + n] = f[22 + n] /\ u[23 + n] = f[23 + n]
      /\ u[24 + n + m] = f[24 + n + m] /\ u[25 + n + m] = f[25 + n + m]
  <2>1. /\ 21 + n \in 1..k /\ 22 + n \in 1..k /\ 23 + n \in 1..k
        /\ 24 + n + m \in 1..k /\ 25 + n + m \in 1..k
    BY <1>1
  <2> HIDE DEF k
  <2> QED
    BY <1>4, <2>1
<1>9. At(u, 20, v)
  <2>1. \A i \in 1..n : 20 + i \in 1..k
    BY <1>1
  <2>2. At(f, 20, v)
    BY DEF Layout
  <2>3. 20 + n <= Len(u)
    BY <1>1, <1>4, <1>6
  <2> HIDE DEF k
  <2> QED
    BY <1>4, <2>1, <2>2, <2>3 DEF At
<1>10. At(u, 23 + n, w)
  <2> DEFINE j == 23 + n
  <2>1. \A i \in 1..m : j + i \in 1..k
    BY <1>1
  <2>2. At(f, j, w)
    BY DEF Layout
  <2>3. j + m <= Len(u)
    BY <1>1, <1>4, <1>6
  <2> HIDE DEF k, j
  <2>4. At(u, j, w)
    BY <1>4, <2>1, <2>2, <2>3 DEF At
  <2> QED
    BY <2>4 DEF j
<1>11. /\ u[1] = c /\ u[2] = LF
       /\ u[3] = "transaction" /\ u[4] = Colon /\ u[5] = "1" /\ u[6] = LF
       /\ u[7] = "session-id" /\ u[8] = Colon /\ u[9] = "x" /\ u[10] = LF
       /\ u[11] = "origin" /\ u[12] = Colon /\ u[13] = "x" /\ u[14] = LF
       /\ u[15] = "destination" /\ u[16] = Colon /\ u[17] = "x" /\ u[18] = LF
       /\ u[19] = "content-type" /\ u[20] = Colon
  <2>1. /\ u[1] = f[1] /\ u[2] = f[2] /\ u[3] = f[3] /\ u[4] = f[4] /\ u[5] = f[5]
        /\ u[6] = f[6] /\ u[7] = f[7] /\ u[8] = f[8] /\ u[9] = f[9] /\ u[10] = f[10]
        /\ u[11] = f[11] /\ u[12] = f[12] /\ u[13] = f[13] /\ u[14] = f[14] /\ u[15] = f[15]
        /\ u[16] = f[16] /\ u[17] = f[17] /\ u[18] = f[18] /\ u[19] = f[19] /\ u[20] = f[20]
    BY <1>7
  <2> QED
    BY <2>1 DEF Layout
<1>12. /\ u[21 + n] = LF /\ u[22 + n] = "content-length" /\ u[23 + n] = Colon
       /\ u[24 + n + m] = LF /\ u[25 + n + m] = LF
  BY <1>8 DEF Layout
<1>13. Layout(u, c, v, w, x)
  BY <1>4, <1>5, <1>9, <1>10, <1>11, <1>12 DEF Layout
<1> QED
  BY <1>13 DEF u, x

(* A frame that is cut off within the content type lacks a header.         *)
LEMMA CutEarly ==
  ASSUME NEW f, NEW v \in Words, NEW w \in Words, NEW b \in Words,
         Layout(f, "SEND", v, w, b), Plain(v), Plain(w), NoNul(w), ~NoNul(v)
  PROVE  ~Complete(UpToNul(f))
<1> DEFINE n == Len(v)
           m == Len(w)
           u == UpToNul(f)
           e == FirstOf({NUL}, f, 1)
<1>0. "SEND" \in Commands
  BY DEF Commands
<1>1. n \in Nat /\ m \in Nat /\ Len(b) \in Nat
  BY WordLength
<1>2. f \in Words /\ Len(f) = 25 + n + m + Len(b)
  BY DEF Layout
<1>3. /\ e \in Nat /\ e >= 1 /\ e <= Len(f) + 1 /\ (e <= Len(f) => f[e] = NUL)
      /\ u \in Words /\ Len(u) = e - 1 /\ \A i \in 1..e - 1 : u[i] = f[i] /\ f[i] # NUL
  BY <1>2, CutAtNul
<1> HIDE DEF u, e
<1>4. e > 20
  <2>1. \A i \in 1..20 : f[i] # NUL
    BY <1>0, LayoutNuls
  <2> SUFFICES ASSUME e <= 20 PROVE FALSE
    BY <1>3
  <2>2. e \in 1..20 /\ e <= Len(f)
    BY <1>1, <1>2, <1>3
  <2> QED
    BY <1>3, <2>1, <2>2
<1>5. e <= 20 + n
  <2>1. PICK j \in 1..n : v[j] = NUL
    BY DEF NoNul
  <2>2. f[20 + j] = NUL
    BY <2>1 DEF Layout, At
  <2>3. ~(20 + j \in 1..e - 1)
    BY <1>3, <2>2
  <2> QED
    BY <1>1, <1>3, <2>3
<1>6. ASSUME NEW l \in HeadLines(u) PROVE Key(u, l) # <<"content-length">>
  <2>1. HeadLength(u) \in 0..Len(u)
    BY <1>3, HeadLengthIs
  <2>2. l \in 3..e - 1 /\ u[l - 1] = LF
    BY <1>3, <2>1 DEF HeadLines
  <2>3. l - 1 \in 1..e - 1 /\ l - 1 \in 1..24 + n + m
    BY <1>1, <1>3, <1>5, <2>2
  <2>4. f[l - 1] = LF
    BY <1>3, <2>2, <2>3
  <2>5. \A i \in 1..24 + n + m : f[i] = LF <=> i \in {2, 6, 10, 14, 18, 21 + n, 24 + n + m}
    BY <1>0, LayoutEnds
  <2>6. l - 1 \in {2, 6, 10, 14, 18, 21 + n, 24 + n + m}
    BY <2>3, <2>4, <2>5
  <2>7. l \in {3, 7, 11, 15, 19}
    BY <1>1, <1>3, <1>5, <2>2, <2>6
  <2>8. l \in 1..e - 1 /\ l + 1 \in 1..e - 1
    BY <1>3, <1>4, <2>7
  <2>9. u[l] = f[l] /\ u[l + 1] = f[l + 1]
    BY <1>3, <2>8
  <2>10. f[l + 1] = Colon
    <3>1. f[4] = Colon /\ f[8] = Colon /\ f[12] = Colon /\ f[16] = Colon /\ f[20] = Colon
      BY DEF Layout
    <3>2. l + 1 \in {4, 8, 12, 16, 20}
      BY <2>7
    <3> QED
      BY <3>1, <3>2
  <2>11. f[l] \in {"transaction", "session-id", "origin", "destination", "content-type"}
    BY <2>7 DEF Layout
  <2>12. u[l] \notin {Colon, Blank}
    BY <2>9, <2>11, PlainTokens DEF HeaderNames
  <2>13. Key(u, l) = <<f[l]>>
    <3>1. l \in Nat /\ l >= 1 /\ l + 1 <= Len(u)
      BY <1>3, <2>8
    <3> QED
      BY <1>3, <2>9, <2>10, <2>12, <3>1, KeyIs
  <2> QED
    BY <2>11, <2>13
<1>7. u[1] = "SEND"
  <2>1. 1 \in 1..e - 1 /\ f[1] = "SEND"
    BY <1>3, <1>4 DEF Layout
  <2> QED
    BY <1>3, <2>1
<1>8. Required["SEND"] = send_headers /\ 4 \in DOMAIN send_headers
      /\ send_headers[4] = "content-length"
  BY DEF Required, send_headers
<1> QED
  <2>1. ASSUME Complete(u) PROVE FALSE
    <3>1. \E l \in HeadLines(u) : Key(u, l) = <<"content-length">>
      BY <1>7, <1>8, <2>1 DEF Complete
    <3> QED
      BY <1>6, <3>1
  <2> QED
    BY <2>1 DEF u

LEMMA CatAgain ==
  ASSUME NEW x \in Words, NEW y \in Words, NEW z \in Words
  PROVE  Cat(Cat(x, y), z) = Cat(x, Cat(y, z))
<1> DEFINE xy == Cat(x, y)
           yz == Cat(y, z)
           l == Cat(xy, z)
           r == Cat(x, yz)
<1>0. Len(x) \in Nat /\ Len(y) \in Nat /\ Len(z) \in Nat
  BY WordLength
<1>1. /\ xy \in Words /\ Len(xy) = Len(x) + Len(y) /\ At(xy, 0, x) /\ At(xy, Len(x), y)
      /\ yz \in Words /\ Len(yz) = Len(y) + Len(z) /\ At(yz, 0, y) /\ At(yz, Len(y), z)
  BY AtJoined
<1> HIDE DEF xy, yz
<1>2. /\ l \in Words /\ Len(l) = Len(xy) + Len(z) /\ At(l, 0, xy) /\ At(l, Len(xy), z)
      /\ r \in Words /\ Len(r) = Len(x) + Len(yz) /\ At(r, 0, x) /\ At(r, Len(x), yz)
  BY <1>1, AtJoined
<1> HIDE DEF l, r
<1>3. At(l, 0 + 0, x) /\ At(l, 0 + Len(x), y)
  BY <1>0, <1>1, <1>2, AtInside
<1>4. At(r, Len(x) + 0, y) /\ At(r, Len(x) + Len(y), z)
  BY <1>0, <1>1, <1>2, AtInside
<1>5. Len(l) = Len(r) /\ Len(l) = Len(x) + Len(y) + Len(z)
  BY <1>0, <1>1, <1>2
<1>6. ASSUME NEW i \in 1..Len(l) PROVE l[i] = r[i]
  <2>1. CASE i <= Len(x)
    <3>1. i \in 1..Len(x) /\ 0 + i = i /\ (0 + 0) + i = i
      BY <1>0, <2>1
    <3> QED
      BY <1>2, <1>3, <3>1 DEF At
  <2>2. CASE i > Len(x) /\ i <= Len(x) + Len(y)
    <3> DEFINE j == i - Len(x)
    <3>1. j \in 1..Len(y) /\ (0 + Len(x)) + j = i /\ (Len(x) + 0) + j = i
      BY <1>0, <2>2
    <3> HIDE DEF j
    <3> QED
      BY <1>3, <1>4, <3>1 DEF At
  <2>3. CASE i > Len(x) + Len(y)
    <3> DEFINE j == i - (Len(x) + Len(y))
    <3>1. j \in 1..Len(z) /\ Len(xy) + j = i /\ (Len(x) + Len(y)) + j = i
      BY <1>0, <1>1, <1>5, <2>3
    <3> HIDE DEF j
    <3> QED
      BY <1>2, <1>4, <3>1 DEF At
  <2> QED
    BY <1>0, <2>1, <2>2, <2>3
<1>7. l = r
  BY <1>2, <1>5, <1>6, SameWord
<1> QED
  BY <1>7 DEF l, r, xy, yz

LEMMA FramedWord ==
  ASSUME NEW c \in Commands, NEW v \in Words, NEW w \in Words
  PROVE  Framed(c, v, w) \in Words
<1> DEFINE h == HeaderLines(SendHeaders(v, w))
           a == <<c, LF>>
           e == <<LF>>
<1>1. a \in Words /\ e \in Words /\ h \in Words
  BY TokenFacts, TwoTokens, OneToken, HeadersAt
<1>2. Framed(c, v, w) = Cat(Cat(a, h), e)
  BY DEF Framed
<1> HIDE DEF a, e, h
<1>3. Cat(a, h) \in Words
  BY <1>1, CatWords
<1> QED
  BY <1>1, <1>2, <1>3, CatWords

(* The length that the client libraries send stands after a blank.         *)
Length == <<Blank, "1">>

LEMMA LengthIs == Length \in Words /\ trim(Length) = <<"1">> /\ Plain(Length) /\ NoNul(Length)
<1>1. "1" \in Tokens /\ "1" # Blank /\ "1" # LF /\ "1" # NUL
  BY TokenFacts, PlainTokens
<1>2. Length \in Words /\ trim(Length) = <<"1">>
  BY <1>1, TokenFacts, TwoTokens, TrimOne DEF Length
<1>3. Len(Length) = 2 /\ Length[1] = Blank /\ Length[2] = "1"
  BY DEF Length
<1>4. \A i \in 1..2 : i = 1 \/ i = 2
  OBVIOUS
<1> QED
  BY <1>1, <1>2, <1>3, <1>4, TokenFacts DEF Plain, NoNul

(* A frame of a client library that is handled is whole: it has the        *)
(* content type and the body that the library was given.                   *)
LEMMA ReceivedWhole ==
  ASSUME NEW by \in {"js", "python"}, NEW v \in Words, NEW b \in Words, Plain(v),
         Complete(Received(by, v, b))
  PROVE  Layout(Received(by, v, b), "SEND", v, Length, IF by = "js" THEN UpToNul(b) ELSE b)
<1> DEFINE p == Framed("SEND", v, Length)
           f == Cat(p, b)
           e == <<NUL>>
           be == Cat(b, e)
<1>0. "SEND" \in Commands
  BY DEF Commands
<1>1. Length \in Words /\ Plain(Length) /\ NoNul(Length) /\ e \in Words /\ Len(e) = 1 /\ e[1] = NUL
  BY LengthIs, OneToken, TokenFacts
<1>2. p \in Words
  BY <1>0, <1>1, FramedWord
<1>3. ClientHeaders(v) = SendHeaders(v, Length)
  BY DEF ClientHeaders, SendHeaders, Length
<1>4. build_message(v, b) = f
  BY <1>3 DEF build_message, Framed, Cat
<1>5. buildSTOMPMessage(v, b) = Cat(f, e)
  BY <1>3 DEF buildSTOMPMessage, Framed, Cat
<1>6. Layout(f, "SEND", v, Length, b)
  BY <1>0, <1>1, FrameLayout
<1> HIDE DEF p, e
<1>7. be \in Words /\ Cat(f, e) = Cat(p, be)
  BY <1>1, <1>2, CatWords, CatAgain
<1>8. Layout(Cat(f, e), "SEND", v, Length, be)
  <2> HIDE DEF be
  <2>1. Layout(Cat(p, be), "SEND", v, Length, be)
    BY <1>0, <1>1, <1>7, FrameLayout DEF p
  <2> QED
    BY <1>7, <2>1
<1>9. CASE by = "python"
  BY <1>4, <1>6, <1>9 DEF Received
<1>10. CASE by = "js"
  <2> DEFINE g == Cat(f, e)
  <2>1. Received(by, v, b) = UpToNul(g)
    BY <1>5, <1>10 DEF Received
  <2> HIDE DEF g, be
  <2>2. Layout(g, "SEND", v, Length, be)
    BY <1>8 DEF g
  <2>3. NoNul(v)
    BY <1>0, <1>1, <1>7, <2>1, <2>2, CutEarly
  <2>4. Layout(UpToNul(g), "SEND", v, Length, UpToNul(be))
    BY <1>0, <1>1, <1>7, <2>2, <2>3, CutLayout
  <2>5. UpToNul(be) = UpToNul(b)
    <3> DEFINE d == FirstOf({NUL}, b, 1)
    <3>0. Len(b) \in Nat
      BY WordLength
    <3>1. /\ be \in Words /\ Len(be) = Len(b) + 1
          /\ be[Len(b) + 1] = NUL /\ \A i \in 1..Len(b) : be[i] = b[i]
      <4>1. /\ be \in Words /\ Len(be) = Len(b) + Len(e) /\ At(be, 0, b) /\ At(be, Len(b), e)
        BY <1>1, AtJoined DEF be
      <4>2. \A i \in 1..Len(b) : 0 + i = i
        OBVIOUS
      <4>3. \A i \in 1..Len(b) : be[i] = b[i]
        BY <4>1, <4>2 DEF At
      <4>4. be[Len(b) + 1] = e[1]
        BY <1>1, <4>1 DEF At
      <4> QED
        BY <1>1, <4>1, <4>3, <4>4
    <3>2. /\ d \in Nat /\ d >= 1 /\ d <= Len(b) + 1 /\ (d <= Len(b) => b[d] = NUL)
          /\ UpToNul(b) \in Words /\ Len(UpToNul(b)) = d - 1
          /\ \A i \in 1..d - 1 : UpToNul(b)[i] = b[i] /\ b[i] # NUL
      BY CutAtNul
    <3> HIDE DEF d
    <3>3. be[d] \in {NUL}
      <4>1. CASE d <= Len(b)
        <5>1. d \in 1..Len(b)
          BY <3>0, <3>2, <4>1
        <5> QED
          BY <3>1, <3>2, <4>1, <5>1
      <4>2. CASE d = Len(b) + 1
        BY <3>1, <4>2
      <4> QED
        BY <3>0, <3>2, <4>1, <4>2
    <3>4. \A i \in Nat : i >= 1 /\ i < d => be[i] \notin {NUL}
      <4> SUFFICES ASSUME NEW i \in Nat, i >= 1, i < d PROVE be[i] \notin {NUL}
        OBVIOUS
      <4>1. i \in 1..d - 1 /\ i \in 1..Len(b)
        BY <3>0, <3>2
      <4> QED
        BY <3>1, <3>2, <4>1
    <3>5. FirstOf({NUL}, be, 1) = d
      <4>1. 1 \in Nat /\ 1 >= 1 /\ d <= Len(be) + 1
        BY <3>0, <3>1, <3>2
      <4> QED
        BY <3>1, <3>2, <3>3, <3>4, <4>1, FirstOfUnique
    <3>6. /\ UpToNul(be) \in Words /\ Len(UpToNul(be)) = d - 1
          /\ \A i \in 1..d - 1 : UpToNul(be)[i] = be[i]
      BY <3>1, <3>5, CutAtNul
    <3>7. \A i \in 1..d - 1 : i \in 1..Len(b)
      BY <3>0, <3>2
    <3>8. \A i \in 1..d - 1 : UpToNul(be)[i] = UpToNul(b)[i]
      BY <3>1, <3>2, <3>6, <3>7
    <3> DEFINE x == UpToNul(be)
               y == UpToNul(b)
    <3>9. x \in Words /\ y \in Words /\ Len(x) = Len(y) /\ \A i \in 1..Len(x) : x[i] = y[i]
      BY <3>2, <3>6, <3>8
    <3> HIDE DEF x, y
    <3>10. x = y
      BY <3>9, SameWord
    <3> QED
      BY <3>10 DEF x, y
  <2> QED
    BY <1>10, <2>1, <2>4, <2>5
<1> QED
  BY <1>9, <1>10

-----------------------------------------------------------------------------
(* What was sent, and what is sent on for it.                              *)
SentOK ==
  /\ client # "hand" => \E v \in Values, b \in Bodies :
                          intent = <<v, b>> /\ data = Received(client, v, b)
  /\ stage = "handled" /\ data[1] = "SEND" => answer = send_send_msg

LEMMA SentStarts == ParserInit => SentOK
BY DEF ParserInit, SentOK

LEMMA SentStep == ParserInv /\ SentOK /\ [ParserNext]_vars => SentOK'
<1> SUFFICES ASSUME ParserInv, SentOK, [ParserNext]_vars PROVE SentOK'
  OBVIOUS
<1>1. UNCHANGED <<client, intent, data>>
  BY DEF ParserNext, EmptyFrame, parse_command, ReadHeader, ReadPayload, EndOfData,
         RefuseMessage, MissingHeader, Handle, Ignore, vars
<1>2. client' # "hand" => \E v \in Values, b \in Bodies :
                            intent' = <<v, b>> /\ data' = Received(client', v, b)
  BY <1>1 DEF SentOK
<1>3. ASSUME Handle PROVE data[1] = "SEND" => answer' = send_send_msg'
  <2>1. PICK c \in DOMAIN Required :
          /\ Dispatches(c) /\ answer' = IF c = "SEND" THEN send_send_msg ELSE answer
          /\ headers' = headers /\ payload' = payload
    BY <1>3 DEF Handle
  <2>2. data[1] = c
    BY <2>1, DispatchedIs
  <2>3. send_send_msg' = send_send_msg
    BY <2>1 DEF send_send_msg
  <2> QED
    BY <2>1, <2>2, <2>3
<1>4. ASSUME UNCHANGED vars PROVE send_send_msg' = send_send_msg
  BY <1>4 DEF send_send_msg, vars
<1>5. stage' = "handled" => Handle \/ UNCHANGED vars
  BY DEF ParserNext, EmptyFrame, parse_command, ReadHeader, ReadPayload, EndOfData,
         RefuseMessage, MissingHeader, Ignore
<1>6. ASSUME UNCHANGED vars PROVE stage' = stage /\ answer' = answer
  BY <1>6 DEF vars
<1>7. stage' = "handled" /\ data'[1] = "SEND" => answer' = send_send_msg'
  BY <1>1, <1>3, <1>4, <1>5, <1>6 DEF SentOK
<1> QED
  BY <1>2, <1>7 DEF SentOK

LEMMA SentHolds == ParserSpec => []SentOK
BY SentStarts, SentStep, ParserInvHolds, ParserSteps, PTL

LEMMA AnswerRead ==
  ASSUME NEW v \in Words, NEW w \in Words, NEW b \in Words, Plain(v), Plain(w),
         NEW g, g = gen_stomp_message("MESSAGE", SendHeaders(v, w), b)
  PROVE  ParsedBody(g) = b /\ ParsedValue(g, "content-type") = trim(v)
<1> DEFINE p == Framed("MESSAGE", v, w)
           e == <<"0">>
           be == Cat(b, e)
<1>0. "MESSAGE" \in Commands /\ "0" \in Tokens
  BY PlainTokens DEF Commands
<1>1. g = Cat(Cat(p, b), e)
  BY DEF gen_stomp_message, Framed, Cat
<1>2. p \in Words /\ e \in Words
  BY <1>0, FramedWord, OneToken
<1>3. Layout(Cat(p, be), "MESSAGE", v, w, be)
  <2>1. be \in Words
    BY <1>2, CatWords
  <2> HIDE DEF be
  <2> QED
    BY <1>0, <2>1, FrameLayout
<1> HIDE DEF p
<1>4. Cat(Cat(p, b), e) = Cat(p, be)
  <2> HIDE DEF e
  <2> QED
    BY <1>2, CatAgain
<1> QED
  BY <1>0, <1>1, <1>3, <1>4, LayoutParsed

LEMMA BodiesInv == ParserInv /\ SentOK => BodiesArrive
<1> SUFFICES ASSUME ParserInv, SentOK, stage = "handled", client # "hand", OneLine(intent[1])
             PROVE  /\ ParsedBody(answer) = IF client = "js" THEN UpToNul(intent[2]) ELSE intent[2]
                    /\ ParsedValue(answer, "content-type") = trim(intent[1])
  BY DEF BodiesArrive
<1>1. client \in {"js", "python"}
  BY DEF ParserInv, ParserTypeOK
<1>2. PICK v \in Values, b \in Bodies : intent = <<v, b>> /\ data = Received(client, v, b)
  BY DEF SentOK
<1>3. v \in Words /\ b \in Words /\ intent[1] = v /\ intent[2] = b
  BY <1>2, RawWords
<1>4. Plain(v)
  <2>1. LF \notin Range(v)
    BY <1>3 DEF OneLine
  <2>2. \A i \in 1..Len(v) : i \in DOMAIN v
    BY <1>3 DEF Words
  <2> QED
    BY <2>1, <2>2 DEF Range, Plain
<1>5. Complete(data)
  BY DEF ParserInv, OutcomeIsDue, Complete
<1> DEFINE x == IF client = "js" THEN UpToNul(b) ELSE b
           u == trim(v)
           one == <<"1">>
<1>6. x \in Words
  BY <1>3, CutAtNul
<1> HIDE DEF x
<1>7. Layout(data, "SEND", v, Length, x)
  BY <1>1, <1>2, <1>3, <1>4, <1>5, ReceivedWhole DEF x
<1>8. "SEND" \in Commands /\ Length \in Words /\ trim(Length) = one /\ Plain(Length)
  BY LengthIs DEF Commands
<1>9. /\ HeadersOf(data)[<<"transaction">>] = one /\ HeadersOf(data)[<<"content-type">>] = u
      /\ HeadersOf(data)[<<"content-length">>] = one
      /\ SubSeq(data, HeadLength(data) + 3, Len(data)) = x
  BY <1>3, <1>4, <1>6, <1>7, <1>8, LayoutHeaders
<1>10. ec = "OK" /\ headers = HeadersOf(data)
       /\ payload = SubSeq(data, HeadLength(data) + 3, Len(data))
  BY <1>5 DEF ParserInv, VerdictOK, Verdict, Complete
<1>11. answer = gen_stomp_message("MESSAGE", SendHeaders(u, one), x)
  <2>1. answer = send_send_msg
    BY <1>7 DEF SentOK, Layout
  <2> HIDE DEF u, one
  <2>2. /\ headers[<<"transaction">>] = one /\ headers[<<"content-type">>] = u
        /\ headers[<<"content-length">>] = one /\ payload = x
    BY <1>9, <1>10
  <2>3. send_send_msg = gen_stomp_message("MESSAGE",
          << <<"transaction", one>>, <<"session-id", <<"x">>>>, <<"origin", <<"x">>>>,
             <<"destination", <<"x">>>>, <<"content-type", u>>, <<"content-length", one>> >>, x)
    BY <2>2 DEF send_send_msg
  <2>4. SendHeaders(u, one) =
          << <<"transaction", <<"1">>>>, <<"session-id", <<"x">>>>, <<"origin", <<"x">>>>,
             <<"destination", <<"x">>>>, <<"content-type", u>>, <<"content-length", one>> >>
    BY DEF SendHeaders
  <2>5. one = <<"1">>
    BY DEF one
  <2> QED
    BY <2>1, <2>3, <2>4, <2>5
<1>12. u \in Words /\ Plain(u) /\ trim(u) = u
  <2>1. /\ u \in Words /\ \A i \in 1..Len(u) : \E j \in 1..Len(v) : u[i] = v[j]
    BY <1>3, TrimIs
  <2>2. Plain(u)
    BY <1>4, <2>1 DEF Plain
  <2>3. trim(u) = u
    BY <1>3, TrimTwice
  <2> QED
    BY <2>1, <2>2, <2>3
<1>13. one \in Words /\ Plain(one)
  <2>1. "1" \in Tokens /\ "1" # LF
    BY TokenFacts, PlainTokens
  <2>2. Len(one) = 1 /\ one[1] = "1"
    OBVIOUS
  <2>3. \A i \in 1..1 : i = 1
    OBVIOUS
  <2> QED
    BY <2>1, <2>2, <2>3, OneToken DEF Plain
<1> HIDE DEF u, one
<1>14. ParsedBody(answer) = x /\ ParsedValue(answer, "content-type") = trim(u)
  BY <1>6, <1>11, <1>12, <1>13, AnswerRead
<1> QED
  BY <1>3, <1>12, <1>14 DEF x, u

-----------------------------------------------------------------------------
(* Whatever tokens a frame is made of, the parser, the message and the     *)
(* verdict keep to their types, and the position to the frame: only a      *)
(* command without an end of line takes it one further (parse_command).    *)
THEOREM ParserTypeCorrect == ParserSpec => []ParserTypeOK
<1>1. ParserInv => ParserTypeOK
  BY DEF ParserInv
<1> QED
  BY <1>1, ParserInvHolds, PTL

(* parse understands exactly the frames that the grammar of lines allows,  *)
(* and reads in them the command, the headers and the payload that are     *)
(* there, for every frame: of whatever length, with whatever separators in *)
(* a header or in the body.                                                *)
THEOREM FramesAreUnderstoodCorrect == ParserSpec => []FramesAreUnderstood
<1>1. ParserInv => FramesAreUnderstood
  BY DEF ParserInv, VerdictOK, Verdict, FramesAreUnderstood
<1> QED
  BY <1>1, ParserInvHolds, PTL

(* on_data_rx throws on the empty frame only, and proccess_message hands   *)
(* to its handler exactly the frame that is understood, that has a         *)
(* handler, and that has every header fetch_header asks for.               *)
THEOREM OutcomeIsDueCorrect == ParserSpec => []OutcomeIsDue
<1>1. ParserInv => OutcomeIsDue
  BY DEF ParserInv
<1> QED
  BY <1>1, ParserInvHolds, PTL

(* What a client library sends in a SEND another reads in the MESSAGE that *)
(* the server makes of it: the body, whatever it holds, and the content    *)
(* type without the blanks around it, if it is of one line; for all bodies *)
(* and values, of any length (build_message and buildSTOMPMessage, parse,  *)
(* send_send_msg with gen_stomp_message, parse_message, _parseMessage).    *)
THEOREM BodiesArriveCorrect == ParserSpec => []BodiesArrive
BY BodiesInv, ParserInvHolds, SentHolds, PTL

-----------------------------------------------------------------------------
(* What is left of the frame.                                              *)
LEMMA RankIs ==
  /\ Rank("command") = 3 /\ Rank("headers") = 2 /\ Rank("parsed") = 1
  /\ \A st \in Settled : Rank(st) = 0
BY DEF Rank, Settled

(* A step that moves the position on, or keeps it and goes to a later      *)
(* stage, leaves less.                                                     *)
LEMMA Advances ==
  ASSUME NEW n \in Nat, NEW p \in 1..n + 2, NEW q \in 1..n + 2, p <= q,
         NEW st \in {"command", "headers", "parsed"},
         NEW next \in Settled \cup {"headers", "parsed"},
         Rank(next) < Rank(st) \/ (p < q /\ Rank(next) <= Rank(st))
  PROVE  /\ (n + 2 - q) + Rank(next) \in Nat
         /\ (n + 2 - q) + Rank(next) < (n + 2 - p) + Rank(st)
<1>1. Rank(st) \in Nat /\ Rank(next) \in Nat
  BY RankIs DEF Settled
<1> QED
  BY <1>1

(* The step as the ranking sees it.                                        *)
Moves ==
  /\ data' = data /\ pos <= pos' /\ stage \in {"command", "headers", "parsed"}
  /\ stage' \in Settled \cup {"headers", "parsed"}
  /\ Rank(stage') < Rank(stage) \/ (pos < pos' /\ Rank(stage') <= Rank(stage))

LEMMA EachMoves == ParserInv /\ ParserNext => Moves
<1> SUFFICES ASSUME ParserInv, ParserNext PROVE Moves
  OBVIOUS
<1>1. data \in Words /\ pos \in Nat /\ Len(data) \in Nat /\ (stage = "command" => pos = 1)
  BY WordLength DEF ParserInv, ParserTypeOK, StartOK
<1>2. CASE EmptyFrame
  BY <1>1, <1>2, RankIs DEF EmptyFrame, Moves, Settled
<1>3. CASE parse_command
  <2> DEFINE e == FirstOf({LF, NUL, Blank}, data, 1)
  <2>1. stage = "command" /\ data' = data /\ stage' \in {"headers", "parsed"}
    BY <1>3 DEF parse_command
  <2>2. pos' = pos \/ pos' = e + 1
    BY <1>3 DEF parse_command
  <2>3. e \in Nat
    BY <1>1, FirstOfIs
  <2> HIDE DEF e
  <2>4. pos <= pos'
    BY <1>1, <2>1, <2>2, <2>3
  <2> QED
    BY <2>1, <2>4, RankIs DEF Moves
<1>4. CASE ReadHeader
  <2> DEFINE e == FirstOf({LF, NUL}, data, pos)
  <2>1. /\ stage = "headers" /\ pos <= Len(data) /\ data' = data
        /\ stage' \in {"headers", "parsed"}
        /\ pos' = IF e > Len(data) THEN e ELSE e + 1
    BY <1>4, HeaderDoes
  <2>2. pos >= 1
    BY DEF ParserInv, ParserTypeOK
  <2>3. e \in Nat /\ (e <= Len(data) => e >= pos)
    BY <1>1, <2>2, FirstOfIs
  <2> HIDE DEF e
  <2>4. pos < pos' /\ pos <= pos'
    BY <1>1, <2>1, <2>3
  <2> QED
    BY <1>1, <2>1, <2>4, RankIs DEF Moves
<1>5. CASE ReadPayload
  <2>1. /\ stage = "headers" /\ pos <= Len(data) /\ data' = data /\ stage' = "parsed"
        /\ pos' = NextLinePos(pos)
    BY <1>5 DEF ReadPayload
  <2>2. pos' = pos + 1
    BY <1>1, <2>1 DEF NextLinePos
  <2> QED
    BY <1>1, <2>1, <2>2, RankIs DEF Moves
<1>6. CASE EndOfData
  BY <1>1, <1>6, RankIs DEF EndOfData, Moves
<1>7. CASE RefuseMessage \/ MissingHeader \/ Handle \/ Ignore
  <2>1. stage = "parsed" /\ data' = data /\ pos' = pos /\ stage' \in Settled
    BY <1>7 DEF RefuseMessage, MissingHeader, Handle, Ignore, Dispatches, Settled
  <2> QED
    BY <1>1, <2>1, RankIs DEF Moves
<1> QED
  BY <1>2, <1>3, <1>4, <1>5, <1>6, <1>7 DEF ParserNext

(* No frame keeps an io thread: each step of the parser and of the checks  *)
(* that follow it (on_data_rx, parse, proccess_message) leaves less of the *)
(* frame ahead, so a frame of any length is settled after at most a step   *)
(* for each of its characters and four more.                               *)
THEOREM EachStepAdvancesCorrect == ParserSpec => EachStepAdvances
<1>1. ASSUME ParserInv, ParserInv', ParserNext
      PROVE  data' = data /\ Ahead' \in Nat /\ Ahead' < Ahead
  <2>1. Moves
    BY <1>1, EachMoves
  <2> DEFINE n == Len(data)
  <2>2. /\ n \in Nat /\ pos \in 1..n + 2 /\ pos' \in 1..n + 2 /\ pos <= pos' /\ data' = data
        /\ Len(data') = n
    BY <1>1, <2>1, WordLength DEF ParserInv, ParserTypeOK, Moves
  <2>3. /\ stage \in {"command", "headers", "parsed"}
        /\ stage' \in Settled \cup {"headers", "parsed"}
        /\ Rank(stage') < Rank(stage) \/ (pos < pos' /\ Rank(stage') <= Rank(stage))
    BY <2>1 DEF Moves
  <2>4. Ahead = (n + 2 - pos) + Rank(stage) /\ Ahead' = (n + 2 - pos') + Rank(stage')
    BY <2>2 DEF Ahead, Rank
  <2> HIDE DEF n
  <2>5. /\ (n + 2 - pos') + Rank(stage') \in Nat
        /\ (n + 2 - pos') + Rank(stage') < (n + 2 - pos) + Rank(stage)
    BY <2>2, <2>3, Advances
  <2> QED
    BY <2>2, <2>4, <2>5
<1>2. ParserInv /\ ParserInv' /\ [ParserNext]_vars =>
        [data' = data /\ Ahead' \in Nat /\ Ahead' < Ahead]_vars
  BY <1>1
<1> QED
  BY <1>2, ParserInvHolds, PTL DEF ParserSpec, EachStepAdvances
====
