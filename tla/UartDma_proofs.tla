--------------------------- MODULE UartDma_proofs ---------------------------
(***************************************************************************)
(* Theorems about the receiver of the bootloader, for all sizes of ring,   *)
(* chunk and frame, and all that may be lost on the line.                  *)
(***************************************************************************)
EXTENDS UartDma, SequenceTheorems, TLAPS

-----------------------------------------------------------------------------
(* Counters and positions in the ring *)

LEMMA Parameters ==
  /\ Chunk \in Nat \ {0} /\ RingSize \in Nat \ {0} /\ CounterSpace \in Nat \ {0}
  /\ MaxLen \in Nat \ {0} /\ Overhead \in Nat \ {0} /\ LenAt \in Nat
  /\ RingSize < CounterSpace /\ CounterSpace % RingSize = 0
  /\ LenAt + 1 < Overhead /\ Overhead <= MaxLen /\ MaxLen <= RingSize
  BY UartAssumption

LEMMA BytesAssociate ==
  ASSUME NEW a \in Seq(Nat), NEW b \in Seq(Nat), NEW c \in Seq(Nat)
  PROVE  (a \o b) \o c = a \o (b \o c)
  BY ConcatAssociative

LEMMA Division ==
  ASSUME NEW u \in Nat \ {0}, NEW n \in Nat
  PROVE  n \div u \in Nat /\ n % u \in 0..(u - 1) /\ n = (n \div u) * u + (n % u)
  OBVIOUS

LEMMA Remainder ==
  ASSUME NEW u \in Nat \ {0}, NEW q \in Nat, NEW r0 \in 0..(u - 1)
  PROVE  (q * u + r0) % u = r0
  OBVIOUS

\* A counter that wraps around once.
LEMMA WrapOnce ==
  ASSUME NEW u \in Nat \ {0}, NEW n \in Nat, n < u + u
  PROVE  n % u = IF n < u THEN n ELSE n - u
<1>1. CASE n < u
  <2>1. 0 \in Nat /\ n \in 0..(u - 1) /\ 0 * u + n = n BY <1>1
  <2> QED BY <1>1, <2>1, Remainder
<1>2. CASE ~(n < u)
  <2>1. 1 \in Nat /\ n - u \in 0..(u - 1) /\ 1 * u + (n - u) = n BY <1>2
  <2> QED BY <1>2, <2>1, Remainder
<1> QED BY <1>1, <1>2

\* The ring does not notice that a counter wraps.
LEMMA RingWraps ==
  ASSUME NEW n \in Nat
  PROVE  (n + CounterSpace) % RingSize = n % RingSize
<1> DEFINE u == RingSize
           c == CounterSpace
           p == c \div u
           q == n \div u
           t == n % u
<1>1. u \in Nat \ {0} /\ c \in Nat /\ c % u = 0 BY Parameters
<1>2. p \in Nat /\ c = p * u + (c % u) BY ONLY <1>1, Division
<1>3. q \in Nat /\ t \in 0..(u - 1) /\ n = q * u + t BY ONLY <1>1, n \in Nat, Division
<1> HIDE DEF u, c, p, q, t
<1>4. c = p * u
  <2>1. p * u \in Nat BY <1>1, <1>2
  <2> QED BY <1>1, <1>2, <2>1
<1>5. n + c = (q + p) * u + t
  <2>1. (q + p) * u = q * u + p * u /\ q * u \in Nat /\ p * u \in Nat BY <1>1, <1>2, <1>3
  <2> QED BY <1>3, <1>4, <2>1
<1>6. q + p \in Nat BY <1>2, <1>3
<1>7. ((q + p) * u + t) % u = t BY ONLY <1>1, <1>3, <1>6, Remainder
<1> QED BY <1>5, <1>7 DEF u, c, t

\* Positions less than a ring apart are different.
LEMMA RingDistinct ==
  ASSUME NEW a \in Nat, NEW b \in Nat, a < b, b < a + RingSize
  PROVE  a % RingSize # b % RingSize
<1> DEFINE u == RingSize
           p == a \div u
           q == b \div u
           s == a % u
           t == b % u
<1> SUFFICES ASSUME s = t PROVE FALSE OBVIOUS
<1>1. u \in Nat \ {0} BY Parameters
<1>2. p \in Nat /\ s \in 0..(u - 1) /\ a = p * u + s BY ONLY <1>1, a \in Nat, Division
<1>3. q \in Nat /\ t \in 0..(u - 1) /\ b = q * u + t BY ONLY <1>1, b \in Nat, Division
<1> HIDE DEF u, p, q, s, t
<1>4. p * u \in Nat /\ q * u \in Nat BY <1>1, <1>2, <1>3
<1>5. p * u < q * u /\ q * u < p * u + u BY <1>1, <1>2, <1>3, <1>4 DEF u
<1>6. p < q
  <2> SUFFICES ASSUME q <= p PROVE FALSE BY <1>2, <1>3
  <2>1. p - q \in Nat /\ (p - q) * u \in Nat /\ (p - q) * u = p * u - q * u BY <1>1, <1>2, <1>3
  <2> QED BY <1>4, <1>5, <2>1
<1>7. q - (p + 1) \in Nat BY <1>2, <1>3, <1>6
<1>8. (q - (p + 1)) * u \in Nat /\ (q - (p + 1)) * u = q * u - (p * u + u)
  <2>1. (q - (p + 1)) * u = q * u - (p + 1) * u BY <1>1, <1>2, <1>3
  <2>2. (p + 1) * u = p * u + u BY <1>1, <1>2
  <2>3. (q - (p + 1)) * u \in Nat BY <1>1, <1>7
  <2> QED BY <1>4, <2>1, <2>2, <2>3
<1> QED BY <1>1, <1>4, <1>5, <1>8

-----------------------------------------------------------------------------
(* The ring as a queue *)

Waiting == [k \in 1..Count |-> Peek(k - 1)]

RingInv ==
  /\ ring \in [0..(RingSize - 1) -> Nat]
  /\ w \in 0..(CounterSpace - 1) /\ r \in 0..(CounterSpace - 1)
  /\ Count <= RingSize

\* The counters: w is Count ahead of r.
LEMMA CountFacts ==
  ASSUME w \in 0..(CounterSpace - 1), r \in 0..(CounterSpace - 1)
  PROVE  /\ Count \in Nat /\ Count < CounterSpace
         /\ w = r + Count \/ w + CounterSpace = r + Count
<1> DEFINE n == (w + CounterSpace) - r
           c == CounterSpace
<1>1. c \in Nat \ {0} BY Parameters
<1>2. n \in Nat /\ n < c + c BY <1>1
<1>3. Count = n % c
  <2>1. n = w + (CounterSpace - r) BY <1>1
  <2> HIDE DEF n
  <2> QED BY <2>1 DEF Count
<1> HIDE DEF n
<1>4. n % c = IF n < c THEN n ELSE n - c BY ONLY <1>1, <1>2, WrapOnce
<1> QED BY <1>1, <1>2, <1>3, <1>4 DEF n

LEMMA CountIs ==
  ASSUME NEW x \in 0..(CounterSpace - 1), NEW y \in 0..(CounterSpace - 1), NEW n \in Nat,
         n < CounterSpace, x = y + n \/ x + CounterSpace = y + n
  PROVE  (x + CounterSpace - y) % CounterSpace = n
<1> DEFINE d == (x + CounterSpace) - y
           c == CounterSpace
<1>1. c \in Nat \ {0} BY Parameters
<1>2. d \in Nat /\ d < c + c BY <1>1
<1>3. d = n \/ d = n + c BY <1>1
<1> HIDE DEF d, c
<1>4. d % c = IF d < c THEN d ELSE d - c BY ONLY <1>1, <1>2, WrapOnce
<1>5. d % c = n BY <1>1, <1>2, <1>3, <1>4 DEF c
<1> USE DEF d
<1>6. d = x + (CounterSpace - y) BY <1>1 DEF c
<1> HIDE DEF d
<1> QED BY <1>5, <1>6 DEF c

LEMMA WaitingFacts ==
  ASSUME RingInv
  PROVE  /\ Waiting \in Seq(Nat) /\ Len(Waiting) = Count /\ Count \in 0..RingSize
         /\ \A k \in 1..Count : Waiting[k] = Peek(k - 1)
         /\ \A k \in Nat : Peek(k) \in Nat
<1>1. Count \in 0..RingSize BY CountFacts, Parameters DEF RingInv
<1>2. ASSUME NEW k \in Nat PROVE Peek(k) \in Nat
  <2>1. r + k \in Nat /\ RingSize \in Nat \ {0} BY Parameters DEF RingInv
  <2>2. (r + k) % RingSize \in 0..(RingSize - 1) BY ONLY <2>1, Division
  <2> QED BY <2>2 DEF Peek, RingInv
<1>3. \A k \in 1..Count : k - 1 \in Nat /\ Peek(k - 1) \in Nat BY <1>1, <1>2
<1>4. Waiting \in [1..Count -> Nat] BY <1>3 DEF Waiting
<1>5. Waiting \in Seq(Nat) /\ Len(Waiting) = Count BY <1>1, <1>4
<1> QED BY <1>1, <1>2, <1>5 DEF Waiting

\* Where the interrupt writes is where the waiting bytes end.
LEMMA WritePosition ==
  ASSUME RingInv, NEW k \in Nat
  PROVE  (w + k) % RingSize = (r + Count + k) % RingSize
<1> DEFINE a == w + k
           b == (r + Count) + k
<1>1. /\ Count \in Nat /\ (w = r + Count \/ w + CounterSpace = r + Count)
      /\ w \in Nat /\ r \in Nat /\ CounterSpace \in Nat
  BY CountFacts, Parameters DEF RingInv
<1>2. a \in Nat /\ (b = a \/ b = a + CounterSpace) BY <1>1
<1> HIDE DEF a, b
<1>3. (a + CounterSpace) % RingSize = a % RingSize BY ONLY <1>2, RingWraps
<1>4. a % RingSize = b % RingSize BY <1>2, <1>3
<1> QED BY <1>4 DEF a, b

\* What the interrupt copies stands behind the waiting bytes, none of which it overwrites.
LEMMA PushAppends ==
  ASSUME RingInv, NEW s \in Seq(Nat), RoomFor(Len(s)),
         ring' = Pushed(s), w' = (w + Len(s)) % CounterSpace, r' = r
  PROVE  RingInv' /\ Waiting' = Waiting \o s
<1> DEFINE n == Len(s)
           c == Count
           at(k) == (w + k) % RingSize
<1>1. /\ n \in Nat /\ c \in Nat /\ c + n <= RingSize /\ c + n < CounterSpace
      /\ w \in Nat /\ r \in Nat /\ RingSize \in Nat \ {0}
  BY CountFacts, Parameters DEF RingInv, RoomFor, Free
<1>2. w' \in 0..(CounterSpace - 1) /\ (w' = w + n \/ w' + CounterSpace = w + n)
  <2> DEFINE d == w + n
             u == CounterSpace
  <2>1. u \in Nat \ {0} /\ d \in Nat /\ d < u + u
    <3>1. u \in Nat \ {0} /\ w \in 0..(u - 1) BY Parameters DEF RingInv
    <3> HIDE DEF n, c, u
    <3> QED BY <1>1, <3>1 DEF u
  <2> HIDE DEF d, u
  <2>2. d % u = IF d < u THEN d ELSE d - u BY ONLY <2>1, WrapOnce
  <2>3. w' = d % u BY DEF d, u
  <2>4. w' \in 0..(u - 1) /\ (w' = d \/ w' + u = d) BY ONLY <2>1, <2>2, <2>3
  <2> QED BY <2>4 DEF d, u
<1>3. Count' = c + n
  <2> DEFINE x == w'
             m == c + n
  <2>1. w = r + c \/ w + CounterSpace = r + c BY CountFacts DEF RingInv
  <2>2. r \in 0..(CounterSpace - 1) /\ CounterSpace \in Nat BY Parameters DEF RingInv
  <2> HIDE DEF c, n
  <2>3. x = r + m \/ x + CounterSpace = r + m BY <1>1, <1>2, <2>1, <2>2
  <2>4. x \in 0..(CounterSpace - 1) /\ m \in Nat /\ m < CounterSpace BY <1>1, <1>2
  <2> HIDE DEF x, m
  <2>5. (x + CounterSpace - r) % CounterSpace = m BY ONLY <2>2, <2>3, <2>4, CountIs
  <2>6. Count' = (x + CounterSpace - r) % CounterSpace BY DEF Count, x
  <2> QED BY <2>5, <2>6 DEF m
<1>4. \A k \in Nat : at(k) \in 0..(RingSize - 1) /\ at(k) = (r + c + k) % RingSize
  <2> SUFFICES ASSUME NEW k \in Nat PROVE at(k) \in 0..(RingSize - 1) /\ at(k) = (r + c + k) % RingSize
    OBVIOUS
  <2>1. w + k \in Nat /\ RingSize \in Nat \ {0} BY <1>1
  <2>2. (w + k) % RingSize \in 0..(RingSize - 1) BY ONLY <2>1, Division
  <2> QED BY <2>2, WritePosition
<1> DEFINE ks(i) == {k \in 1..n : at(k - 1) = i}
           last(S) == CHOOSE k \in S : \A j \in S : j <= k
<1>5. \A i \in 0..(RingSize - 1) :
        ring'[i] = IF ks(i) = {} THEN ring[i] ELSE s[last(ks(i))]
  <2>1. \A k \in 1..n : w + k - 1 = w + (k - 1) OBVIOUS
  <2> QED BY <2>1 DEF Pushed
<1> HIDE DEF n, c, at
<1>6. ASSUME NEW j \in 1..n PROVE ring'[at(j - 1)] = s[j]
  <2>1. ASSUME NEW k \in 1..n, k # j PROVE at(k - 1) # at(j - 1)
    <3> DEFINE a == w + (k - 1)
               b == w + (j - 1)
    <3>1. a \in Nat /\ b \in Nat /\ a < b + RingSize /\ b < a + RingSize /\ a # b
      BY <1>1, <2>1
    <3> HIDE DEF a, b
    <3>2. a % RingSize # b % RingSize
      <4>1. CASE a < b BY ONLY <3>1, <4>1, RingDistinct
      <4>2. CASE b < a BY ONLY <3>1, <4>2, RingDistinct
      <4> QED BY <3>1, <4>1, <4>2
    <3> QED BY <3>2 DEF a, b, at
  <2>2. ks(at(j - 1)) = {j} BY <2>1
  <2>3. last({j}) = j BY <1>1
  <2>4. at(j - 1) \in 0..(RingSize - 1)
    <3>1. j - 1 \in Nat BY <1>1
    <3> QED BY <1>4, <3>1
  <2> HIDE DEF ks, last
  <2> QED BY <1>5, <2>2, <2>3, <2>4
<1>7. ring' \in [0..(RingSize - 1) -> Nat]
  <2>1. ASSUME NEW i \in 0..(RingSize - 1) PROVE ring'[i] \in Nat
    <3>1. CASE ks(i) = {} BY <1>5, <2>1, <3>1 DEF RingInv
    <3>2. CASE ks(i) # {}
      <4>1. PICK j \in 1..n : at(j - 1) = i BY <3>2
      <4>2. ring'[i] = s[j] BY <1>6, <4>1
      <4>3. s[j] \in Nat BY DEF n
      <4> QED BY <4>2, <4>3
    <3> QED BY <3>1, <3>2
  <2>2. ring' = [i \in 0..(RingSize - 1) |-> ring'[i]] BY DEF Pushed
  <2> QED BY <2>1, <2>2
<1>8. RingInv'
  <2>1. r' \in 0..(CounterSpace - 1) BY DEF RingInv
  <2> QED BY <1>1, <1>2, <1>3, <1>7, <2>1 DEF RingInv
<1>9. ASSUME NEW k \in 1..c PROVE Peek(k - 1)' = Waiting[k]
  <2> DEFINE i == (r + (k - 1)) % RingSize
  <2>1. i \in 0..(RingSize - 1)
    <3>1. r + (k - 1) \in Nat BY <1>1
    <3> QED BY ONLY <1>1, <3>1, Division
  <2>2. ASSUME NEW j \in 1..n PROVE at(j - 1) # i
    <3> DEFINE a == r + (k - 1)
               b == r + c + (j - 1)
    <3>1. a \in Nat /\ b \in Nat /\ a < b /\ b < a + RingSize BY <1>1
    <3>2. at(j - 1) = b % RingSize
      <4>1. j - 1 \in Nat BY <1>1
      <4> QED BY <1>4, <4>1
    <3> HIDE DEF a, b
    <3>3. a % RingSize # b % RingSize BY ONLY <3>1, RingDistinct
    <3> QED BY <3>2, <3>3 DEF a
  <2>3. ks(i) = {} BY <2>2
  <2>4. ring'[i] = ring[i] BY <1>5, <2>1, <2>3
  <2>5. Peek(k - 1)' = ring'[i] /\ Peek(k - 1) = ring[i] BY DEF Peek
  <2>6. Waiting[k] = Peek(k - 1) BY WaitingFacts DEF c
  <2> QED BY <2>4, <2>5, <2>6
<1>10. ASSUME NEW j \in 1..n, NEW k \in Nat, k = c + (j - 1) PROVE Peek(k)' = s[j]
  <2>1. j - 1 \in Nat /\ r + k = r + c + (j - 1) BY <1>1, <1>10
  <2>2. at(j - 1) = (r + k) % RingSize BY <1>4, <2>1
  <2>3. Peek(k)' = ring'[(r + k) % RingSize] BY DEF Peek
  <2> QED BY <1>6, <2>2, <2>3
<1>11. /\ Waiting' \in Seq(Nat) /\ Len(Waiting') = c + n
       /\ \A k \in 1..(c + n) : Waiting'[k] = Peek(k - 1)'
  <2>1. Count' = c + n /\ Count' \in 0..RingSize BY <1>1, <1>3
  <2>2. Waiting' = [k \in 1..(c + n) |-> Peek(k - 1)'] BY <2>1 DEF Waiting
  <2>3. ASSUME NEW k \in 1..(c + n) PROVE Peek(k - 1)' \in Nat
    <3>1. r + (k - 1) \in Nat BY <1>1
    <3>2. (r + (k - 1)) % RingSize \in 0..(RingSize - 1) BY ONLY <1>1, <3>1, Division
    <3> QED BY <1>7, <3>2 DEF Peek
  <2>4. Waiting' \in [1..(c + n) -> Nat] BY <2>2, <2>3
  <2>5. Waiting' \in Seq(Nat) /\ Len(Waiting') = c + n BY <1>1, <2>4
  <2> QED BY <2>2, <2>5
<1>12. /\ Waiting \o s \in Seq(Nat) /\ Len(Waiting \o s) = c + n
       /\ \A k \in 1..(c + n) : (Waiting \o s)[k] = IF k <= c THEN Waiting[k] ELSE s[k - c]
  <2>1. Waiting \in Seq(Nat) /\ Len(Waiting) = c BY WaitingFacts DEF c
  <2> QED BY <2>1, ConcatProperties DEF n
<1>13. ASSUME NEW k \in 1..(c + n) PROVE Waiting'[k] = (Waiting \o s)[k]
  <2>1. CASE k <= c
    <3>1. k \in 1..c BY <1>1, <2>1
    <3>2. Peek(k - 1)' = Waiting[k] BY <1>9, <3>1
    <3> QED BY <1>11, <1>12, <2>1, <3>2
  <2>2. CASE ~(k <= c)
    <3>1. k - c \in 1..n /\ k - 1 \in Nat /\ k - 1 = c + ((k - c) - 1) BY <1>1, <2>2
    <3>2. Peek(k - 1)' = s[k - c] BY <1>10, <3>1
    <3> QED BY <1>11, <1>12, <2>2, <3>1, <3>2
  <2> QED BY <2>1, <2>2
<1>14. Waiting' = Waiting \o s
  <2> DEFINE x == Waiting'
             y == Waiting \o s
  <2>1. x \in Seq(Nat) /\ y \in Seq(Nat) /\ Len(x) = Len(y) /\ \A k \in 1..Len(x) : x[k] = y[k]
    BY <1>11, <1>12, <1>13
  <2> HIDE DEF x, y
  <2>2. x = y BY ONLY <2>1, SeqEqual
  <2> QED BY <2>2 DEF x, y
<1> QED BY <1>8, <1>14

\* A byte that the parser drops or reads was the first one waiting.
LEMMA DropTakes ==
  ASSUME RingInv, Count # 0, RingDrop, UNCHANGED <<ring, w>>
  PROVE  RingInv' /\ Waiting' = Tail(Waiting) /\ Waiting # <<>> /\ Head(Waiting) = Peek(0)
<1> DEFINE c == Count
<1>1. /\ c \in Nat \ {0} /\ c <= RingSize /\ RingSize < CounterSpace /\ w \in 0..(CounterSpace - 1)
      /\ r \in 0..(CounterSpace - 1) /\ RingSize \in Nat \ {0} /\ CounterSpace \in Nat \ {0}
      /\ w = r + c \/ w + CounterSpace = r + c
      /\ r' = (r + 1) % CounterSpace /\ ring' = ring /\ w' = w
  BY CountFacts, Parameters DEF RingInv, RingDrop
<1> HIDE DEF c
<1>2. r' \in 0..(CounterSpace - 1) /\ (r' = r + 1 \/ r' + CounterSpace = r + 1)
  <2> DEFINE d == r + 1
             u == CounterSpace
  <2>1. u \in Nat \ {0} /\ d \in Nat /\ d < u + u BY <1>1
  <2>3. r' = d % u BY <1>1
  <2> HIDE DEF d, u
  <2>2. d % u = IF d < u THEN d ELSE d - u BY ONLY <2>1, WrapOnce
  <2> QED BY <2>1, <2>2, <2>3 DEF d, u
<1>3. Count' = c - 1
  <2> DEFINE y == r'
             m == c - 1
  <2>1. y \in 0..(CounterSpace - 1) /\ m \in Nat /\ m < CounterSpace
        /\ (w = y + m \/ w + CounterSpace = y + m)
    BY <1>1, <1>2
  <2>2. w \in 0..(CounterSpace - 1) BY <1>1
  <2> HIDE DEF y, m
  <2>3. (w + CounterSpace - y) % CounterSpace = m BY ONLY <2>1, <2>2, CountIs
  <2>4. Count' = (w + CounterSpace - y) % CounterSpace BY <1>1 DEF Count, y
  <2> QED BY <2>3, <2>4 DEF m
<1>4. RingInv' BY <1>1, <1>2, <1>3 DEF RingInv
<1>5. ASSUME NEW k \in Nat PROVE Peek(k)' = Peek(k + 1)
  <2> DEFINE a == r' + k
             b == r + (k + 1)
  <2>1. a \in Nat /\ b \in Nat /\ (b = a \/ b = a + CounterSpace) BY <1>1, <1>2
  <2>2. Peek(k)' = ring[a % RingSize] /\ Peek(k + 1) = ring[b % RingSize] BY <1>1 DEF Peek
  <2> HIDE DEF a, b
  <2>3. (a + CounterSpace) % RingSize = a % RingSize BY ONLY <2>1, RingWraps
  <2> QED BY <2>1, <2>2, <2>3
<1>6. /\ Waiting \in Seq(Nat) /\ Len(Waiting) = c /\ \A k \in 1..c : Waiting[k] = Peek(k - 1)
      /\ \A k \in Nat : Peek(k) \in Nat
  BY WaitingFacts DEF c
<1>7. Waiting # <<>>
  <2> DEFINE x == Waiting
  <2>1. Len(x) # 0 BY <1>1, <1>6
  <2> HIDE DEF x
  <2> QED BY <2>1 DEF x
<1>8. /\ Waiting' \in Seq(Nat) /\ Len(Waiting') = c - 1
      /\ \A k \in 1..(c - 1) : Waiting'[k] = Peek(k)
  <2>1. ASSUME NEW k \in 1..(c - 1) PROVE Peek(k - 1)' = Peek(k) /\ Peek(k) \in Nat
    <3>1. k - 1 \in Nat /\ (k - 1) + 1 = k /\ k \in Nat BY <1>1
    <3> QED BY <1>5, <1>6, <3>1
  <2>2. Waiting' = [k \in 1..(c - 1) |-> Peek(k - 1)'] BY <1>3 DEF Waiting
  <2>3. Waiting' = [k \in 1..(c - 1) |-> Peek(k)] BY <2>1, <2>2
  <2>4. Waiting' \in [1..(c - 1) -> Nat] BY <2>1, <2>3
  <2>5. c - 1 \in Nat BY <1>1
  <2>6. Waiting' \in Seq(Nat) /\ Len(Waiting') = c - 1 BY <2>4, <2>5
  <2> QED BY <2>3, <2>6
<1>9. /\ Tail(Waiting) \in Seq(Nat) /\ Len(Tail(Waiting)) = c - 1
      /\ \A k \in 1..(c - 1) : Tail(Waiting)[k] = Waiting[k + 1]
  <2> DEFINE x == Waiting
  <2>1. x \in Seq(Nat) /\ x # <<>> /\ Len(x) = c BY <1>6, <1>7
  <2> HIDE DEF x
  <2>2. /\ Tail(x) \in Seq(Nat) /\ Len(Tail(x)) = c - 1
        /\ \A k \in 1..Len(Tail(x)) : Tail(x)[k] = x[k + 1]
    BY <2>1, HeadTailProperties
  <2> QED BY <2>2 DEF x
<1>10. Waiting' = Tail(Waiting)
  <2>1. ASSUME NEW k \in 1..(c - 1) PROVE Waiting'[k] = Tail(Waiting)[k]
    <3>1. k + 1 \in 1..c /\ (k + 1) - 1 = k BY <1>1
    <3> QED BY <1>6, <1>8, <1>9, <3>1
  <2> DEFINE x == Waiting'
             y == Tail(Waiting)
  <2>2. x \in Seq(Nat) /\ y \in Seq(Nat) /\ Len(x) = Len(y) /\ \A k \in 1..Len(x) : x[k] = y[k]
    BY <1>8, <1>9, <2>1
  <2> HIDE DEF x, y
  <2>3. x = y BY ONLY <2>2, SeqEqual
  <2> QED BY <2>3 DEF x, y
<1>11. Head(Waiting) = Peek(0)
  <2>1. 1 \in 1..c /\ 1 - 1 = 0 BY <1>1
  <2>2. Waiting[1] = Peek(0) BY <1>6, <2>1
  <2> QED BY <1>7, <2>2
<1> QED BY <1>4, <1>7, <1>10, <1>11

-----------------------------------------------------------------------------
(* The parser: what it has seen of the frame at the front                  *)

\* What the parser knows when it has come as far as pc; q is what is in the ring, with
\* the bytes of the frame that it has already read.
Seen(q) ==
  /\ pc \in {"length", "body", "eof", "read"} => Len(q) > LenAt /\ q[1] = Sof
  /\ pc \in {"body", "eof", "read"} => total = Stream!FrameLen(q) /\ total <= MaxLen
  /\ pc \in {"eof", "read"} => Len(q) >= total
  /\ pc = "read" => q[total] = Eof /\ Len(out) < total

ReceiverInv ==
  /\ RingInv
  /\ line \in Seq(Nat) /\ dma \in Seq(Nat) /\ out \in Seq(Nat)
  /\ pc \in {"idle", "header", "length", "body", "eof", "read"}
  /\ pc # "read" => out = <<>>
  /\ Seen(Queue)

LEMMA QueueFacts ==
  ASSUME RingInv, out \in Seq(Nat)
  PROVE  /\ Queue = out \o Waiting /\ Queue \in Seq(Nat) /\ Len(Queue) = Len(out) + Count
         /\ Count \in Nat /\ Len(out) \in Nat
         /\ out = <<>> => Queue = Waiting /\ \A k \in 1..Count : Queue[k] = Peek(k - 1)
<1>1. Queue = out \o Waiting BY DEF Queue, Waiting
<1>2. /\ Waiting \in Seq(Nat) /\ Len(Waiting) = Count /\ Count \in Nat
      /\ \A k \in 1..Count : Waiting[k] = Peek(k - 1)
  BY WaitingFacts
<1> DEFINE x == Waiting
<1> HIDE DEF x
<1>3. x \in Seq(Nat) /\ Len(x) = Count /\ Queue = out \o x BY <1>1, <1>2 DEF x
<1>4. out \o x \in Seq(Nat) /\ Len(out \o x) = Len(out) + Count BY <1>2, <1>3, ConcatProperties
<1>5. out = <<>> => out \o x = x BY <1>3, ConcatEmptySeq
<1>6. Len(out) \in Nat OBVIOUS
<1> QED BY <1>1, <1>2, <1>3, <1>4, <1>5, <1>6 DEF x

LEMMA LengthOfFrame ==
  ASSUME NEW q \in Seq(Nat), Len(q) > LenAt
  PROVE  Stream!FrameLen(q) \in Nat /\ Stream!FrameLen(q) > LenAt + 1
<1>1. LenAt + 1 \in 1..Len(q) BY Parameters
<1>2. q[LenAt + 1] \in Nat BY <1>1
<1> QED BY <1>2, Parameters DEF Stream!FrameLen

\* More bytes do not change what was seen.
LEMMA SeenExtends ==
  ASSUME NEW q \in Seq(Nat), NEW s \in Seq(Nat), Seen(q)
  PROVE  Seen(q \o s)
<1> DEFINE x == q \o s
<1>1. /\ Len(x) = Len(q) + Len(s) /\ Len(q) \in Nat /\ Len(s) \in Nat
      /\ \A k \in 1..Len(q) : x[k] = q[k]
  BY ConcatProperties
<1> HIDE DEF x
<1>2. ASSUME Len(q) > LenAt
      PROVE  /\ Len(x) > LenAt /\ x[1] = q[1] /\ Stream!FrameLen(x) = Stream!FrameLen(q)
             /\ Stream!FrameLen(q) \in Nat \ {0}
  <2>1. LenAt + 1 \in 1..Len(q) /\ 1 \in 1..Len(q) BY <1>1, <1>2, Parameters
  <2>2. x[LenAt + 1] = q[LenAt + 1] /\ x[1] = q[1] BY <1>1, <2>1
  <2>3. Stream!FrameLen(q) \in Nat /\ Stream!FrameLen(q) > LenAt + 1 BY <1>2, LengthOfFrame
  <2>4. Stream!FrameLen(q) # 0 BY <2>3, Parameters
  <2> QED BY <1>1, <1>2, <2>2, <2>3, <2>4, Parameters DEF Stream!FrameLen
<1>3. ASSUME NEW n \in Nat \ {0}, n <= Len(q) PROVE n <= Len(x) /\ x[n] = q[n] BY <1>1, <1>3
<1>4. Seen(x) BY <1>1, <1>2, <1>3 DEF Seen
<1> QED BY <1>4 DEF x

LEMMA QueueStays ==
  ASSUME RingInv, UNCHANGED <<ring, w, r, out>>
  PROVE  RingInv' /\ Queue' = Queue
<1>1. Count' = Count BY DEF Count
<1>2. \A k : Peek(k)' = Peek(k) BY DEF Peek
<1> QED BY <1>1, <1>2 DEF RingInv, Queue

LEMMA QueueDrops ==
  ASSUME RingInv, out = <<>>, out' = <<>>, Count # 0, RingDrop, UNCHANGED <<ring, w>>
  PROVE  RingInv' /\ Queue # <<>> /\ Queue' = Tail(Queue)
<1>1. RingInv' /\ Waiting' = Tail(Waiting) /\ Waiting # <<>> BY DropTakes
<1>2. Queue = Waiting BY QueueFacts
<1>3. Queue' = Waiting'
  <2>1. Queue' = <<>> \o Waiting' BY DEF Queue, Waiting
  <2> DEFINE x == Waiting
  <2>2. x \in Seq(Nat) /\ x # <<>> BY <1>1, WaitingFacts
  <2> HIDE DEF x
  <2>3. Tail(x) \in Seq(Nat) BY <2>2, HeadTailProperties
  <2>4. <<>> \o Tail(x) = Tail(x) BY <2>3, ConcatEmptySeq
  <2> QED BY <1>1, <2>1, <2>4 DEF x
<1> QED BY <1>1, <1>2, <1>3

\* Steps of host, line and interrupt append to the queue, or leave it alone.
LEMMA InterruptRefines ==
  ASSUME ReceiverInv, (\E m \in Messages : Send(m)) \/ Receive \/ OnRxEvent \/ OnError
  PROVE  /\ ReceiverInv' /\ delivered' = delivered
         /\ \/ Queue' = Queue /\ (lost' \/ Receive \/ \E m \in Messages : Send(m))
            \/ Queue' = Queue \o dma /\ dma # <<>> /\ OnRxEvent
<1> USE DEF receiver, parser, wire
<1>1. UNCHANGED <<r, pc, total, out, delivered>> BY DEF Send, Receive, OnRxEvent, OnError
<1>2. line' \in Seq(Nat) /\ dma' \in Seq(Nat)
  <2>1. CASE \E m \in Messages : Send(m) BY <2>1, UartAssumption DEF Send, ReceiverInv
  <2>2. CASE Receive
    <3>1. line \in Seq(Nat) /\ line # <<>> /\ dma \in Seq(Nat) BY <2>2 DEF Receive, ReceiverInv
    <3>2. Tail(line) \in Seq(Nat) /\ line[1] \in Nat BY <3>1
    <3>3. Append(dma, line[1]) \in Seq(Nat) BY <3>1, <3>2
    <3> QED BY <2>2, <3>1, <3>2, <3>3 DEF Receive
  <2>3. CASE OnRxEvent BY <2>3 DEF OnRxEvent, RxStart, ReceiverInv
  <2>4. CASE OnError
    <3>1. line \in Seq(Nat) /\ line # <<>> BY <2>4 DEF OnError, ReceiverInv
    <3>2. Tail(line) \in Seq(Nat) BY <3>1
    <3> QED BY <2>4, <3>2 DEF OnError, RxStart
  <2> QED BY <2>1, <2>2, <2>3, <2>4
<1>3. CASE UNCHANGED <<ring, w>> /\ (lost' \/ Receive \/ \E m \in Messages : Send(m))
  <2>1. RingInv' /\ Queue' = Queue BY <1>1, <1>3, QueueStays DEF ReceiverInv
  <2>2. Seen(Queue)'
    <3>1. Seen(Queue)' <=> Seen(Queue) BY <1>1, <2>1 DEF Seen, Stream!FrameLen
    <3> QED BY <3>1 DEF ReceiverInv
  <2> QED BY <1>1, <1>2, <1>3, <2>1, <2>2 DEF ReceiverInv
<1>4. CASE OnRxEvent /\ RoomFor(Len(dma)) /\ ring' = Pushed(dma) /\ w' = (w + Len(dma)) % CounterSpace
  <2>1. RingInv /\ dma \in Seq(Nat) /\ out \in Seq(Nat) /\ Seen(Queue) /\ dma # <<>>
    BY <1>4 DEF ReceiverInv, OnRxEvent
  <2>2. RingInv' /\ Waiting' = Waiting \o dma BY <1>1, <1>4, <2>1, PushAppends
  <2>3. Queue' = Queue \o dma
    <3>1. Queue' = out \o Waiting' /\ Queue = out \o Waiting BY <1>1 DEF Queue, Waiting
    <3> DEFINE x == Waiting
    <3>2. x \in Seq(Nat) BY <2>1, WaitingFacts
    <3> HIDE DEF x
    <3> DEFINE a == out
               b == dma
    <3>3. a \in Seq(Nat) /\ b \in Seq(Nat) BY <2>1
    <3> HIDE DEF a, b
    <3>5. a \o (x \o b) = (a \o x) \o b BY ONLY <3>2, <3>3, BytesAssociate
    <3>4. out \o (x \o dma) = (out \o x) \o dma BY <3>5 DEF a, b
    <3> QED BY <2>2, <3>1, <3>4 DEF x
  <2>4. Seen(Queue \o dma)
    <3> DEFINE q == Queue
    <3>1. q \in Seq(Nat) /\ Seen(q) BY <2>1, QueueFacts
    <3> HIDE DEF q
    <3>2. Seen(q \o dma) BY <2>1, <3>1, SeenExtends
    <3> QED BY <3>2 DEF q
  <2>5. Seen(Queue)'
    <3>1. Seen(Queue)' <=> Seen(Queue \o dma) BY <1>1, <2>3 DEF Seen, Stream!FrameLen
    <3> QED BY <2>4, <3>1
  <2> QED BY <1>1, <1>2, <1>4, <2>1, <2>2, <2>3, <2>5 DEF ReceiverInv
<1>5. CASE OnRxEvent
  <2>1. lost' \/ RoomFor(Len(dma)) BY <1>5 DEF OnRxEvent, RxStart, Started
  <2> QED BY <1>3, <1>4, <1>5, <2>1 DEF OnRxEvent, RingPush
<1>6. CASE OnError
  <2>1. lost' BY <1>6 DEF OnError, RxStart, Started
  <2> QED BY <1>3, <1>6, <2>1 DEF OnError
<1> QED BY <1>3, <1>5, <1>6 DEF Send, Receive

\* The first of one sequence becomes the last of another.
LEMMA MoveFirst ==
  ASSUME NEW o \in Seq(Nat), NEW x \in Seq(Nat), x # <<>>
  PROVE  /\ Append(o, Head(x)) \in Seq(Nat) /\ Len(Append(o, Head(x))) = Len(o) + 1
         /\ Append(o, Head(x)) \o Tail(x) = o \o x
<1> DEFINE f == Append(o, Head(x))
           t == Tail(x)
<1>1. /\ t \in Seq(Nat) /\ Len(t) = Len(x) - 1 /\ \A i \in 1..Len(t) : t[i] = x[i + 1]
      /\ Head(x) \in Nat /\ Head(x) = x[1] /\ Len(x) \in Nat \ {0} /\ Len(o) \in Nat
  BY HeadTailProperties, EmptySeq
<1>2. /\ f \in Seq(Nat) /\ Len(f) = Len(o) + 1 /\ f[Len(o) + 1] = x[1]
      /\ \A i \in 1..Len(o) : f[i] = o[i]
  <2> DEFINE e == Head(x)
  <2>1. e \in Nat /\ e = x[1] BY <1>1
  <2> HIDE DEF e
  <2>2. /\ Append(o, e) \in Seq(Nat) /\ Len(Append(o, e)) = Len(o) + 1 /\ Append(o, e)[Len(o) + 1] = e
        /\ \A i \in 1..Len(o) : Append(o, e)[i] = o[i]
    BY <2>1, AppendProperties
  <2> QED BY <2>1, <2>2 DEF e
<1> HIDE DEF f, t
<1> DEFINE a == f \o t
           b == o \o x
<1>3. /\ a \in Seq(Nat) /\ Len(a) = Len(f) + Len(t)
      /\ \A i \in 1..(Len(f) + Len(t)) : a[i] = IF i <= Len(f) THEN f[i] ELSE t[i - Len(f)]
  BY <1>1, <1>2, ConcatProperties
<1>4. /\ b \in Seq(Nat) /\ Len(b) = Len(o) + Len(x)
      /\ \A i \in 1..(Len(o) + Len(x)) : b[i] = IF i <= Len(o) THEN o[i] ELSE x[i - Len(o)]
  BY <1>1, ConcatProperties
<1> HIDE DEF a, b
<1>5. Len(a) = Len(b) /\ Len(a) = Len(o) + Len(x) BY <1>1, <1>2, <1>3, <1>4
<1>6. ASSUME NEW i \in 1..Len(a) PROVE a[i] = b[i]
  <2>0. /\ a[i] = IF i <= Len(f) THEN f[i] ELSE t[i - Len(f)]
        /\ b[i] = IF i <= Len(o) THEN o[i] ELSE x[i - Len(o)]
    BY <1>3, <1>4, <1>5
  <2>1. CASE i <= Len(o) BY <1>1, <1>2, <2>0, <2>1
  <2>2. CASE i = Len(o) + 1
    <3>1. a[i] = f[i] /\ b[i] = x[i - Len(o)] /\ i - Len(o) = 1 BY <1>1, <1>2, <2>0, <2>2
    <3> QED BY <1>2, <2>2, <3>1
  <2>3. CASE i > Len(o) + 1
    <3>1. a[i] = t[i - Len(f)] /\ b[i] = x[i - Len(o)] BY <1>1, <1>2, <2>0, <2>3
    <3>2. i - Len(f) \in 1..Len(t) /\ (i - Len(f)) + 1 = i - Len(o) BY <1>1, <1>2, <1>5, <2>3
    <3> QED BY <1>1, <3>1, <3>2
  <2> QED BY <1>1, <1>5, <2>1, <2>2, <2>3
<1>7. a = b BY ONLY <1>3, <1>4, <1>5, <1>6, SeqEqual
<1> QED BY <1>2, <1>7 DEF a, b, f, t

\* Both parts of a concatenation are found again by their length.
LEMMA SplitAt ==
  ASSUME NEW f \in Seq(Nat), NEW x \in Seq(Nat)
  PROVE  SubSeq(f \o x, 1, Len(f)) = f /\ SubSeq(f \o x, Len(f) + 1, Len(f \o x)) = x
<1> DEFINE q == f \o x
<1>1. /\ q \in Seq(Nat) /\ Len(q) = Len(f) + Len(x) /\ Len(f) \in Nat /\ Len(x) \in Nat
      /\ \A i \in 1..(Len(f) + Len(x)) : q[i] = IF i <= Len(f) THEN f[i] ELSE x[i - Len(f)]
  BY ConcatProperties
<1> HIDE DEF q
<1>2. SubSeq(q, 1, Len(f)) = f
  <2> DEFINE a == SubSeq(q, 1, Len(f))
  <2>1. \A i \in 1..Len(f) : q[i] \in Nat /\ q[i] = f[i] BY <1>1
  <2>2. a \in Seq(Nat) /\ Len(a) = Len(f) /\ \A i \in 1..Len(f) : a[i] = q[i]
    BY <1>1, <2>1, SubSeqProperties
  <2> HIDE DEF a
  <2>3. a = f BY <2>1, <2>2, SeqEqual
  <2> QED BY <2>3 DEF a
<1>3. SubSeq(q, Len(f) + 1, Len(q)) = x
  <2> DEFINE m == Len(f) + 1
             n == Len(q)
             a == SubSeq(q, m, n)
  <2>1. m \in Int /\ n \in Int /\ (IF m <= n THEN n - m + 1 ELSE 0) = Len(x) /\ n - m + 1 = Len(x)
    BY <1>1
  <2>2. \A i \in m..n : q[i] \in Nat BY <1>1
  <2>3. \A i \in 1..Len(x) : q[m + i - 1] = x[i]
    <3> TAKE i \in 1..Len(x)
    <3>1. m + i - 1 = Len(f) + i /\ Len(f) + i \in 1..(Len(f) + Len(x)) /\ ~(Len(f) + i <= Len(f))
          /\ (Len(f) + i) - Len(f) = i
      BY <1>1
    <3> QED BY <1>1, <3>1
  <2> HIDE DEF m, n
  <2>4. a \in Seq(Nat) /\ Len(a) = Len(x) /\ \A i \in 1..Len(x) : a[i] = q[m + i - 1]
    BY <2>1, <2>2, SubSeqProperties
  <2> HIDE DEF a
  <2>5. a = x BY <2>3, <2>4, SeqEqual
  <2> QED BY <2>5 DEF a, m, n
<1> QED BY <1>2, <1>3 DEF q

\* A step of the parser leaves the queue alone, skips a byte at which no frame can
\* begin, or hands over the frame at the front.
LEMMA ParserRefines ==
  ASSUME ReceiverInv, ParserStep
  PROVE  /\ ReceiverInv'
         /\ (UNCHANGED <<Queue, delivered>>) \/ Stream!Skip \/ Stream!Deliver
<1> USE DEF receiver, parser, wire
<1>1. /\ UNCHANGED <<line, dma, ring, w>>
      /\ RingInv /\ out \in Seq(Nat) /\ line \in Seq(Nat) /\ dma \in Seq(Nat) /\ Seen(Queue)
      /\ pc # "read" => out = <<>>
  BY DEF ReceiverInv, ParserStep, Call, Header, Length, Body, End, Read
<1>2. /\ Queue = out \o Waiting /\ Queue \in Seq(Nat) /\ Len(Queue) = Len(out) + Count
      /\ Count \in Nat /\ Len(out) \in Nat
      /\ out = <<>> => Queue = Waiting /\ \A k \in 1..Count : Queue[k] = Peek(k - 1)
  BY <1>1, QueueFacts
<1>3. Len(Queue) > LenAt => Stream!FrameLen(Queue) \in Nat /\ Stream!FrameLen(Queue) > LenAt + 1
  <2> DEFINE q == Queue
  <2>1. q \in Seq(Nat) BY <1>2
  <2> HIDE DEF q
  <2>2. Len(q) > LenAt => Stream!FrameLen(q) \in Nat /\ Stream!FrameLen(q) > LenAt + 1
    BY <2>1, LengthOfFrame
  <2> QED BY <2>2 DEF q
<1>4. ASSUME UNCHANGED <<r, out>> PROVE RingInv' /\ Queue' = Queue BY <1>1, <1>4, QueueStays
<1>5. ASSUME pc # "read", RingDrop, UNCHANGED <<out, delivered>>, Count # 0, Stream!CannotBegin(Queue)
      PROVE  RingInv' /\ Stream!Skip
  <2>1. RingInv' /\ Queue # <<>> /\ Queue' = Tail(Queue) BY <1>1, <1>5, QueueDrops
  <2> QED BY <1>5, <2>1 DEF Stream!Skip
<1>6. ASSUME Continue PROVE Seen(Queue)' /\ pc' \in {"header", "idle"} BY <1>6 DEF Continue, Seen
<1>7. pc # "read" => Len(Queue) = Count /\ \A k \in 1..Count : Queue[k] = Peek(k - 1)
  <2>1. out = <<>> => Len(out) = 0 OBVIOUS
  <2> QED BY <1>1, <1>2, <2>1
<1>8. CASE Call
  <2>1. Seen(Queue)' BY <1>8 DEF Call, Seen
  <2> QED BY <1>1, <1>4, <1>8, <2>1 DEF Call, ReceiverInv
<1>9. CASE Header
  <2>1. pc = "header" /\ out' = out /\ total' = total /\ delivered' = delivered /\ out = <<>>
    BY <1>1, <1>9 DEF Header
  <2>2. Count > LenAt => Count # 0 /\ Queue[1] = Peek(0)
    <3>1. Count > LenAt => 1 \in 1..Count /\ 1 - 1 = 0 BY <1>2, Parameters
    <3> QED BY <1>7, <2>1, <3>1, Parameters
  <2>3. CASE Count <= LenAt /\ Continue /\ UNCHANGED r
    BY <1>1, <1>4, <1>6, <2>1, <2>3 DEF ReceiverInv
  <2>4. CASE Count > LenAt /\ Peek(0) # Sof /\ RingDrop /\ Continue
    <3>1. Stream!CannotBegin(Queue) BY <2>2, <2>4 DEF Stream!CannotBegin
    <3>2. RingInv' /\ Stream!Skip BY <1>5, <2>1, <2>2, <2>4, <3>1
    <3> QED BY <1>1, <1>6, <2>1, <2>4, <3>2 DEF ReceiverInv
  <2>5. CASE Count > LenAt /\ Peek(0) = Sof /\ pc' = "length" /\ UNCHANGED r
    <3>1. RingInv' /\ Queue' = Queue BY <1>4, <2>1, <2>5
    <3>2. Seen(Queue)'
      <4>1. Len(Queue) > LenAt /\ Queue[1] = Sof BY <1>7, <2>1, <2>2, <2>5
      <4> QED BY <2>5, <3>1, <4>1 DEF Seen
    <3> QED BY <1>1, <2>1, <2>5, <3>1, <3>2 DEF ReceiverInv
  <2> QED BY <1>9, <2>3, <2>4, <2>5 DEF Header
<1>10. CASE Length
  <2>1. /\ pc = "length" /\ out' = out /\ delivered' = delivered /\ out = <<>>
        /\ Len(Queue) > LenAt /\ Queue[1] = Sof
    BY <1>1, <1>10 DEF Length, Seen
  <2>2. Count # 0 /\ Queue[LenAt + 1] = Peek(LenAt)
    <3>1. LenAt + 1 \in 1..Count /\ (LenAt + 1) - 1 = LenAt BY <1>2, <1>7, <2>1, Parameters
    <3> QED BY <1>7, <2>1, <3>1, Parameters
  <2> DEFINE n == Peek(LenAt) + Overhead
  <2>3. Stream!FrameLen(Queue) = n BY <2>2 DEF Stream!FrameLen
  <2>4. n \in Nat BY <1>3, <2>1, <2>3
  <2>5. CASE LengthOk(n) /\ pc' = "body" /\ total' = n /\ UNCHANGED r
    <3>1. RingInv' /\ Queue' = Queue BY <1>4, <2>1, <2>5
    <3>2. Seen(Queue)'
      <4>1. Stream!FrameLen(Queue)' = Stream!FrameLen(Queue) BY <3>1 DEF Stream!FrameLen
      <4>2. total' = Stream!FrameLen(Queue) /\ total' <= MaxLen BY <2>3, <2>5 DEF LengthOk
      <4> QED BY <2>1, <2>5, <3>1, <4>1, <4>2 DEF Seen
    <3> QED BY <1>1, <2>1, <2>5, <3>1, <3>2 DEF ReceiverInv
  <2>6. CASE ~LengthOk(n) /\ RingDrop /\ Continue /\ UNCHANGED total
    <3>1. Stream!CannotBegin(Queue)
      <4>1. Stream!FrameLen(Queue) > MaxLen BY <2>3, <2>4, <2>6, Parameters DEF LengthOk
      <4> QED BY <2>1, <4>1 DEF Stream!CannotBegin
    <3>2. RingInv' /\ Stream!Skip BY <1>5, <2>1, <2>2, <2>6, <3>1
    <3> QED BY <1>1, <1>6, <2>1, <2>6, <3>2 DEF ReceiverInv
  <2> QED BY <1>10, <2>5, <2>6 DEF Length
<1>11. CASE Body
  <2>1. /\ pc = "body" /\ UNCHANGED <<r, total, out, delivered>> /\ out = <<>>
        /\ Len(Queue) > LenAt /\ Queue[1] = Sof /\ total = Stream!FrameLen(Queue) /\ total <= MaxLen
    BY <1>1, <1>11 DEF Body, Seen
  <2>2. RingInv' /\ Queue' = Queue BY <1>4, <2>1
  <2>3. CASE Count < total /\ Continue BY <1>1, <1>6, <2>1, <2>2, <2>3 DEF ReceiverInv
  <2>4. CASE Count >= total /\ pc' = "eof"
    <3>1. Seen(Queue)'
      <4>1. Stream!FrameLen(Queue)' = Stream!FrameLen(Queue) BY <2>2 DEF Stream!FrameLen
      <4>2. Len(Queue) >= total BY <1>7, <2>1, <2>4
      <4> QED BY <2>1, <2>2, <2>4, <4>1, <4>2 DEF Seen
    <3> QED BY <1>1, <2>1, <2>2, <2>4, <3>1 DEF ReceiverInv
  <2> QED BY <1>11, <2>3, <2>4 DEF Body
<1>12. CASE End
  <2>1. /\ pc = "eof" /\ UNCHANGED <<total, out, delivered>> /\ out = <<>>
        /\ Len(Queue) > LenAt /\ Queue[1] = Sof /\ total = Stream!FrameLen(Queue) /\ total <= MaxLen
        /\ Len(Queue) >= total
    BY <1>1, <1>12 DEF End, Seen
  <2>2. Count # 0 /\ total \in Nat /\ total > 0 /\ Queue[total] = Peek(total - 1)
    <3>1. total \in Nat /\ total > LenAt + 1 BY <1>3, <2>1
    <3>2. total \in 1..Count BY <1>2, <1>7, <2>1, <3>1, Parameters
    <3>3. Queue[total] = Peek(total - 1) BY <1>7, <2>1, <3>2
    <3> QED BY <1>2, <3>2, <3>3
  <2>3. CASE Peek(total - 1) # Eof /\ RingDrop /\ Continue
    <3>1. Stream!CannotBegin(Queue) BY <2>1, <2>2, <2>3 DEF Stream!CannotBegin
    <3>2. RingInv' /\ Stream!Skip BY <1>5, <2>1, <2>2, <2>3, <3>1
    <3> QED BY <1>1, <1>6, <2>1, <2>3, <3>2 DEF ReceiverInv
  <2>4. CASE Peek(total - 1) = Eof /\ pc' = "read" /\ UNCHANGED r
    <3>1. RingInv' /\ Queue' = Queue BY <1>4, <2>1, <2>4
    <3>2. Seen(Queue)'
      <4>1. Stream!FrameLen(Queue)' = Stream!FrameLen(Queue) BY <3>1 DEF Stream!FrameLen
      <4>2. Len(out') < total
        <5>1. Len(<<>>) = 0 OBVIOUS
        <5> QED BY <2>1, <2>2, <5>1
      <4>3. Queue[total] = Eof BY <2>2, <2>4
      <4> QED BY <2>1, <2>4, <3>1, <4>1, <4>2, <4>3 DEF Seen
    <3> QED BY <1>1, <2>1, <2>4, <3>1, <3>2 DEF ReceiverInv
  <2> QED BY <1>12, <2>3, <2>4 DEF End
<1>13. CASE Read
  <2>1. /\ pc = "read" /\ RingDrop
        /\ Len(Queue) > LenAt /\ Queue[1] = Sof /\ total = Stream!FrameLen(Queue) /\ total <= MaxLen
        /\ Len(Queue) >= total /\ Queue[total] = Eof /\ Len(out) < total
    BY <1>1, <1>13 DEF Read, Seen
  <2>2. total \in Nat /\ Count # 0 BY <1>2, <1>3, <2>1
  <2>3. RingInv' /\ Waiting' = Tail(Waiting) /\ Waiting # <<>> /\ Head(Waiting) = Peek(0)
    BY <1>1, <2>1, <2>2, DropTakes
  <2> DEFINE x == Waiting
             f == Append(out, Peek(0))
  <2>4. x \in Seq(Nat) /\ x # <<>> /\ Head(x) = Peek(0) BY <1>1, <2>3, WaitingFacts
  <2> HIDE DEF x
  <2>5. f \in Seq(Nat) /\ Len(f) = Len(out) + 1 /\ f \o Tail(x) = out \o x BY <1>1, <2>4, MoveFirst
  <2>6. Tail(x) \in Seq(Nat) BY <2>4, HeadTailProperties
  <2>7. Queue = f \o Tail(x) BY <1>2, <2>5 DEF x
  <2>8. Queue' = out' \o Tail(x) BY <2>3 DEF Queue, Waiting, x
  <2> HIDE DEF f
  <2>9. CASE Len(f) < total /\ out' = f /\ UNCHANGED <<pc, total, delivered>>
    <3>1. Queue' = Queue BY <2>7, <2>8, <2>9
    <3>2. Seen(Queue)'
      <4>1. Stream!FrameLen(Queue)' = Stream!FrameLen(Queue) BY <3>1 DEF Stream!FrameLen
      <4> QED BY <2>1, <2>9, <3>1, <4>1 DEF Seen
    <3> QED BY <1>1, <2>1, <2>3, <2>5, <2>9, <3>1, <3>2 DEF ReceiverInv
  <2>10. CASE Len(f) = total /\ delivered' = Append(delivered, f) /\ pc' = "idle" /\ out' = <<>> /\ total' = 0
    <3>1. Queue' = Tail(x) BY <2>6, <2>8, <2>10, ConcatEmptySeq
    <3>2. SubSeq(Queue, 1, total) = f /\ SubSeq(Queue, total + 1, Len(Queue)) = Tail(x)
      <4> DEFINE t == Tail(x)
      <4> HIDE DEF t
      <4>1. t \in Seq(Nat) /\ Queue = f \o t BY <2>6, <2>7 DEF t
      <4>2. SubSeq(f \o t, 1, Len(f)) = f /\ SubSeq(f \o t, Len(f) + 1, Len(f \o t)) = t
        BY <2>5, <4>1, SplitAt
      <4> QED BY <2>10, <4>1, <4>2 DEF t
    <3>3. Stream!Framed(Queue) BY <2>1 DEF Stream!Framed
    <3>4. Stream!Deliver BY <2>1, <2>10, <3>1, <3>2, <3>3 DEF Stream!Deliver
    <3>5. Seen(Queue)' BY <2>10 DEF Seen
    <3> QED BY <1>1, <2>3, <2>10, <3>4, <3>5 DEF ReceiverInv
  <2> QED BY <1>13, <2>9, <2>10 DEF Read, f
<1> QED BY <1>8, <1>9, <1>10, <1>11, <1>12, <1>13 DEF ParserStep

\* Reception starts with nothing taken and nothing delivered.
LEMMA ReceiverStarts ==
  ASSUME Init
  PROVE  ReceiverInv /\ Stream!StreamInit
<1>1. /\ w = 0 /\ r = 0 /\ ring = [i \in 0..(RingSize - 1) |-> 0]
      /\ out = <<>> /\ line = <<>> /\ dma = <<>> /\ pc = "idle" /\ delivered = <<>>
  BY DEF Init
<1>2. Count = 0
  <2>1. 0 \in 0..(CounterSpace - 1) /\ 0 \in Nat /\ 0 < CounterSpace /\ 0 = 0 + 0 BY Parameters
  <2>2. (0 + CounterSpace - 0) % CounterSpace = 0 BY ONLY <2>1, CountIs
  <2> QED BY <1>1, <2>2 DEF Count
<1>3. RingInv BY <1>1, <1>2, Parameters DEF RingInv
<1>4. out \in Seq(Nat) /\ line \in Seq(Nat) /\ dma \in Seq(Nat) BY <1>1
<1>5. Queue = <<>>
  <2> DEFINE q == Queue
  <2>1. q \in Seq(Nat) /\ Len(q) = 0
    <3>1. Queue \in Seq(Nat) /\ Len(Queue) = Len(out) + Count BY <1>3, <1>4, QueueFacts
    <3>2. Len(<<>>) = 0 OBVIOUS
    <3> QED BY <1>1, <1>2, <3>1, <3>2
  <2> HIDE DEF q
  <2>2. q = <<>> BY <2>1
  <2> QED BY <2>2 DEF q
<1>6. Seen(Queue) BY <1>1 DEF Seen
<1> QED BY <1>1, <1>3, <1>4, <1>5, <1>6 DEF ReceiverInv, Stream!StreamInit

\* Every step of the receiver is a step of the stream or none.
LEMMA ReceiverStep ==
  ASSUME ReceiverInv, [Next]_vars
  PROVE  ReceiverInv' /\ [Stream!StreamNext]_(Stream!streamVars)
<1>1. CASE (\E m \in Messages : Send(m)) \/ Receive \/ OnRxEvent \/ OnError
  <2>1. /\ ReceiverInv' /\ delivered' = delivered
        /\ \/ Queue' = Queue
           \/ Queue' = Queue \o dma /\ dma # <<>>
    BY <1>1, InterruptRefines
  <2>2. CASE Queue' = Queue BY <2>1, <2>2 DEF Stream!streamVars
  <2>3. CASE Queue' = Queue \o dma /\ dma # <<>>
    <3> DEFINE q == Queue
    <3>1. q \in Seq(Nat) /\ dma \in Seq(Nat) BY QueueFacts DEF ReceiverInv
    <3> HIDE DEF q
    <3>2. Len(q \o dma) = Len(q) + Len(dma) /\ Len(q) \in Nat /\ Len(dma) \in Nat \ {0}
      BY <2>3, <3>1, ConcatProperties, EmptySeq
    <3>3. SubSeq(q \o dma, 1, Len(q)) = q BY <3>1, SplitAt
    <3>4. Queue' = q \o dma /\ Queue = q BY <2>3 DEF q
    <3>5. Len(Queue') > Len(Queue) /\ SubSeq(Queue', 1, Len(Queue)) = Queue BY <3>2, <3>3, <3>4
    <3> QED BY <2>1, <3>5 DEF Stream!StreamNext, Stream!Arrive
  <2> QED BY <2>1, <2>2, <2>3
<1>2. CASE ParserStep
  BY <1>2, ParserRefines DEF Stream!StreamNext, Stream!streamVars
<1>3. CASE UNCHANGED vars
  <2>1. UNCHANGED <<ring, w, r, out, line, dma, pc, total, delivered>> BY <1>3 DEF vars
  <2>2. RingInv' /\ Queue' = Queue BY <2>1, QueueStays DEF ReceiverInv
  <2>3. Seen(Queue)' <=> Seen(Queue) BY <2>1, <2>2 DEF Seen, Stream!FrameLen
  <2> QED BY <2>1, <2>2, <2>3 DEF ReceiverInv, Stream!streamVars
<1> QED BY <1>1, <1>2, <1>3 DEF Next

\* Chunks are copied whole, frames are never torn by the interrupt or by the counters
\* that wrap, and no byte at which a frame may begin is dropped (bld_transport_uart_dma.c).
THEOREM ReceiverIsAFrameStream == Spec => ImplementsFrameStream
<1>1. Init => ReceiverInv /\ Stream!StreamInit BY ReceiverStarts
<1>2. ReceiverInv /\ [Next]_vars => ReceiverInv' /\ [Stream!StreamNext]_(Stream!streamVars)
  BY ReceiverStep
<1> QED BY <1>1, <1>2, PTL DEF Spec, ImplementsFrameStream, Stream!StreamSpec

-----------------------------------------------------------------------------
(* Order: as long as nothing is lost, what is on its way are the messages   *)
(* that are not yet delivered                                               *)

\* The bytes q are the messages S[n + 1], ..., S[Len(S)], one after the other; cut[i] of
\* them come before S[i + 1].
Splits(q, cut, n, S) ==
  /\ n \in 0..Len(S) /\ cut \in [0..Len(S) -> Nat]
  /\ cut[n] = 0 /\ cut[Len(S)] = Len(q)
  /\ \A i, j \in n..Len(S) : i <= j => cut[i] <= cut[j]
  /\ \A i \in n..(Len(S) - 1) :
       /\ cut[i + 1] = cut[i] + Len(S[i + 1])
       /\ \A j \in 1..Len(S[i + 1]) : q[cut[i] + j] = S[i + 1][j]

\* Another message is sent.
LEMMA SplitsSend ==
  ASSUME NEW q \in Seq(Nat), NEW S \in Seq(Seq(Nat)), NEW cut, NEW n, Splits(q, cut, n, S),
         NEW m \in Seq(Nat)
  PROVE  \E c : Splits(q \o m, c, n, Append(S, m))
<1> DEFINE k == Len(S)
           x == q \o m
           T == Append(S, m)
           c == [i \in 0..(k + 1) |-> IF i <= k THEN cut[i] ELSE Len(q) + Len(m)]
<1>1. /\ k \in Nat /\ n \in 0..k /\ cut \in [0..k -> Nat] /\ cut[n] = 0 /\ cut[k] = Len(q)
      /\ Len(q) \in Nat /\ Len(m) \in Nat
      /\ \A i, j \in n..k : i <= j => cut[i] <= cut[j]
      /\ \A i \in n..(k - 1) :
           /\ cut[i + 1] = cut[i] + Len(S[i + 1])
           /\ \A j \in 1..Len(S[i + 1]) : q[cut[i] + j] = S[i + 1][j]
      /\ \A i \in 1..k : S[i] \in Seq(Nat)
  BY DEF Splits
<1>2. /\ Len(x) = Len(q) + Len(m)
      /\ \A i \in 1..(Len(q) + Len(m)) : x[i] = IF i <= Len(q) THEN q[i] ELSE m[i - Len(q)]
  BY ConcatProperties
<1>3. Len(T) = k + 1 /\ T[k + 1] = m /\ \A i \in 1..k : T[i] = S[i] BY AppendProperties
<1> HIDE DEF x, T, k
<1>4. /\ c \in [0..(k + 1) -> Nat] /\ c[k + 1] = Len(x) /\ \A i \in 0..k : c[i] = cut[i]
  BY <1>1, <1>2
<1> HIDE DEF c
<1>5. ASSUME NEW i \in n..k PROVE cut[i] <= Len(q) /\ cut[i] \in Nat
  <2>1. k \in n..k /\ i <= k /\ i \in 0..k BY <1>1
  <2>2. cut[i] <= cut[k] BY <1>1, <2>1
  <2> QED BY <1>1, <2>1, <2>2
<1>6. \A i, j \in n..(k + 1) : i <= j => c[i] <= c[j]
  <2> TAKE i, j \in n..(k + 1)
  <2> HAVE i <= j
  <2>1. CASE j <= k
    <3>1. i \in n..k /\ j \in n..k BY <1>1, <2>1
    <3> QED BY <1>1, <1>4, <3>1
  <2>2. CASE j = k + 1 /\ i <= k
    <3>1. i \in n..k BY <1>1, <2>2
    <3> QED BY <1>1, <1>2, <1>4, <1>5, <2>2, <3>1
  <2>3. CASE i = k + 1 /\ j = k + 1 BY <1>1, <1>2, <1>4, <2>3
  <2> QED BY <1>1, <2>1, <2>2, <2>3
<1>7. \A i \in n..((k + 1) - 1) :
        /\ c[i + 1] = c[i] + Len(T[i + 1])
        /\ \A j \in 1..Len(T[i + 1]) : x[c[i] + j] = T[i + 1][j]
  <2> TAKE i \in n..((k + 1) - 1)
  <2>1. CASE i < k
    <3>1. i \in n..(k - 1) /\ i \in n..k /\ i + 1 \in n..k /\ i + 1 \in 1..k BY <1>1, <2>1
    <3>2. /\ c[i] = cut[i] /\ c[i + 1] = cut[i + 1] /\ T[i + 1] = S[i + 1]
          /\ cut[i + 1] = cut[i] + Len(S[i + 1]) /\ Len(S[i + 1]) \in Nat
      BY <1>1, <1>3, <1>4, <3>1
    <3>3. ASSUME NEW j \in 1..Len(S[i + 1]) PROVE x[cut[i] + j] = S[i + 1][j]
      <4>1. cut[i] + j <= Len(q) /\ cut[i] + j \in 1..(Len(q) + Len(m))
        <5>1. cut[i + 1] <= Len(q) /\ cut[i] \in Nat /\ Len(S[i + 1]) \in Nat BY <1>5, <3>1, <3>2
        <5>2. cut[i] + Len(S[i + 1]) <= Len(q) BY <3>2, <5>1
        <5>3. j \in 1..Len(S[i + 1]) /\ Len(q) \in Nat /\ Len(m) \in Nat BY <1>1, <3>3
        <5> DEFINE l == Len(S[i + 1])
                   a == cut[i]
                   u == Len(q)
                   v == Len(m)
        <5>4. a \in Nat /\ l \in Nat /\ u \in Nat /\ v \in Nat /\ a + l <= u /\ j \in 1..l
          BY ONLY <5>1, <5>2, <5>3
        <5> HIDE DEF l, a, u, v
        <5>5. a + j <= u /\ a + j \in 1..(u + v) BY ONLY <5>4
        <5> QED BY <5>5 DEF a, u, v
      <4>2. q[cut[i] + j] = S[i + 1][j] BY <1>1, <3>1
      <4> QED BY <1>2, <4>1, <4>2
    <3> QED BY <3>2, <3>3
  <2>2. CASE i = k
    <3>1. c[i] = Len(q) /\ c[i + 1] = Len(q) + Len(m) /\ T[i + 1] = m BY <1>1, <1>2, <1>3, <1>4, <2>2
    <3>2. ASSUME NEW j \in 1..Len(m) PROVE x[Len(q) + j] = m[j]
      <4>1. Len(q) + j \in 1..(Len(q) + Len(m)) /\ ~(Len(q) + j <= Len(q)) /\ (Len(q) + j) - Len(q) = j
        BY <1>1
      <4> QED BY <1>2, <4>1
    <3> QED BY <3>1, <3>2
  <2> QED BY <1>1, <2>1, <2>2
<1>8. n \in 0..(k + 1) /\ c[n] = 0 BY <1>1, <1>4
<1>9. Splits(x, c, n, T) BY <1>3, <1>4, <1>6, <1>7, <1>8 DEF Splits
<1> QED BY <1>9 DEF x, T

\* The first message is delivered.
LEMMA SplitsDeliver ==
  ASSUME NEW f \in Seq(Nat), NEW x \in Seq(Nat), NEW S \in Seq(Seq(Nat)), NEW cut, NEW n,
         Splits(f \o x, cut, n, S), n < Len(S), Len(f) = Len(S[n + 1])
  PROVE  \E c : Splits(x, c, n + 1, S)
<1> DEFINE k == Len(S)
           q == f \o x
           z == Len(f)
           c == [i \in 0..k |-> IF i <= n THEN 0 ELSE cut[i] - z]
<1>0. Splits(q, cut, n, S) OBVIOUS
<1>1. /\ k \in Nat /\ n \in 0..k /\ n < k /\ cut \in [0..k -> Nat] /\ cut[n] = 0 /\ cut[k] = Len(q)
      /\ \A i, j \in n..k : i <= j => cut[i] <= cut[j]
      /\ \A i \in n..(k - 1) :
           /\ cut[i + 1] = cut[i] + Len(S[i + 1])
           /\ \A j \in 1..Len(S[i + 1]) : q[cut[i] + j] = S[i + 1][j]
      /\ \A i \in 1..k : S[i] \in Seq(Nat)
  <2> HIDE DEF q, z
  <2> QED BY <1>0 DEF Splits
<1>2. /\ Len(q) = z + Len(x) /\ z \in Nat /\ Len(x) \in Nat
      /\ \A i \in 1..(z + Len(x)) : q[i] = IF i <= z THEN f[i] ELSE x[i - z]
  <2> HIDE DEF k
  <2>1. f \in Seq(Nat) /\ x \in Seq(Nat) OBVIOUS
  <2> QED BY ONLY <2>1, ConcatProperties
<1>3. cut[n + 1] = z
  <2>1. n \in n..(k - 1) BY <1>1
  <2>2. cut[n + 1] = cut[n] + Len(S[n + 1]) BY <1>1, <2>1
  <2>3. Len(S[n + 1]) = z /\ cut[n] = 0 /\ z \in Nat BY <1>1, <1>2
  <2> QED BY ONLY <2>2, <2>3
<1> HIDE DEF k, q, z
<1>4. \A i \in (n + 1)..k : cut[i] \in Nat /\ z <= cut[i] /\ cut[i] <= Len(q)
  <2> TAKE i \in (n + 1)..k
  <2>1. n + 1 \in n..k /\ i \in n..k /\ k \in n..k /\ n + 1 <= i /\ i <= k BY <1>1
  <2> QED BY <1>1, <1>3, <2>1
<1>5. c \in [0..k -> Nat] /\ \A i \in (n + 1)..k : c[i] = cut[i] - z
  <2>1. ASSUME NEW i \in 0..k PROVE (IF i <= n THEN 0 ELSE cut[i] - z) \in Nat
    <3>1. CASE i <= n BY <3>1
    <3>2. CASE ~(i <= n)
      <4>1. i \in (n + 1)..k BY <1>1, <3>2
      <4> QED BY <1>2, <1>4, <3>2, <4>1
    <3> QED BY <3>1, <3>2
  <2> QED BY <1>1, <2>1
<1> HIDE DEF c
<1>6. c[n + 1] = 0 /\ c[k] = Len(x) /\ n + 1 \in 0..k
  <2>1. n + 1 \in (n + 1)..k /\ k \in (n + 1)..k BY <1>1
  <2> QED BY <1>1, <1>2, <1>3, <1>5, <2>1
<1>7. \A i, j \in (n + 1)..k : i <= j => c[i] <= c[j]
  <2> TAKE i, j \in (n + 1)..k
  <2> HAVE i <= j
  <2>4. i \in (n + 1)..k /\ j \in (n + 1)..k /\ n \in Nat /\ k \in Nat BY <1>1
  <2>1. i \in n..k /\ j \in n..k BY ONLY <2>4
  <2>2. cut[i] <= cut[j] /\ cut[i] \in Nat /\ cut[j] \in Nat BY <1>1, <1>4, <2>1
  <2>3. c[i] = cut[i] - z /\ c[j] = cut[j] - z BY <1>5
  <2> QED BY <1>2, <2>2, <2>3
<1>8. \A i \in (n + 1)..(k - 1) :
        /\ c[i + 1] = c[i] + Len(S[i + 1])
        /\ \A j \in 1..Len(S[i + 1]) : x[c[i] + j] = S[i + 1][j]
  <2> TAKE i \in (n + 1)..(k - 1)
  <2>1. i \in n..(k - 1) /\ i \in (n + 1)..k /\ i + 1 \in (n + 1)..k /\ i + 1 \in 1..k BY <1>1
  <2>2. /\ c[i] = cut[i] - z /\ c[i + 1] = cut[i + 1] - z /\ Len(S[i + 1]) \in Nat
        /\ cut[i + 1] = cut[i] + Len(S[i + 1])
        /\ cut[i] \in Nat /\ z <= cut[i] /\ cut[i + 1] \in Nat /\ cut[i + 1] <= Len(q)
    <3>1. c[i] = cut[i] - z /\ c[i + 1] = cut[i + 1] - z BY <1>5, <2>1
    <3>2. cut[i + 1] = cut[i] + Len(S[i + 1]) BY <1>1, <2>1
    <3>4. Len(S[i + 1]) \in Nat
      <4>1. S[i + 1] \in Seq(Nat) BY <1>1, <2>1
      <4> QED BY ONLY <4>1
    <3>3. cut[i] \in Nat /\ z <= cut[i] /\ cut[i + 1] \in Nat /\ cut[i + 1] <= Len(q) BY <1>4, <2>1
    <3> QED BY <3>1, <3>2, <3>3, <3>4
  <2>3. ASSUME NEW j \in 1..Len(S[i + 1]) PROVE x[c[i] + j] = S[i + 1][j]
    <3>1. /\ cut[i] + j \in 1..(z + Len(x)) /\ ~(cut[i] + j <= z) /\ (cut[i] + j) - z = c[i] + j
      <4>1. j \in 1..Len(S[i + 1]) /\ z \in Nat /\ Len(x) \in Nat /\ Len(q) = z + Len(x) BY <1>2, <2>3
      <4> DEFINE l == Len(S[i + 1])
                 a == cut[i]
                 b == cut[i + 1]
                 y == Len(x)
                 d == c[i]
      <4>2. /\ a \in Nat /\ l \in Nat /\ z \in Nat /\ y \in Nat /\ b = a + l /\ b <= z + y
            /\ j \in 1..l /\ z <= a /\ d = a - z
        BY ONLY <2>2, <4>1
      <4> HIDE DEF l, a, b, y, d
      <4>3. a + j \in 1..(z + y) /\ ~(a + j <= z) /\ (a + j) - z = d + j BY ONLY <4>2
      <4> QED BY <4>3 DEF a, y, d
    <3>2. q[cut[i] + j] = S[i + 1][j] BY <1>1, <2>1
    <3> QED BY <1>2, <3>1, <3>2
  <2> QED BY <1>2, <2>2, <2>3
<1>9. Splits(x, c, n + 1, S) BY <1>5, <1>6, <1>7, <1>8 DEF Splits, k
<1> QED BY <1>9

\* The frame at the front is the next message.
LEMMA FrontIsMessage ==
  ASSUME NEW q \in Seq(Nat), NEW t \in Seq(Nat), NEW S \in Seq(Messages), NEW cut, NEW n,
         Splits(q \o t, cut, n, S), q # <<>>
  PROVE  /\ n \in Nat /\ n < Len(S) /\ ~Stream!CannotBegin(q)
         /\ Stream!Framed(q) => /\ Stream!FrameLen(q) = Len(S[n + 1])
                                /\ SubSeq(q, 1, Stream!FrameLen(q)) = S[n + 1]
<1> DEFINE x == q \o t
           k == Len(S)
           m == S[n + 1]
<1>1. Splits(x, cut, n, S) OBVIOUS
<1>2. /\ Len(x) = Len(q) + Len(t) /\ Len(t) \in Nat /\ Len(q) \in Nat \ {0}
      /\ \A i \in 1..(Len(q) + Len(t)) : x[i] = IF i <= Len(q) THEN q[i] ELSE t[i - Len(q)]
  <2>1. Len(q) # 0 BY EmptySeq
  <2>2. q \in Seq(Nat) /\ t \in Seq(Nat) OBVIOUS
  <2> HIDE DEF k, m
  <2> QED BY ONLY <2>1, <2>2, ConcatProperties
<1> HIDE DEF x
<1>3. /\ k \in Nat /\ n \in 0..k /\ cut \in [0..k -> Nat] /\ cut[n] = 0 /\ cut[k] = Len(x)
      /\ \A i, j \in n..k : i <= j => cut[i] <= cut[j]
      /\ \A i \in n..(k - 1) :
           /\ cut[i + 1] = cut[i] + Len(S[i + 1])
           /\ \A j \in 1..Len(S[i + 1]) : x[cut[i] + j] = S[i + 1][j]
  BY <1>1 DEF Splits
<1>4. n \in Nat /\ n < k BY <1>2, <1>3
<1>5. /\ m \in Messages /\ m \in Seq(Nat) /\ Len(m) \in Nat
      /\ Len(m) = m[LenAt + 1] + Overhead /\ Overhead <= Len(m) /\ Len(m) <= MaxLen
      /\ m[1] = Sof /\ m[Len(m)] = Eof
  <2>1. m \in Messages BY <1>3, <1>4
  <2> HIDE DEF m, k
  <2>2. m \in Seq(Nat) BY <2>1, UartAssumption
  <2>3. /\ Len(m) = m[LenAt + 1] + Overhead /\ Len(m) \in Overhead..MaxLen
        /\ m[1] = Sof /\ m[Len(m)] = Eof
    BY <2>1, UartAssumption
  <2> QED BY <2>1, <2>2, <2>3, Parameters
<1>6. \A j \in 1..Len(m) : x[j] = m[j]
  <2>1. n \in n..(k - 1) BY <1>3, <1>4
  <2>2. \A j \in 1..Len(m) : x[0 + j] = m[j] BY <1>3, <2>1
  <2>3. \A j \in 1..Len(m) : 0 + j = j BY <1>5
  <2> QED BY <2>2, <2>3
<1> HIDE DEF k, m
<1>7. \A j \in 1..Len(m) : j <= Len(q) => q[j] = m[j]
  <2> TAKE j \in 1..Len(m)
  <2> HAVE j <= Len(q)
  <2>1. j \in 1..(Len(q) + Len(t)) BY <1>2, <1>5
  <2> QED BY <1>2, <1>6, <2>1
<1>l. Len(m) \in Nat /\ LenAt \in Nat /\ LenAt + 1 < Len(m)
  <2> DEFINE a == Len(m)
  <2>1. a \in Overhead..MaxLen BY <1>5
  <2> HIDE DEF a
  <2>2. a \in Nat /\ LenAt \in Nat /\ LenAt + 1 < a BY <2>1, Parameters
  <2> QED BY <2>2 DEF a
<1>q. Len(q) \in Nat \ {0} BY <1>2
<1>8. q[1] = Sof
  <2>1. 1 \in 1..Len(m) /\ 1 <= Len(q) BY <1>l, <1>q
  <2> QED BY <1>5, <1>7, <2>1
<1>9. Len(q) > LenAt => Stream!FrameLen(q) = Len(m)
  <2>1. LenAt + 1 \in 1..Len(m) /\ (Len(q) > LenAt => LenAt + 1 <= Len(q)) BY <1>l, <1>q
  <2>2. Len(q) > LenAt => q[LenAt + 1] = m[LenAt + 1] BY <1>7, <2>1
  <2> QED BY <1>5, <2>2 DEF Stream!FrameLen
<1>10. Len(q) >= Len(m) => q[Len(m)] = Eof
  <2>1. Len(m) \in 1..Len(m) BY <1>l
  <2> QED BY <1>2, <1>5, <1>7, <2>1
<1>11. ~Stream!CannotBegin(q)
  <2>1. ~(Len(m) > MaxLen) BY <1>5, Parameters
  <2> QED BY <1>8, <1>9, <1>10, <2>1 DEF Stream!CannotBegin
<1>12. ASSUME Stream!Framed(q) PROVE Stream!FrameLen(q) = Len(m) /\ SubSeq(q, 1, Stream!FrameLen(q)) = m
  <2>1. Stream!FrameLen(q) = Len(m) /\ Len(q) >= Len(m) BY <1>9, <1>12 DEF Stream!Framed
  <2> DEFINE f == SubSeq(q, 1, Len(m))
  <2>2. \A j \in 1..Len(m) : q[j] \in Nat /\ q[j] = m[j]
    <3> TAKE j \in 1..Len(m)
    <3>1. j \in 1..Len(q) BY <1>l, <1>q, <2>1
    <3> QED BY <1>l, <1>7, <2>1, <3>1
  <2>3. f \in Seq(Nat) /\ Len(f) = Len(m) /\ \A j \in 1..Len(m) : f[j] = q[j]
    BY <1>5, <2>2, SubSeqProperties
  <2> HIDE DEF f
  <2>4. f = m BY <1>5, <2>2, <2>3, SeqEqual
  <2> QED BY <2>1, <2>4 DEF f
<1> QED BY <1>4, <1>11, <1>12 DEF k, m

\* A sequence is its front and what comes after it.
LEMMA Rejoin ==
  ASSUME NEW q \in Seq(Nat), NEW l \in 0..Len(q)
  PROVE  /\ q = SubSeq(q, 1, l) \o SubSeq(q, l + 1, Len(q))
         /\ SubSeq(q, l + 1, Len(q)) \in Seq(Nat)
<1> DEFINE z == Len(q)
           h == l + 1
<1>1. z \in Nat /\ l \in Nat /\ l <= z /\ \A i \in 1..z : q[i] \in Nat OBVIOUS
<1>2. 1 \in 1..(z + 1) /\ l \in (1 - 1)..z /\ z \in l..z BY <1>1
<1>3. SubSeq(q, 1, l) \o SubSeq(q, h, z) = SubSeq(q, 1, z)
  <2> HIDE DEF z
  <2>1. SubSeq(q, 1, l) \o SubSeq(q, l + 1, z) = SubSeq(q, 1, z) BY <1>2, ConcatAdjacentSubSeq DEF z
  <2> QED BY <2>1
<1>4. SubSeq(q, 1, z) = q BY SubSeqFull
<1>5. h \in Int /\ z \in Int /\ \A i \in h..z : q[i] \in Nat BY <1>1
<1> HIDE DEF z, h
<1>6. SubSeq(q, h, z) \in Seq(Nat) BY <1>5, SubSeqProperties
<1> QED BY <1>3, <1>4, <1>6 DEF z, h

\* The bytes on their way from the host to the engine, the next one first.
OnTheWay == Queue \o (dma \o line)

InSequence ==
  /\ delivered \in Seq(Messages) /\ \A i \in 1..Len(delivered) : delivered[i] = sent[i]
  /\ \E cut : Splits(OnTheWay, cut, Len(delivered), sent)

OrderInv ==
  /\ ReceiverInv
  /\ lost \in BOOLEAN /\ (lost \/ armed = TRUE) /\ sent \in Seq(Messages)
  /\ ~lost => InSequence

LEMMA WayFacts ==
  ASSUME ReceiverInv
  PROVE  /\ Queue \in Seq(Nat) /\ dma \in Seq(Nat) /\ line \in Seq(Nat)
         /\ dma \o line \in Seq(Nat) /\ OnTheWay \in Seq(Nat)
<1> DEFINE q == Queue
<1>1. q \in Seq(Nat) /\ dma \in Seq(Nat) /\ line \in Seq(Nat) BY QueueFacts DEF ReceiverInv
<1> HIDE DEF q
<1>2. dma \o line \in Seq(Nat) BY <1>1, ConcatProperties
<1>3. q \o (dma \o line) \in Seq(Nat) BY <1>1, <1>2, ConcatProperties
<1> QED BY <1>1, <1>2, <1>3 DEF q, OnTheWay

\* Messages are sequences of bytes.
LEMMA MessagesAreBytes ==
  ASSUME NEW S \in Seq(Messages)
  PROVE  S \in Seq(Seq(Nat))
<1>1. Messages \subseteq Seq(Nat) BY UartAssumption
<1> QED BY <1>1

LEMMA SendInSequence ==
  ASSUME OrderInv, InSequence, NEW m \in Messages, Send(m), Queue' = Queue
  PROVE  InSequence'
<1>1. /\ line = <<>> /\ line' = m /\ dma' = dma /\ sent' = Append(sent, m) /\ delivered' = delivered
      /\ sent \in Seq(Messages)
  BY DEF Send, receiver, parser, OrderInv
<1>2. m \in Seq(Nat) BY UartAssumption
<1>3. OnTheWay' = OnTheWay \o m
  <2> DEFINE q == Queue
  <2>1. q \in Seq(Nat) /\ dma \in Seq(Nat) BY WayFacts DEF OrderInv
  <2>2. OnTheWay = q \o (dma \o <<>>) /\ OnTheWay' = q \o (dma \o m) BY <1>1 DEF OnTheWay
  <2> HIDE DEF q
  <2>3. dma \o <<>> = dma BY <2>1, ConcatEmptySeq
  <2>4. (q \o dma) \o m = q \o (dma \o m)
    <3>1. q \in Seq(Nat) /\ dma \in Seq(Nat) /\ m \in Seq(Nat) BY <1>2, <2>1
    <3> QED BY ONLY <3>1, BytesAssociate
  <2> QED BY <2>2, <2>3, <2>4
<1>4. PICK cut : Splits(OnTheWay, cut, Len(delivered), sent) BY DEF InSequence
<1>5. \E c : Splits(OnTheWay \o m, c, Len(delivered), Append(sent, m))
  <2> DEFINE q == OnTheWay
             n == Len(delivered)
  <2>1. q \in Seq(Nat) /\ sent \in Seq(Seq(Nat)) /\ Splits(q, cut, n, sent)
    BY <1>1, <1>4, WayFacts, MessagesAreBytes DEF OrderInv
  <2> HIDE DEF q, n
  <2>2. \E c : Splits(q \o m, c, n, Append(sent, m)) BY <1>2, <2>1, SplitsSend
  <2> QED BY <2>2 DEF q, n
<1>6. \A i \in 1..Len(delivered) : delivered[i] = Append(sent, m)[i]
  <2>1. Len(delivered) \in 0..Len(sent) BY <1>4 DEF Splits
  <2>2. \A i \in 1..Len(sent) : Append(sent, m)[i] = sent[i] BY <1>1, AppendProperties
  <2>3. Len(sent) \in Nat BY <1>1
  <2>4. \A i \in 1..Len(delivered) : i \in 1..Len(sent) BY <2>1, <2>3
  <2> QED BY <2>2, <2>4 DEF InSequence
<1>7. Splits(OnTheWay, cut, Len(delivered), sent)' <=> Splits(OnTheWay', cut, Len(delivered'), sent')
  BY DEF Splits
<1>8. \E c : Splits(OnTheWay', c, Len(delivered'), sent') BY <1>1, <1>3, <1>5
<1>9. (\E c : Splits(OnTheWay, c, Len(delivered), sent))' BY <1>8 DEF Splits
<1> QED BY <1>1, <1>6, <1>9 DEF InSequence

LEMMA DeliverInSequence ==
  ASSUME OrderInv, InSequence, Stream!Deliver, UNCHANGED <<sent, dma, line>>
  PROVE  InSequence'
<1> DEFINE q == Queue
           t == dma \o line
           n == Len(delivered)
           m == sent[n + 1]
           x == Queue'
<1>1. q \in Seq(Nat) /\ t \in Seq(Nat) /\ sent \in Seq(Messages) /\ sent \in Seq(Seq(Nat))
  BY WayFacts, MessagesAreBytes DEF OrderInv
<1>2. PICK cut : Splits(q \o t, cut, n, sent) BY DEF InSequence, OnTheWay
<1>3. /\ Stream!Framed(q) /\ delivered' = Append(delivered, SubSeq(q, 1, Stream!FrameLen(q)))
      /\ x = SubSeq(q, Stream!FrameLen(q) + 1, Len(q))
  BY DEF Stream!Deliver
<1>4. OnTheWay' = x \o t BY DEF OnTheWay
<1> HIDE DEF q, t, x
<1>5. q # <<>>
  <2>1. Len(q) > LenAt BY <1>3 DEF Stream!Framed
  <2>2. Len(<<>>) = 0 OBVIOUS
  <2> QED BY <2>1, <2>2, Parameters
<1>6. /\ n \in Nat /\ n < Len(sent) /\ Stream!FrameLen(q) = Len(m)
      /\ SubSeq(q, 1, Stream!FrameLen(q)) = m
  <2> HIDE DEF n, m
  <2>1. /\ n \in Nat /\ n < Len(sent)
        /\ Stream!FrameLen(q) = Len(sent[n + 1]) /\ SubSeq(q, 1, Stream!FrameLen(q)) = sent[n + 1]
    <3>1. /\ q \in Seq(Nat) /\ t \in Seq(Nat) /\ sent \in Seq(Messages)
          /\ Splits(q \o t, cut, n, sent) /\ q # <<>>
      BY <1>1, <1>2, <1>5
    <3> QED BY ONLY <3>1, <1>3, FrontIsMessage
  <2> QED BY <2>1 DEF m
<1>7. m \in Messages /\ m \in Seq(Nat) /\ Len(m) \in Nat
  <2>1. n + 1 \in 1..Len(sent) BY <1>1, <1>6
  <2>2. m \in Messages BY <1>1, <2>1
  <2> QED BY <2>2, UartAssumption
<1>8. q = m \o x /\ x \in Seq(Nat)
  <2>1. Len(q) >= Len(m) BY <1>3, <1>6 DEF Stream!Framed
  <2> DEFINE l == Len(m)
  <2>2. l \in 0..Len(q) /\ m = SubSeq(q, 1, l) /\ x = SubSeq(q, l + 1, Len(q))
    BY <1>1, <1>3, <1>6, <1>7, <2>1
  <2> HIDE DEF l, m
  <2>3. /\ q = SubSeq(q, 1, l) \o SubSeq(q, l + 1, Len(q))
        /\ SubSeq(q, l + 1, Len(q)) \in Seq(Nat)
    BY <1>1, <2>2, Rejoin
  <2> QED BY <2>2, <2>3
<1>9. q \o t = m \o (x \o t)
  <2>2. m \in Seq(Nat) /\ x \in Seq(Nat) /\ t \in Seq(Nat) BY <1>1, <1>7, <1>8
  <2> HIDE DEF m
  <2>1. (m \o x) \o t = m \o (x \o t) BY ONLY <2>2, BytesAssociate
  <2> QED BY <1>8, <2>1
<1>10. \E c : Splits(x \o t, c, n + 1, sent)
  <2> DEFINE y == x \o t
  <2>1. y \in Seq(Nat) BY <1>1, <1>8, ConcatProperties
  <2>2. Splits(m \o y, cut, n, sent) BY <1>2, <1>9
  <2> HIDE DEF m, n, y
  <2>3. Len(m) = Len(sent[n + 1]) BY DEF m
  <2>4. \E c : Splits(y, c, n + 1, sent) BY <1>1, <1>6, <1>7, <2>1, <2>2, <2>3, SplitsDeliver
  <2> QED BY <2>4 DEF y
<1>11. /\ delivered' \in Seq(Messages) /\ Len(delivered') = n + 1
       /\ \A i \in 1..(n + 1) : delivered'[i] = sent[i]
  <2>1. delivered \in Seq(Messages) /\ (\A i \in 1..n : delivered[i] = sent[i]) BY DEF InSequence
  <2>2. delivered' = Append(delivered, m) BY <1>3, <1>6
  <2> HIDE DEF m
  <2>3. /\ Append(delivered, m) \in Seq(Messages) /\ Len(Append(delivered, m)) = n + 1
        /\ Append(delivered, m)[n + 1] = m /\ \A i \in 1..n : Append(delivered, m)[i] = delivered[i]
    BY <1>7, <2>1, AppendProperties
  <2>4. \A i \in 1..(n + 1) : i \in 1..n \/ i = n + 1 BY <1>6
  <2>5. \A i \in 1..(n + 1) : Append(delivered, m)[i] = sent[i]
    BY <2>1, <2>3, <2>4 DEF m
  <2> QED BY <2>2, <2>3, <2>5
<1>12. (\E c : Splits(OnTheWay, c, Len(delivered), sent))'
  <2>1. \E c : Splits(OnTheWay', c, Len(delivered'), sent') BY <1>4, <1>10, <1>11
  <2> QED BY <2>1 DEF Splits
<1> QED BY <1>11, <1>12 DEF InSequence

LEMMA Unaffected ==
  ASSUME InSequence, OnTheWay' = OnTheWay, UNCHANGED <<sent, delivered>>
  PROVE  InSequence'
<1>1. \E c : Splits(OnTheWay', c, Len(delivered'), sent') BY DEF InSequence
<1>2. (\E c : Splits(OnTheWay, c, Len(delivered), sent))' BY <1>1 DEF Splits
<1>3. delivered' \in Seq(Messages) /\ \A i \in 1..Len(delivered') : delivered'[i] = sent'[i]
  BY DEF InSequence
<1> QED BY <1>2, <1>3 DEF InSequence

LEMMA ReceiveInSequence ==
  ASSUME OrderInv, InSequence, ~lost, Receive, Queue' = Queue
  PROVE  InSequence'
<1>1. /\ line # <<>> /\ dma' = Append(dma, line[1]) /\ line' = Tail(line)
      /\ UNCHANGED <<sent, delivered>>
  BY DEF Receive, parser, OrderInv
<1>2. dma \in Seq(Nat) /\ line \in Seq(Nat) BY WayFacts DEF OrderInv
<1>3. Append(dma, Head(line)) \o Tail(line) = dma \o line BY <1>1, <1>2, MoveFirst
<1>4. dma' \o line' = dma \o line
  <2>1. Head(line) = line[1] BY <1>1, <1>2
  <2> QED BY <1>1, <1>3, <2>1
<1>5. OnTheWay' = OnTheWay BY <1>4 DEF OnTheWay
<1> QED BY <1>1, <1>5, Unaffected

LEMMA CopyInSequence ==
  ASSUME OrderInv, InSequence, OnRxEvent, Queue' = Queue \o dma
  PROVE  InSequence'
<1>1. dma' = <<>> /\ line' = line /\ UNCHANGED <<sent, delivered>>
  BY DEF OnRxEvent, RxStart, wire, parser
<1> DEFINE q == Queue
<1>2. q \in Seq(Nat) /\ dma \in Seq(Nat) /\ line \in Seq(Nat) BY WayFacts DEF OrderInv
<1>3. OnTheWay = q \o (dma \o line) /\ OnTheWay' = (q \o dma) \o (<<>> \o line) BY <1>1 DEF OnTheWay
<1> HIDE DEF q
<1>4. <<>> \o line = line BY <1>2, ConcatEmptySeq
<1>5. (q \o dma) \o line = q \o (dma \o line) BY ONLY <1>2, BytesAssociate
<1>6. OnTheWay' = OnTheWay BY <1>3, <1>4, <1>5
<1> QED BY <1>1, <1>6, Unaffected

\* The parser skips nothing: as long as no byte is lost a frame begins at the front.
LEMMA SkipsNothing ==
  ASSUME OrderInv, InSequence
  PROVE  ~Stream!Skip
<1> SUFFICES ASSUME Stream!Skip PROVE FALSE OBVIOUS
<1> DEFINE q == Queue
           t == dma \o line
           n == Len(delivered)
<1>1. q \in Seq(Nat) /\ t \in Seq(Nat) /\ sent \in Seq(Messages) BY WayFacts DEF OrderInv
<1>2. PICK cut : Splits(q \o t, cut, n, sent) BY DEF InSequence, OnTheWay
<1>3. q # <<>> /\ Stream!CannotBegin(q) BY DEF Stream!Skip
<1> HIDE DEF q, t, n
<1> QED BY <1>1, <1>2, <1>3, FrontIsMessage

LEMMA OrderStep ==
  ASSUME OrderInv, [Next]_vars
  PROVE  OrderInv'
<1>1. ReceiverInv' BY ReceiverStep DEF OrderInv
<1>2. /\ lost' \in BOOLEAN /\ (lost' \/ armed' = TRUE) /\ (lost => lost')
      /\ sent' = sent \/ \E m \in Messages : Send(m)
  BY DEF OrderInv, Next, ParserStep, Send, Receive, OnRxEvent, OnError, Call, Header, Length, Body, End,
         Read, RxStart, Started, wire, receiver, parser, vars
<1>3. sent' \in Seq(Messages)
  <2>1. ASSUME NEW m \in Messages, Send(m) PROVE sent' \in Seq(Messages)
    <3>1. sent \in Seq(Messages) BY DEF OrderInv
    <3>2. Append(sent, m) \in Seq(Messages) BY <3>1, AppendProperties
    <3> QED BY <2>1, <3>2 DEF Send
  <2> QED BY <1>2, <2>1 DEF OrderInv
<1>4. ASSUME ~lost' PROVE InSequence'
  <2>1. ReceiverInv /\ InSequence BY <1>2, <1>4 DEF OrderInv
  <2>2. CASE (\E m \in Messages : Send(m)) \/ Receive \/ OnRxEvent \/ OnError
    <3>1. \/ Queue' = Queue /\ (lost' \/ Receive \/ \E m \in Messages : Send(m))
          \/ Queue' = Queue \o dma /\ OnRxEvent
      BY <2>1, <2>2, InterruptRefines
    <3>2. CASE Queue' = Queue /\ Receive BY <1>2, <1>4, <2>1, <3>2, ReceiveInSequence
    <3>3. CASE Queue' = Queue /\ \E m \in Messages : Send(m)
      <4>1. PICK m \in Messages : Send(m) BY <3>3
      <4> QED BY <2>1, <3>3, <4>1, SendInSequence
    <3>4. CASE Queue' = Queue \o dma /\ OnRxEvent BY <2>1, <3>4, CopyInSequence
    <3> QED BY <1>4, <3>1, <3>2, <3>3, <3>4
  <2>3. CASE ParserStep
    <3>1. UNCHANGED <<sent, dma, line>>
      BY <2>3 DEF ParserStep, Call, Header, Length, Body, End, Read, wire, receiver
    <3>2. (UNCHANGED <<Queue, delivered>>) \/ Stream!Deliver
      BY <2>1, <2>3, ParserRefines, SkipsNothing
    <3>3. CASE UNCHANGED <<Queue, delivered>>
      <4>1. OnTheWay' = OnTheWay BY <3>1, <3>3 DEF OnTheWay
      <4> QED BY <2>1, <3>1, <3>3, <4>1, Unaffected
    <3>4. CASE Stream!Deliver BY <2>1, <3>1, <3>4, DeliverInSequence
    <3> QED BY <3>2, <3>3, <3>4
  <2>4. CASE UNCHANGED vars
    <3>1. UNCHANGED <<ring, w, r, out, sent, delivered, dma, line>> BY <2>4 DEF vars
    <3>2. Queue' = Queue BY <2>1, <3>1, QueueStays DEF ReceiverInv
    <3>3. OnTheWay' = OnTheWay BY <3>1, <3>2 DEF OnTheWay
    <3> QED BY <2>1, <3>1, <3>3, Unaffected
  <2> QED BY <2>2, <2>3, <2>4 DEF Next
<1> QED BY <1>1, <1>2, <1>3, <1>4 DEF OrderInv

LEMMA OrderStarts ==
  ASSUME Init
  PROVE  OrderInv
<1>1. ReceiverInv /\ Stream!StreamInit BY ReceiverStarts
<1>2. sent = <<>> /\ line = <<>> /\ dma = <<>> /\ delivered = <<>> BY DEF Init
<1>3. OnTheWay = <<>>
  <2>1. Queue = <<>> BY <1>1 DEF Stream!StreamInit
  <2>2. <<>> \o (<<>> \o <<>>) = <<>>
    <3>1. <<>> \in Seq(Nat) OBVIOUS
    <3>2. <<>> \o <<>> = <<>> BY <3>1, ConcatEmptySeq
    <3> QED BY <3>2
  <2> QED BY <1>2, <2>1, <2>2 DEF OnTheWay
<1> DEFINE c == [i \in 0..0 |-> 0]
<1>4. Len(<<>>) = 0 OBVIOUS
<1>5. c \in [0..0 -> Nat] /\ c[0] = 0 /\ \A i \in 0..0 : i = 0 /\ c[i] = 0 OBVIOUS
<1>6. 0..(0 - 1) = {} OBVIOUS
<1> HIDE DEF c
<1>7. Splits(<<>>, c, 0, <<>>) BY <1>4, <1>5, <1>6 DEF Splits
<1>8. InSequence
  <2>1. \A i \in 1..0 : delivered[i] = sent[i] OBVIOUS
  <2>2. <<>> \in Seq(Messages) OBVIOUS
  <2> QED BY <1>2, <1>3, <1>4, <1>7, <2>1, <2>2 DEF InSequence
<1>9. lost \in BOOLEAN /\ (lost \/ armed = TRUE) BY DEF Init, Started
<1> QED BY <1>1, <1>2, <1>8, <1>9 DEF OrderInv

\* As long as no byte is lost, the engine gets the frames that the host sent, whole and in
\* order, wherever chunks and interrupts cut them and the counters wrap
\* (bld_transport_uart_dma.c: ring_push, bld_transport_recv_frame).
THEOREM FramesComeInOrder == Spec => []InOrder
<1>1. Init => OrderInv BY OrderStarts
<1>2. OrderInv /\ [Next]_vars => OrderInv' BY OrderStep
<1>3. OrderInv => InOrder
  <2> SUFFICES ASSUME OrderInv, ~lost PROVE IsPrefix(delivered, sent) BY DEF InOrder
  <2> DEFINE n == Len(delivered)
  <2>1. /\ delivered \in Seq(Messages) /\ sent \in Seq(Messages) /\ n \in Nat
        /\ \A i \in 1..n : delivered[i] = sent[i]
    BY DEF OrderInv, InSequence
  <2>2. n \in 0..Len(sent) BY DEF OrderInv, InSequence, Splits
  <2>3. SubSeq(delivered, 1, n) = delivered BY <2>1, SubSeqFull
  <2> HIDE DEF n
  <2>4. SubSeq(sent, 1, n) = delivered
    <3> DEFINE x == SubSeq(sent, 1, n)
    <3>1. \A i \in 1..n : sent[i] \in Messages BY <2>1, <2>2
    <3>2. 1 \in Int /\ n \in Int /\ (IF 1 <= n THEN n - 1 + 1 ELSE 0) = n /\ n - 1 + 1 = n
          /\ \A i \in 1..n : 1 + i - 1 = i
      BY <2>1
    <3>3. x \in Seq(Messages) /\ Len(x) = n /\ \A i \in 1..n : x[i] = sent[i]
      BY <3>1, <3>2, SubSeqProperties
    <3> HIDE DEF x
    <3>4. Len(delivered) = n BY DEF n
    <3>5. x = delivered BY <2>1, <3>3, <3>4, SeqEqual
    <3> QED BY <3>5 DEF x
  <2> QED BY <2>2, <2>3, <2>4 DEF IsPrefix, n
<1> QED BY <1>1, <1>2, <1>3, PTL DEF Spec
=============================================================================
