------------------------- MODULE FlashStorage_proofs -------------------------
(***************************************************************************)
(* Theorems about the flash backend, for all layouts, page and doubleword  *)
(* sizes, and for all calls, whichever of the flash's orders fail.         *)
(***************************************************************************)
EXTENDS FlashStorage, Integers, SequenceTheorems, TLAPS

-----------------------------------------------------------------------------
(* Lock *)

\* No call leaves the flash writable: not a refused one, not one whose first, last or
\* middle order fails, not one that has no order at all.
THEOREM FlashIsLocked == Spec => []LockedBetweenCalls
<1>1. Init => LockedBetweenCalls BY DEF Init, LockedBetweenCalls
<1>2. LockedBetweenCalls /\ [Next]_vars => LockedBetweenCalls'
  BY DEF LockedBetweenCalls, Next, Request, Refuse, Read, Unlock, Operate, OrderFails, Finish, Lock,
         Return, Entered, vars
<1> QED BY <1>1, <1>2, PTL DEF Spec

-----------------------------------------------------------------------------
(* Numbers that are multiples of a unit *)

LEMMA DivUnique ==
  ASSUME NEW u \in Nat \ {0}, NEW q \in Int, NEW r \in 0..(u - 1)
  PROVE  (q * u + r) \div u = q /\ (q * u + r) % u = r
  OBVIOUS

LEMMA DivParts ==
  ASSUME NEW u \in Nat \ {0}, NEW n \in Int
  PROVE  /\ n \div u \in Int /\ n % u \in 0..(u - 1) /\ n = (n \div u) * u + (n % u)
         /\ n \in Nat => n \div u \in Nat
  OBVIOUS

LEMMA Distributes ==
  ASSUME NEW u \in Nat, NEW p \in Int, NEW q \in Int
  PROVE  /\ (p + 1) * u = p * u + u /\ (p - 1) * u = p * u - u
         /\ (p + q) * u = p * u + q * u /\ (p - q) * u = p * u - q * u
         /\ p * u \in Int
         /\ p \in Nat => p * u \in Nat
  OBVIOUS

Multiple(x, u) == x % u = 0

LEMMA MultipleOf ==
  ASSUME NEW u \in Nat \ {0}, NEW x \in Int, Multiple(x, u)
  PROVE  (x \div u) * u = x /\ x \div u \in Int
  BY DivParts DEF Multiple

LEMMA IsMultiple ==
  ASSUME NEW u \in Nat \ {0}, NEW q \in Int
  PROVE  Multiple(q * u, u) /\ (q * u) \div u = q
<1>1. 0 \in 0..(u - 1) /\ q * u \in Int /\ q * u + 0 = q * u OBVIOUS
<1> QED BY <1>1, DivUnique DEF Multiple

LEMMA MultipleSum ==
  ASSUME NEW u \in Nat \ {0}, NEW x \in Int, NEW y \in Int, Multiple(x, u), Multiple(y, u)
  PROVE  Multiple(x + y, u) /\ Multiple(x - y, u)
<1> DEFINE p == x \div u
           q == y \div u
<1>1. p \in Int /\ q \in Int /\ x = p * u /\ y = q * u BY MultipleOf
<1> HIDE DEF p, q
<1>2. x + y = (p + q) * u /\ x - y = (p - q) * u BY <1>1, Distributes
<1>3. p + q \in Int /\ p - q \in Int BY <1>1
<1> QED BY <1>2, <1>3, IsMultiple

\* Two different multiples are at least a unit apart.
LEMMA MultipleStep ==
  ASSUME NEW u \in Nat \ {0}, NEW x \in Int, NEW y \in Int, Multiple(x, u), Multiple(y, u), x < y
  PROVE  x + u <= y
<1> DEFINE d == (y - x) \div u
<1>1. Multiple(y - x, u) BY MultipleSum
<1>2. d \in Int /\ y - x = d * u BY <1>1, MultipleOf
<1> HIDE DEF d
<1>3. d >= 1
  <2> SUFFICES ASSUME d <= 0 PROVE FALSE BY <1>2
  <2>1. -d \in Nat /\ (-d) * u \in Nat BY <1>2
  <2>2. d * u = -((-d) * u) BY <1>2
  <2> QED BY <1>2, <2>1, <2>2
<1>4. d - 1 \in Nat /\ (d - 1) * u \in Nat /\ (d - 1) * u = d * u - u
  BY <1>2, <1>3, Distributes
<1> QED BY <1>2, <1>4

LEMMA MultipleTrans ==
  ASSUME NEW u \in Nat \ {0}, NEW v \in Nat \ {0}, NEW x \in Int, Multiple(x, v), Multiple(v, u)
  PROVE  Multiple(x, u)
<1> DEFINE p == x \div v
           q == v \div u
<1>1. p \in Int /\ q \in Int /\ x = p * v /\ v = q * u BY MultipleOf
<1> HIDE DEF p, q
<1>2. x = (p * q) * u /\ p * q \in Int BY <1>1
<1> QED BY <1>2, IsMultiple

\* A length rounded up to a unit.
LEMMA RoundUp ==
  ASSUME NEW u \in Nat \ {0}, NEW n \in Nat \ {0}, NEW c, c = ((n + u - 1) \div u) * u
  PROVE  c \in Nat /\ Multiple(c, u) /\ n <= c /\ c < n + u
<1> DEFINE m == (n + u) - 1
           q == m \div u
           r == m % u
<1>1. m \in Nat /\ m \in Int /\ m = n + u - 1 OBVIOUS
<1> HIDE DEF m
<1>2. q \in Nat /\ r \in 0..(u - 1) /\ m = q * u + r BY <1>1, DivParts
<1>3. c = q * u BY <1>1
<1> HIDE DEF q, r
<1>4. q * u \in Nat
  <2>1. u \in Nat /\ q \in Int BY <1>2
  <2> QED BY <1>2, <2>1, Distributes
<1>5. c \in Nat /\ Multiple(c, u)
  <2>0. q \in Int BY <1>2
  <2>1. Multiple(q * u, u) BY ONLY <2>0, u \in Nat \ {0}, IsMultiple
  <2> QED BY <1>3, <1>4, <2>1
<1>6. n + u - 1 = c + r BY <1>1, <1>2, <1>3
<1> QED BY <1>2, <1>5, <1>6

-----------------------------------------------------------------------------
(* The range of a call and the addresses of its orders *)

LEMMA Sizes ==
  /\ PageSize \in Nat \ {0} /\ DwSize \in Nat \ {0} /\ BankSize \in Nat \ {0}
  /\ FlashBase \in Nat /\ AddressSpace \in Nat
  /\ Multiple(PageSize, DwSize) /\ Multiple(BankSize, PageSize) /\ Multiple(FlashBase, PageSize)
  /\ PageSize <= FlashBase /\ FlashBase + 2 * BankSize < AddressSpace
  /\ Offsets \subseteq Nat /\ Lengths \subseteq Nat /\ Payloads \subseteq Seq(Bytes)
  BY FlashAssumption DEF Multiple

LEMMA LayoutFacts ==
  ASSUME base \in Layouts, NEW r \in Regions
  PROVE  /\ base[r] \in Nat /\ Multiple(base[r], PageSize) /\ FlashBase <= base[r]
         /\ RegionSize[r] \in Nat /\ Multiple(RegionSize[r], PageSize)
         /\ base[r] + RegionSize[r] <= FlashBase + 2 * BankSize
  BY FlashAssumption DEF Multiple

LEMMA CallTypes ==
  ASSUME NEW c \in Calls
  PROVE  /\ c.op \in Ops /\ c.region \in Regions /\ c.offset \in Nat /\ c.len \in Nat
         /\ c.op = "write" => c.data \in Seq(Bytes) /\ c.len = Len(c.data)
<1>1. CASE c \in [op : {"erase", "read"}, region : Regions, offset : Offsets, len : Lengths,
                  data : {<<>>}]
  BY <1>1, Sizes DEF Ops
<1>2. ASSUME NEW r \in Regions, NEW o \in Offsets, NEW d \in Payloads,
             c = [op |-> "write", region |-> r, offset |-> o, len |-> Len(d), data |-> d]
      PROVE  /\ c.op \in Ops /\ c.region \in Regions /\ c.offset \in Nat /\ c.len \in Nat
             /\ c.op = "write" => c.data \in Seq(Bytes) /\ c.len = Len(c.data)
  <2>1. o \in Nat /\ d \in Seq(Bytes) /\ Len(d) \in Nat BY Sizes
  <2> QED BY <1>2, <2>1 DEF Ops
<1> QED BY <1>1, <1>2 DEF Calls

Start(c) == base[c.region] + c.offset
RegionCells(r) == {a \in Addresses : base[r] <= a /\ a < base[r] + RegionSize[r]}

\* An accepted range lies in its region and does not wrap.
LEMMA CallRange ==
  ASSUME base \in Layouts, NEW c \in Calls, Accepted(c)
  PROVE  /\ AbsAddr(c) = Start(c) /\ Start(c) \in Nat /\ c.len \in Nat \ {0}
         /\ base[c.region] <= Start(c)
         /\ Start(c) + c.len <= base[c.region] + RegionSize[c.region]
         /\ c.offset + c.len <= RegionSize[c.region]
<1> DEFINE r == c.region
           b == base[r]
           z == RegionSize[r]
<1>1. r \in Regions /\ c.offset \in Nat /\ c.len \in Nat BY CallTypes
<1>2. b \in Nat /\ z \in Nat /\ b + z <= FlashBase + 2 * BankSize BY <1>1, LayoutFacts
<1>3. c.len # 0 /\ c.offset <= z /\ c.len <= z - c.offset BY DEF Accepted, RangeValid
<1>4. Start(c) = b + c.offset BY DEF Start
<1>5. AbsAddr(c) = (b + c.offset) % AddressSpace BY DEF AbsAddr, Wrap
<1> HIDE DEF b, z
<1>6. b + c.offset \in Nat /\ b + c.offset < AddressSpace BY <1>1, <1>2, <1>3, Sizes
<1>7. \A n, m \in Nat : n < m => n % m = n OBVIOUS
<1>8. AbsAddr(c) = Start(c) BY <1>4, <1>5, <1>6, <1>7, Sizes
<1>9. /\ Start(c) \in Nat /\ c.len \in Nat \ {0} /\ b <= Start(c)
      /\ Start(c) + c.len <= b + z /\ c.offset + c.len <= z
  BY <1>1, <1>2, <1>3, <1>4
<1> QED BY <1>8, <1>9 DEF b, z

\* The addresses that an erase order covers: from First to before Beyond.
First(o) == BankBase(o.bank) + o.page * PageSize
Beyond(o) == BankBase(o.bank) + (o.page + o.count) * PageSize
EraseRecords == [kind : {"erase"}, bank : Banks, page : Nat, count : Nat \ {0}]

LEMMA BankFacts ==
  ASSUME NEW b \in Banks
  PROVE  BankBase(b) \in Nat /\ Multiple(BankBase(b), PageSize)
<1>1. FlashBase \in Nat /\ FlashBase + BankSize \in Nat BY Sizes
<1>2. Multiple(FlashBase + BankSize, PageSize) BY MultipleSum, Sizes
<1> QED BY <1>1, <1>2, Sizes DEF BankBase, Banks

LEMMA OneErase ==
  ASSUME NEW b \in Banks, NEW first \in Nat, NEW last \in Nat,
         BankOf(first) = b, BankOf(last) = b, BankBase(b) <= first, first <= last,
         Multiple(first, PageSize), Multiple(last + 1, PageSize),
         NEW o, o = EraseOrder(b, first, last)
  PROVE  o \in EraseRecords /\ First(o) = first /\ Beyond(o) = last + 1
<1> DEFINE base0 == BankBase(b)
           p == (first - base0) \div PageSize
           q == ((last + 1) - base0) \div PageSize
<1>1. base0 \in Nat /\ Multiple(base0, PageSize) BY BankFacts
<1> HIDE DEF base0
<1>2. p \in Int /\ first - base0 = p * PageSize
  <2>1. Multiple(first - base0, PageSize) BY <1>1, MultipleSum, Sizes
  <2> QED BY <1>1, <2>1, MultipleOf, Sizes
<1>3. q \in Int /\ (last + 1) - base0 = q * PageSize
  <2>1. Multiple((last + 1) - base0, PageSize) BY <1>1, MultipleSum, Sizes
  <2> QED BY <1>1, <2>1, MultipleOf, Sizes
<1>4. PageInBank(first) = p BY DEF PageInBank, base0
<1>5. PageInBank(last) = q - 1
  <2>1. PageInBank(last) = (last - base0) \div PageSize BY DEF PageInBank, base0
  <2> HIDE DEF p, q
  <2>2. last - base0 = (q - 1) * PageSize + (PageSize - 1)
    <3>1. (q - 1) * PageSize = q * PageSize - PageSize BY <1>3, Distributes, Sizes
    <3>2. q * PageSize \in Int BY <1>3, Sizes
    <3> QED BY <1>1, <1>3, <3>1, <3>2, Sizes
  <2>3. q - 1 \in Int /\ PageSize - 1 \in 0..(PageSize - 1) BY <1>3, Sizes
  <2> QED BY <2>1, <2>2, <2>3, DivUnique, Sizes
<1> HIDE DEF p, q
<1>6. p \in Nat /\ q > p
  <2>1. p * PageSize \in Nat /\ p * PageSize + PageSize <= q * PageSize
    <3>1. Multiple(p * PageSize, PageSize) /\ Multiple(q * PageSize, PageSize)
      <4>1. p \in Int /\ q \in Int /\ PageSize \in Nat \ {0} BY <1>2, <1>3, Sizes
      <4> QED BY ONLY <4>1, IsMultiple
    <3>3. p * PageSize \in Int /\ q * PageSize \in Int BY <1>2, <1>3, Sizes
    <3>4. base0 <= first BY DEF base0
    <3>2. p * PageSize < q * PageSize /\ p * PageSize >= 0 BY <1>1, <1>2, <1>3, <3>3, <3>4
    <3> QED BY <3>1, <3>2, <3>3, MultipleStep, Sizes
  <2>2. p >= 0
    <3> SUFFICES ASSUME p <= -1 PROVE FALSE BY <1>2
    <3>1. (-p) \in Nat \ {0} /\ (-p) * PageSize \in Nat \ {0} BY <1>2, Sizes
    <3>2. p * PageSize = -((-p) * PageSize) BY <1>2, Sizes
    <3> QED BY <2>1, <3>1, <3>2
  <2>3. q > p
    <3> SUFFICES ASSUME q <= p PROVE FALSE BY <1>2, <1>3
    <3>1. p - q \in Nat /\ (p - q) * PageSize \in Nat BY <1>2, <1>3, Sizes
    <3>2. (p - q) * PageSize = p * PageSize - q * PageSize BY <1>2, <1>3, Distributes, Sizes
    <3>3. q * PageSize \in Int BY <1>3, Sizes
    <3> QED BY <2>1, <3>1, <3>2, <3>3, Sizes
  <2> QED BY <1>2, <2>2, <2>3
<1>7. o = [kind |-> "erase", bank |-> b, page |-> p, count |-> q - p]
  BY <1>2, <1>3, <1>4, <1>5 DEF EraseOrder
<1>8. o \in EraseRecords BY <1>3, <1>6, <1>7 DEF EraseRecords
<1>9. First(o) = base0 + p * PageSize /\ Beyond(o) = base0 + q * PageSize
  <2>1. p + (q - p) = q BY <1>2, <1>3
  <2> QED BY <1>7, <2>1 DEF First, Beyond, base0
<1>10. First(o) = first /\ Beyond(o) = last + 1
  <2>1. p * PageSize \in Int /\ q * PageSize \in Int BY <1>2, <1>3, Sizes
  <2> QED BY <1>1, <1>2, <1>3, <1>9, <2>1
<1> QED BY <1>8, <1>10

\* The pages of an erase call begin at its start and end within its region.
EraseEnd(c) == Start(c) + AlignUp(c.len, PageSize)

LEMMA EraseRange ==
  ASSUME base \in Layouts, NEW c \in Calls, Accepted(c), c.op = "erase"
  PROVE  /\ Start(c) \in Nat /\ EraseEnd(c) \in Nat
         /\ Multiple(Start(c), PageSize) /\ Multiple(EraseEnd(c), PageSize)
         /\ AlignUp(c.len, PageSize) \in Nat /\ AlignUp(c.len, PageSize) < c.len + PageSize
         /\ Start(c) + c.len <= EraseEnd(c)
         /\ EraseEnd(c) <= base[c.region] + RegionSize[c.region]
<1> DEFINE r == c.region
           b == base[r]
           z == RegionSize[r]
           n == c.len
           w == AlignUp(n, PageSize)
           s == Start(c)
<1>1. /\ AbsAddr(c) = s /\ s \in Nat /\ n \in Nat \ {0} /\ b <= s /\ s + n <= b + z
  BY CallRange
<1>2. r \in Regions BY CallTypes
<1>3. /\ b \in Nat /\ Multiple(b, PageSize) /\ FlashBase <= b
      /\ z \in Nat /\ Multiple(z, PageSize) /\ b + z <= FlashBase + 2 * BankSize
  BY <1>2, LayoutFacts
<1>4. Multiple(s, PageSize) BY <1>1 DEF Accepted, Multiple
<1> HIDE DEF b, z, n, s
<1>5. w = ((n + PageSize - 1) \div PageSize) * PageSize
  <2> DEFINE m == n + PageSize - 1
  <2>1. m \in Nat /\ m < AddressSpace BY <1>1, <1>3, Sizes
  <2>2. \A x, y \in Nat : x < y => x % y = x OBVIOUS
  <2>3. m % AddressSpace = m
    <3> HIDE DEF m
    <3> QED BY <2>1, <2>2, Sizes
  <2> QED BY <2>3 DEF AlignUp, Wrap
<1> HIDE DEF w
<1>6. w \in Nat /\ Multiple(w, PageSize) /\ n <= w /\ w < n + PageSize BY <1>1, <1>5, RoundUp, Sizes
<1>7. EraseEnd(c) = s + w BY DEF EraseEnd, s, w, n
<1>8. Multiple(s + w, PageSize) /\ Multiple(b + z, PageSize) BY <1>1, <1>3, <1>4, <1>6, MultipleSum, Sizes
<1>9. s + w <= b + z
  <2> SUFFICES ASSUME b + z < s + w PROVE FALSE BY <1>1, <1>3, <1>6
  <2>1. b + z + PageSize <= s + w BY <1>1, <1>3, <1>6, <1>8, MultipleStep, Sizes
  <2> QED BY <1>1, <1>3, <1>6, <2>1, Sizes
<1>10. /\ s \in Nat /\ s + w \in Nat /\ s + n <= s + w BY <1>1, <1>6
<1> QED BY <1>4, <1>6, <1>7, <1>8, <1>9, <1>10 DEF b, z, n, s, w

\* The erase orders of a call cover its pages and nothing else, on both sides of the
\* boundary between the banks.
LEMMA EraseOrdersCover ==
  ASSUME base \in Layouts, NEW c \in Calls, Accepted(c), c.op = "erase"
  PROVE  /\ Orders(c) \in Seq(EraseRecords)
         /\ \A k \in 1..Len(Orders(c)) : /\ Start(c) <= First(Orders(c)[k])
                                         /\ Beyond(Orders(c)[k]) <= EraseEnd(c)
                                         /\ First(Orders(c)[k]) \in Nat
                                         /\ Multiple(First(Orders(c)[k]), PageSize)
                                         /\ Beyond(Orders(c)[k]) \in Nat
                                         /\ Multiple(Beyond(Orders(c)[k]), PageSize)
         /\ \A a \in Nat : Start(c) <= a /\ a < EraseEnd(c) =>
              \E k \in 1..Len(Orders(c)) : First(Orders(c)[k]) <= a /\ a < Beyond(Orders(c)[k])
<1> DEFINE s == Start(c)
           e == EraseEnd(c)
           last == e - 1
           mid == FlashBase + BankSize
           good(o) == /\ o \in EraseRecords /\ s <= First(o) /\ Beyond(o) <= e
                      /\ First(o) \in Nat /\ Multiple(First(o), PageSize)
                      /\ Beyond(o) \in Nat /\ Multiple(Beyond(o), PageSize)
           covers(o, a) == First(o) <= a /\ a < Beyond(o)
<1>1. /\ s \in Nat /\ e \in Nat /\ Multiple(s, PageSize) /\ Multiple(e, PageSize) /\ s < e
      /\ AbsAddr(c) = s
      /\ e <= base[c.region] + RegionSize[c.region] /\ base[c.region] <= s
      /\ AlignUp(c.len, PageSize) \in Nat /\ e = s + AlignUp(c.len, PageSize)
  <2>1. /\ AbsAddr(c) = s /\ c.len \in Nat \ {0} /\ base[c.region] <= s BY CallRange
  <2>2. /\ s \in Nat /\ e \in Nat /\ Multiple(s, PageSize) /\ Multiple(e, PageSize)
        /\ AlignUp(c.len, PageSize) \in Nat
        /\ s + c.len <= e /\ e <= base[c.region] + RegionSize[c.region]
    BY EraseRange
  <2>3. e = s + AlignUp(c.len, PageSize) BY DEF EraseEnd
  <2> HIDE DEF s, e
  <2>4. s < e BY <2>1, <2>2
  <2> QED BY <2>1, <2>2, <2>3, <2>4
<1>2. /\ base[c.region] \in Nat /\ FlashBase <= base[c.region] /\ RegionSize[c.region] \in Nat
      /\ base[c.region] + RegionSize[c.region] <= FlashBase + 2 * BankSize
  BY CallTypes, LayoutFacts
<1>3. FlashBase <= s /\ e <= FlashBase + 2 * BankSize
  <2> HIDE DEF s, e
  <2> QED BY <1>1, <1>2, Sizes
<1>4. last \in Nat /\ last + 1 = e /\ s <= last
  <2> HIDE DEF s, e
  <2> QED BY <1>1
<1>5. Wrap(s + AlignUp(c.len, PageSize) - 1) = last
  <2>1. last < AddressSpace
    <3> HIDE DEF s, e
    <3> QED BY <1>1, <1>3, Sizes
  <2>2. s + AlignUp(c.len, PageSize) - 1 = last
    <3> HIDE DEF s, e
    <3> QED BY <1>1
  <2>3. \A x, y \in Nat : x < y => x % y = x OBVIOUS
  <2> HIDE DEF last
  <2> QED BY <1>4, <2>1, <2>2, <2>3, Sizes DEF Wrap
<1>6. EraseOrders(c) = IF BankOf(s) = BankOf(last) THEN <<EraseOrder(BankOf(s), s, last)>>
                       ELSE <<EraseOrder(1, s, mid - 1), EraseOrder(2, mid, last)>>
  <2>1. AbsAddr(c) = s /\ Wrap(AbsAddr(c) + AlignUp(c.len, PageSize) - 1) = last BY <1>1, <1>5
  <2> HIDE DEF last, s
  <2>2. BankOf(s) = BankOf(last) => EraseOrders(c) = <<EraseOrder(BankOf(s), s, last)>>
    BY <2>1 DEF EraseOrders
  <2>3. BankOf(s) # BankOf(last) =>
          EraseOrders(c) = <<EraseOrder(1, s, FlashBase + BankSize - 1),
                             EraseOrder(2, FlashBase + BankSize, last)>>
    BY <2>1 DEF EraseOrders
  <2>4. FlashBase + BankSize = mid /\ FlashBase + (BankSize - 1) = mid - 1 BY Sizes
  <2> HIDE DEF mid
  <2> QED BY <2>2, <2>3, <2>4
<1>7. Orders(c) = EraseOrders(c) BY DEF Orders
<1>8. mid \in Nat /\ Multiple(mid, PageSize) /\ mid - 1 \in Nat /\ FlashBase < mid
  BY MultipleSum, Sizes
<1> SUFFICES /\ Orders(c) \in Seq(EraseRecords)
             /\ \A k \in 1..Len(Orders(c)) : good(Orders(c)[k])
             /\ \A a \in Nat : s <= a /\ a < e => \E k \in 1..Len(Orders(c)) : covers(Orders(c)[k], a)
  OBVIOUS
<1>b. /\ \A a : BankOf(a) = IF a < mid THEN 1 ELSE 2
      /\ BankBase(1) = FlashBase /\ BankBase(2) = mid
  BY DEF BankOf, BankBase
<1> HIDE DEF s, e, last, mid
<1>9. CASE BankOf(s) = BankOf(last)
  <2> DEFINE o == EraseOrder(BankOf(s), s, last)
  <2>1. BankOf(s) \in Banks /\ BankBase(BankOf(s)) <= s
    BY <1>1, <1>3, <1>8, <1>b, Sizes DEF Banks
  <2>2. o \in EraseRecords /\ First(o) = s /\ Beyond(o) = last + 1
    BY <1>1, <1>4, <1>9, <2>1, OneErase
  <2>3. Orders(c) = <<o>> BY <1>6, <1>7, <1>9
  <2> HIDE DEF o
  <2>4. good(o) /\ \A a \in Nat : s <= a /\ a < e => covers(o, a) BY <1>1, <1>4, <2>2
  <2>5. Orders(c) \in Seq(EraseRecords) /\ Len(Orders(c)) = 1 /\ Orders(c)[1] = o BY <2>2, <2>3
  <2> HIDE DEF good, covers
  <2> QED BY <2>4, <2>5
<1>10. CASE BankOf(s) # BankOf(last)
  <2> DEFINE o == EraseOrder(1, s, mid - 1)
             p == EraseOrder(2, mid, last)
  <2>1. s < mid /\ ~(last < mid) BY <1>1, <1>4, <1>8, <1>10, <1>b
  <2>2. o \in EraseRecords /\ First(o) = s /\ Beyond(o) = mid
    <3>1. BankOf(s) = 1 /\ BankOf(mid - 1) = 1 /\ 1 \in Banks /\ BankBase(1) <= s /\ s <= mid - 1
          /\ (mid - 1) + 1 = mid
      BY <1>1, <1>3, <1>8, <1>b, <2>1 DEF Banks
    <3> QED BY <1>1, <1>8, <3>1, OneErase
  <2>3. p \in EraseRecords /\ First(p) = mid /\ Beyond(p) = last + 1
    <3>1. BankOf(mid) = 2 /\ BankOf(last) = 2 /\ 2 \in Banks /\ BankBase(2) <= mid /\ mid <= last
      BY <1>1, <1>4, <1>8, <1>b, <2>1 DEF Banks
    <3> QED BY <1>1, <1>4, <1>8, <3>1, OneErase
  <2>4. Orders(c) = <<o, p>> BY <1>6, <1>7, <1>10
  <2> HIDE DEF o, p
  <2>5. good(o) /\ good(p) BY <1>1, <1>4, <1>8, <2>1, <2>2, <2>3
  <2>6. \A a \in Nat : s <= a /\ a < e => covers(o, a) \/ covers(p, a)
    BY <1>1, <1>4, <1>8, <2>1, <2>2, <2>3
  <2>7. /\ Orders(c) \in Seq(EraseRecords) /\ Len(Orders(c)) = 2
        /\ Orders(c)[1] = o /\ Orders(c)[2] = p
    BY <2>2, <2>3, <2>4
  <2> HIDE DEF good, covers
  <2>8. 1 \in 1..2 /\ 2 \in 1..2 /\ \A k \in 1..2 : k = 1 \/ k = 2 OBVIOUS
  <2> QED BY <2>5, <2>6, <2>7, <2>8
<1> QED BY <1>9, <1>10

\* The data of a write fill whole doublewords; the rest of the last one is erased.
LEMMA FilledData ==
  ASSUME NEW d \in Seq(Bytes), NEW l, l = Len(d), NEW f, f = Filled(d)
  PROVE  /\ f \in Seq(Bytes \cup {Erased}) /\ Multiple(Len(f), DwSize)
         /\ l \in Nat /\ l <= Len(f) /\ Len(f) < l + DwSize
         /\ \A i \in 1..Len(f) : f[i] = IF i <= l THEN d[i] ELSE Erased
<1> DEFINE pad == (DwSize - (l % DwSize)) % DwSize
           S == Bytes \cup {Erased}
           tail == [i \in 1..pad |-> Erased]
<1>1. l \in Nat /\ DwSize \in Nat \ {0} BY Sizes
<1>2. pad \in Nat /\ pad < DwSize /\ Multiple(l + pad, DwSize)
  <2> DEFINE q == l \div DwSize
             r == l % DwSize
  <2>1. q \in Int /\ r \in 0..(DwSize - 1) /\ l = q * DwSize + r BY <1>1, DivParts
  <2>2. pad = (DwSize - r) % DwSize OBVIOUS
  <2> HIDE DEF q, r, pad
  <2>3. CASE r = 0
    <3>1. pad = 0
      <4>1. \A m \in Nat \ {0} : m % m = 0 OBVIOUS
      <4>2. DwSize - r = DwSize BY <1>1, <2>3
      <4> QED BY <1>1, <2>2, <4>1, <4>2
    <3>2. Multiple(q * DwSize, DwSize) BY ONLY <2>1, <1>1, IsMultiple
    <3>3. l + pad = q * DwSize BY <1>1, <2>1, <2>3, <3>1
    <3> QED BY <1>1, <3>1, <3>2, <3>3
  <2>4. CASE r # 0
    <3>1. pad = DwSize - r
      <4>1. DwSize - r \in Nat /\ DwSize - r < DwSize BY <1>1, <2>1, <2>4
      <4>2. \A x, y \in Nat : x < y => x % y = x OBVIOUS
      <4> QED BY <1>1, <2>2, <4>1, <4>2
    <3>2. Multiple((q + 1) * DwSize, DwSize)
      <4>1. q + 1 \in Int BY <2>1
      <4> QED BY ONLY <4>1, <1>1, IsMultiple
    <3>3. l + pad = (q + 1) * DwSize
      <4>1. (q + 1) * DwSize = q * DwSize + DwSize /\ q * DwSize \in Int BY <1>1, <2>1, Distributes
      <4> QED BY <1>1, <2>1, <3>1, <4>1
    <3> QED BY <1>1, <2>1, <2>4, <3>1, <3>2, <3>3
  <2> QED BY <2>3, <2>4
<1>3. f = d \o tail BY DEF Filled
<1> HIDE DEF pad
<1>4. tail \in Seq(S) /\ Len(tail) = pad /\ \A i \in 1..pad : tail[i] = Erased BY <1>2
<1>5. d \in Seq(S) /\ \A i \in 1..l : d[i] \in Bytes BY <1>1
<1> HIDE DEF tail, S
<1>6. /\ f \in Seq(S) /\ Len(f) = l + pad
      /\ \A i \in 1..(l + pad) : f[i] = IF i <= l THEN d[i] ELSE tail[i - l]
  BY <1>3, <1>4, <1>5, ConcatProperties
<1>7. \A i \in 1..(l + pad) : ~(i <= l) => i - l \in 1..pad BY <1>1, <1>2
<1>8. \A i \in 1..(l + pad) : f[i] = IF i <= l THEN d[i] ELSE Erased BY <1>4, <1>6, <1>7
<1> QED BY <1>1, <1>2, <1>6, <1>8 DEF S

ProgramRecords == [kind : {"program"}, address : Nat, data : Seq(Bytes \cup {Erased})]

\* What a write call puts at an address of its doublewords.
Wanted(c, a) == IF a < Start(c) + c.len THEN c.data[a - Start(c) + 1] ELSE Erased

LEMMA ProgramOrdersCover ==
  ASSUME base \in Layouts, NEW c \in Calls, Accepted(c), c.op = "write"
  PROVE  /\ Orders(c) \in Seq(ProgramRecords)
         /\ \A k \in 1..Len(Orders(c)) :
              LET o == Orders(c)[k] IN
              /\ o.address = Start(c) + (k - 1) * DwSize
              /\ (k - 1) * DwSize \in Nat /\ (k - 1) * DwSize < c.len
              /\ \A a \in DoublewordCells(o.address) : o.data[a - o.address + 1] = Wanted(c, a)
         /\ \A a \in Nat : Start(c) <= a /\ a < Start(c) + c.len =>
              \E k \in 1..Len(Orders(c)) : a \in DoublewordCells(Orders(c)[k].address)
<1> DEFINE s == Start(c)
           d == c.data
           l == c.len
           f == Filled(d)
           n == Len(f) \div DwSize
           w == DwSize
<1>1. /\ AbsAddr(c) = s /\ s \in Nat /\ l \in Nat \ {0}
      /\ s + l < AddressSpace /\ w \in Nat \ {0} /\ w + s + l \in Nat
  <2>1. /\ AbsAddr(c) = s /\ s \in Nat /\ l \in Nat \ {0}
        /\ s + l <= base[c.region] + RegionSize[c.region]
    BY CallRange
  <2>2. /\ base[c.region] \in Nat /\ RegionSize[c.region] \in Nat
        /\ base[c.region] + RegionSize[c.region] <= FlashBase + 2 * BankSize
    BY CallTypes, LayoutFacts
  <2> HIDE DEF s, l
  <2> QED BY <2>1, <2>2, Sizes
<1>2. d \in Seq(Bytes) /\ l = Len(d) BY CallTypes
<1>3. /\ f \in Seq(Bytes \cup {Erased}) /\ Multiple(Len(f), w)
      /\ l <= Len(f) /\ Len(f) < l + w
      /\ \A i \in 1..Len(f) : f[i] = IF i <= l THEN d[i] ELSE Erased
  BY <1>2, FilledData
<1>4. Len(f) \in Nat BY <1>3
<1>5. n \in Nat /\ n * w = Len(f)
  <2> DEFINE m == Len(f)
  <2>1. m \in Nat /\ m \in Int /\ Multiple(m, w) /\ w \in Nat \ {0} BY <1>1, <1>3, <1>4
  <2>2. n = m \div w OBVIOUS
  <2> HIDE DEF m, n, w
  <2>3. (m \div w) * w = m BY ONLY <2>1, MultipleOf
  <2>4. m \div w \in Nat BY ONLY <2>1, DivParts
  <2> QED BY <2>2, <2>3, <2>4 DEF m
<1>6. Orders(c) = [k \in 1..n |->
                     [kind |-> "program", address |-> Wrap(s + (k - 1) * w),
                      data |-> SubSeq(f, (k - 1) * w + 1, k * w)]]
  <2>1. Orders(c) = ProgramOrders(c) BY DEF Orders
  <2>2. ProgramOrders(c) = [k \in 1..n |->
                     [kind |-> "program", address |-> Wrap(AbsAddr(c) + (k - 1) * w),
                      data |-> SubSeq(f, (k - 1) * w + 1, k * w)]]
    BY DEF ProgramOrders
  <2> HIDE DEF s, n, f
  <2> QED BY <1>1, <2>1, <2>2
<1> HIDE DEF s, d, l, f, n, w
<1>7. ASSUME NEW k \in 1..n
      PROVE  /\ (k - 1) * w \in Nat /\ (k - 1) * w < l
             /\ k * w = (k - 1) * w + w /\ k * w <= Len(f)
             /\ Wrap(s + (k - 1) * w) = s + (k - 1) * w
             /\ SubSeq(f, (k - 1) * w + 1, k * w) \in Seq(Bytes \cup {Erased})
             /\ \A i \in 1..w : SubSeq(f, (k - 1) * w + 1, k * w)[i] = f[(k - 1) * w + i]
  <2> DEFINE p == (k - 1) * w
             z == SubSeq(f, p + 1, k * w)
  <2>1. k - 1 \in Nat /\ k \in Int /\ n - k \in Nat /\ w \in Nat BY <1>1, <1>5
  <2>2. p \in Nat /\ k * w = p + w /\ (n - k) * w \in Nat /\ (n - k) * w = n * w - k * w
    <3>1. p \in Nat BY <2>1, Distributes
    <3>2. (k - 1) * w = k * w - w /\ k * w \in Int BY <2>1, Distributes
    <3>3. (n - k) * w \in Nat /\ (n - k) * w = n * w - k * w BY <2>1, <1>5, Distributes
    <3> HIDE DEF p
    <3>4. p = k * w - w BY <3>2 DEF p
    <3> QED BY <2>1, <3>1, <3>2, <3>3, <3>4
  <2> HIDE DEF p
  <2>3. p < l /\ k * w <= Len(f) BY <1>1, <1>3, <1>4, <1>5, <2>2
  <2>4. Wrap(s + p) = s + p
    <3>1. s + p \in Nat /\ s + p < AddressSpace BY <1>1, <2>2, <2>3, Sizes
    <3>2. \A x, y \in Nat : x < y => x % y = x OBVIOUS
    <3> QED BY <3>1, <3>2, Sizes DEF Wrap
  <2>5. /\ z \in Seq(Bytes \cup {Erased})
        /\ \A i \in 1..w : z[i] = f[p + i]
    <3>1. p + 1 \in Int /\ k * w \in Int BY <2>2, <1>1
    <3>2. \A i \in (p + 1)..(k * w) : f[i] \in Bytes \cup {Erased}
      <4>1. \A i \in 1..Len(f) : f[i] \in Bytes \cup {Erased} BY <1>3
      <4> QED BY <1>1, <1>4, <2>2, <2>3, <4>1
    <3>3. /\ z \in Seq(Bytes \cup {Erased})
          /\ \A i \in 1..((k * w - (p + 1)) + 1) : z[i] = f[((p + 1) + i) - 1]
      BY <3>1, <3>2, SubSeqProperties
    <3> HIDE DEF z
    <3>4. ASSUME NEW i \in 1..w PROVE i \in 1..((k * w - (p + 1)) + 1) /\ ((p + 1) + i) - 1 = p + i
      BY <1>1, <2>2
    <3> QED BY <3>3, <3>4
  <2> QED BY <2>2, <2>3, <2>4, <2>5 DEF p
<1>8. Orders(c) \in Seq(ProgramRecords) /\ Len(Orders(c)) = n
  <2>1. ASSUME NEW k \in 1..n PROVE Orders(c)[k] \in ProgramRecords
    <3>1. Orders(c)[k] = [kind |-> "program", address |-> Wrap(s + (k - 1) * w),
                          data |-> SubSeq(f, (k - 1) * w + 1, k * w)]
      BY <1>6
    <3>2. Wrap(s + (k - 1) * w) \in Nat BY <1>1, <1>7
    <3> QED BY <1>7, <3>1, <3>2 DEF ProgramRecords
  <2>2. Orders(c) \in [1..n -> ProgramRecords]
    <3> DEFINE g == Orders(c)
    <3>1. g = [k \in 1..n |-> g[k]] BY <1>6
    <3> HIDE DEF g
    <3> QED BY <2>1, <3>1 DEF g
  <2> QED BY <1>5, <2>2
<1>9. ASSUME NEW k \in 1..n
      PROVE  LET o == Orders(c)[k] IN
             /\ o.address = s + (k - 1) * w
             /\ (k - 1) * w \in Nat /\ (k - 1) * w < l
             /\ \A a \in DoublewordCells(o.address) : o.data[a - o.address + 1] = Wanted(c, a)
  <2> DEFINE o == Orders(c)[k]
             p == (k - 1) * w
  <2>1. /\ o.address = s + p /\ p \in Nat /\ p < l /\ p + w <= Len(f)
        /\ \A i \in 1..w : o.data[i] = f[p + i]
    <3>1. o = [kind |-> "program", address |-> Wrap(s + (k - 1) * w),
               data |-> SubSeq(f, (k - 1) * w + 1, k * w)]
      BY <1>6
    <3> DEFINE z == SubSeq(f, p + 1, k * w)
               x == Wrap(s + p)
    <3> HIDE DEF o, p, x, z
    <3>3. o = [kind |-> "program", address |-> x, data |-> z] BY <3>1 DEF p, x, z
    <3>4. o.address = x /\ o.data = z BY <3>3
    <3>2. o.address = Wrap(s + p) /\ o.data = SubSeq(f, p + 1, k * w) BY <3>4 DEF x, z
    <3> USE DEF p
    <3> QED BY <1>7, <3>2
  <2> HIDE DEF o, p
  <2>2. ASSUME NEW a \in DoublewordCells(o.address) PROVE o.data[a - o.address + 1] = Wanted(c, a)
    <3>1. a \in (s + p)..(s + p + w - 1) BY <2>1 DEF DoublewordCells, w
    <3> DEFINE i == a - (s + p) + 1
    <3>2. i \in 1..w /\ p + i = a - s + 1 /\ a \in Nat BY <1>1, <2>1, <3>1
    <3>3. a - s + 1 \in 1..Len(f)
      <4> DEFINE z == Len(f)
      <4>1. z \in Nat /\ p + w <= z BY <1>4, <2>1
      <4> HIDE DEF i, z
      <4>2. p + i \in 1..z
        <5>1. p \in Nat /\ w \in Nat /\ i \in 1..w /\ z \in Nat /\ p + w <= z
          BY <1>1, <2>1, <3>2, <4>1
        <5> QED BY ONLY <5>1
      <4> QED BY <3>2, <4>2 DEF z
    <3>4. o.data[i] = IF a - s + 1 <= l THEN d[a - s + 1] ELSE Erased
      <4> HIDE DEF i
      <4> QED BY <1>3, <2>1, <3>2, <3>3
    <3>5. Wanted(c, a) = IF a < s + l THEN d[a - s + 1] ELSE Erased BY DEF Wanted, s, l, d
    <3>6. a - s + 1 <= l <=> a < s + l BY <1>1, <3>2
    <3> QED BY <2>1, <3>4, <3>5, <3>6
  <2> QED BY <2>1, <2>2 DEF o, p
<1>10. ASSUME NEW a \in Nat, s <= a, a < s + l
       PROVE  \E k \in 1..n : a \in DoublewordCells(Orders(c)[k].address)
  <2> DEFINE j == a - s
             q == j \div w
  <2>1. j \in Nat /\ j < l BY <1>1, <1>10
  <2> HIDE DEF j
  <2>2. q \in Nat /\ j % w \in 0..(w - 1) /\ j = q * w + (j % w)
    <3>1. w \in Nat \ {0} /\ j \in Nat /\ j \in Int BY <1>1, <2>1
    <3> QED BY ONLY <3>1, DivParts
  <2> HIDE DEF q
  <2>3. q * w \in Nat BY <1>1, <2>2, Distributes
  <2>4. q * w <= j /\ j < q * w + w
    <3> DEFINE r == j % w
    <3> HIDE DEF r
    <3>1. r \in 0..(w - 1) /\ j = q * w + r BY <2>2 DEF r
    <3> QED BY <1>1, <2>1, <2>3, <3>1
  <2>5. q < n
    <3> SUFFICES ASSUME n <= q PROVE FALSE BY <1>5, <2>2
    <3>1. q - n \in Nat /\ (q - n) * w \in Nat /\ (q - n) * w = q * w - n * w
      BY <1>1, <1>5, <2>2, Distributes
    <3> QED BY <1>1, <1>3, <1>4, <1>5, <2>1, <2>3, <2>4, <3>1
  <2>6. q + 1 \in 1..n /\ (q + 1) - 1 = q BY <1>5, <2>2, <2>5
  <2>7. Orders(c)[q + 1].address = s + q * w BY <1>9, <2>6
  <2>8. a \in (s + q * w)..(s + q * w + w - 1)
    <3> DEFINE m == q * w
    <3>1. m \in Nat /\ m <= j /\ j < m + w BY <2>3, <2>4
    <3> HIDE DEF m
    <3> QED BY <1>1, <1>10, <3>1 DEF j, m
  <2> QED BY <2>6, <2>7, <2>8 DEF DoublewordCells, w
<1> QED BY <1>8, <1>9, <1>10 DEF s, l, w

-----------------------------------------------------------------------------
(* What an order does to the cells *)

\* What a call may put at an address: an erase, erased bytes or rubbish in its pages; a
\* write, its data at their place or rubbish in a doubleword that holds some of them.
Allowed(c, a, v) ==
  /\ Start(c) <= a
  /\ \/ c.op = "erase" /\ a < EraseEnd(c) /\ v \in {Erased, Torn}
     \/ /\ c.op = "write" /\ v = Torn
        /\ \E x \in Nat : /\ Multiple(x, DwSize) /\ Start(c) <= x /\ x < Start(c) + c.len
                         /\ x <= a /\ a < x + DwSize
     \/ c.op = "write" /\ a < Start(c) + c.len /\ v = Wanted(c, a)

\* The cells an order is for, and what is there when the order has succeeded.
OrderCells(o) == IF o.kind = "erase" THEN PageCells(o.bank, o.page, o.count)
                 ELSE DoublewordCells(o.address)
Aim(c, a) == IF c.op = "erase" THEN Erased ELSE Wanted(c, a)

\* A doubleword that is not programmed is erased.
Blank == \A a \in Addresses : Doubleword(a) \notin programmed => memory[a] = Erased

\* A call stays in its region: rounding up does not leave it.
LEMMA AllowedInRegion ==
  ASSUME base \in Layouts, NEW c \in Calls, Accepted(c), NEW a \in Addresses, NEW v, Allowed(c, a, v)
  PROVE  a \in RegionCells(c.region)
<1> DEFINE b == base[c.region]
           z == RegionSize[c.region]
           s == Start(c)
<1>1. /\ s \in Nat /\ c.len \in Nat \ {0} /\ b <= s /\ s + c.len <= b + z BY CallRange
<1>2. /\ b \in Nat /\ z \in Nat /\ Multiple(b, PageSize) /\ Multiple(z, PageSize)
  BY CallTypes, LayoutFacts
<1>3. a \in Nat BY Sizes DEF Addresses
<1>4. c.op = "erase" => EraseEnd(c) \in Nat /\ EraseEnd(c) <= b + z BY EraseRange
<1> SUFFICES b <= a /\ a < b + z BY DEF RegionCells
<1>5. s <= a BY DEF Allowed
<1> HIDE DEF b, z, s
<1>6. CASE c.op = "erase" /\ a < EraseEnd(c) BY <1>1, <1>2, <1>3, <1>4, <1>5, <1>6
<1>7. CASE a < s + c.len BY <1>1, <1>2, <1>3, <1>5, <1>7
<1>8. ASSUME NEW x \in Nat, Multiple(x, DwSize), s <= x, x < s + c.len, a < x + DwSize
      PROVE  b <= a /\ a < b + z
  <2>1. Multiple(b + z, PageSize) /\ b + z \in Int BY <1>2, MultipleSum, Sizes
  <2>2. Multiple(b + z, DwSize) BY <2>1, MultipleTrans, Sizes
  <2>3. x < b + z BY <1>1, <1>2, <1>8
  <2>4. x + DwSize <= b + z
    <3> DEFINE y == b + z
    <3>1. x \in Int /\ y \in Int /\ Multiple(y, DwSize) /\ x < y /\ DwSize \in Nat \ {0}
      BY <2>1, <2>2, <2>3, Sizes
    <3> HIDE DEF y
    <3>2. x + DwSize <= y BY ONLY <3>1, Multiple(x, DwSize), MultipleStep
    <3> QED BY <3>2 DEF y
  <2> QED BY <1>1, <1>2, <1>3, <1>5, <1>8, <2>4, Sizes
<1> QED BY <1>6, <1>7, <1>8 DEF Allowed, s

\* Doublewords: a multiple x of their size is the doubleword of its cells and of no others.
LEMMA DoublewordOf ==
  ASSUME NEW a \in Nat, NEW x \in Nat, Multiple(x, DwSize)
  PROVE  /\ Doubleword(a) \in Nat /\ Multiple(Doubleword(a), DwSize)
         /\ Doubleword(a) <= a /\ a < Doubleword(a) + DwSize
         /\ Doubleword(a) = x <=> x <= a /\ a < x + DwSize
         /\ Doubleword(a) < x <=> a < x
<1> DEFINE w == DwSize
           q == a \div w
           r == a % w
           y == Doubleword(a)
<1>0. w \in Nat \ {0} BY Sizes
<1>1. q \in Nat /\ r \in 0..(w - 1) /\ a = q * w + r
  <2>1. w \in Nat \ {0} /\ a \in Nat /\ a \in Int BY <1>0
  <2> QED BY ONLY <2>1, DivParts
<1>2. y = a - r BY DEF Doubleword
<1> HIDE DEF w, q, r, y
<1>3. q * w \in Nat BY <1>0, <1>1, Distributes
<1>4. y = q * w BY <1>0, <1>1, <1>2, <1>3
<1>5. Multiple(y, w)
  <2>1. q \in Int BY <1>1
  <2> QED BY ONLY <2>1, <1>0, <1>4, IsMultiple
<1>6. y \in Nat /\ y \in Int /\ y <= a /\ a < y + w BY <1>0, <1>1, <1>2, <1>3, <1>4
<1>7. x \in Int /\ Multiple(x, w) BY DEF w
<1>8. y < x => y + w <= x BY ONLY <1>0, <1>5, <1>6, <1>7, MultipleStep
<1>9. x < y => x + w <= y BY ONLY <1>0, <1>5, <1>6, <1>7, MultipleStep
<1> QED BY <1>0, <1>5, <1>6, <1>7, <1>8, <1>9 DEF w, y

\* Pages p to before p + k of a bank: whole doublewords, a subset of a longer stretch.
LEMMA PageSpan ==
  ASSUME NEW b \in Banks, NEW p \in Nat, NEW k \in Nat
  PROVE  /\ BankBase(b) + p * PageSize \in Nat /\ BankBase(b) + (p + k) * PageSize \in Nat
         /\ Multiple(BankBase(b) + p * PageSize, DwSize)
         /\ Multiple(BankBase(b) + (p + k) * PageSize, DwSize)
         /\ BankBase(b) + p * PageSize <= BankBase(b) + (p + k) * PageSize
         /\ \A a \in Addresses : Doubleword(a) \in PageCells(b, p, k) => a \in PageCells(b, p, k)
<1> DEFINE base0 == BankBase(b)
           lo == base0 + p * PageSize
           hi == base0 + (p + k) * PageSize
<1>1. base0 \in Nat /\ Multiple(base0, PageSize) BY BankFacts
<1>2. ASSUME NEW m \in Nat PROVE base0 + m * PageSize \in Nat /\ Multiple(base0 + m * PageSize, DwSize)
  <2> DEFINE x == m * PageSize
  <2>1. m \in Int /\ PageSize \in Nat \ {0} /\ PageSize \in Nat /\ DwSize \in Nat \ {0} BY Sizes
  <2>2. Multiple(x, PageSize) BY ONLY <2>1, IsMultiple
  <2>3. x \in Nat BY ONLY <2>1, m \in Nat, Distributes
  <2> HIDE DEF x, base0
  <2>4. base0 \in Int /\ x \in Int /\ base0 + x \in Nat /\ base0 + x \in Int BY <1>1, <2>3
  <2>5. Multiple(base0 + x, PageSize) BY ONLY <1>1, <2>1, <2>2, <2>4, MultipleSum
  <2>6. Multiple(PageSize, DwSize) BY Sizes
  <2>7. Multiple(base0 + x, DwSize) BY ONLY <2>1, <2>4, <2>5, <2>6, MultipleTrans
  <2> QED BY <2>4, <2>7 DEF x
<1> HIDE DEF base0
<1>3. lo \in Nat /\ hi \in Nat /\ Multiple(lo, DwSize) /\ Multiple(hi, DwSize)
  <2>1. p + k \in Nat OBVIOUS
  <2> QED BY <1>2, <2>1
<1>4. lo <= hi
  <2>1. (p + k) * PageSize = p * PageSize + k * PageSize /\ k * PageSize \in Nat /\ p * PageSize \in Nat
    <3>1. p \in Int /\ k \in Int /\ PageSize \in Nat BY Sizes
    <3> QED BY ONLY <3>1, p \in Nat, k \in Nat, Distributes
  <2> HIDE DEF lo, hi
  <2>2. lo = base0 + p * PageSize /\ hi = base0 + (p * PageSize + k * PageSize) BY <2>1 DEF lo, hi
  <2> QED BY <1>1, <2>1, <2>2
<1>5. ASSUME NEW a \in Addresses, Doubleword(a) \in PageCells(b, p, k) PROVE a \in PageCells(b, p, k)
  <2>1. a \in Nat BY Sizes DEF Addresses
  <2>2. lo <= Doubleword(a) /\ Doubleword(a) < hi BY <1>5 DEF PageCells, base0
  <2> HIDE DEF lo, hi
  <2>3. Doubleword(a) \in Nat /\ Doubleword(a) <= a BY <1>3, <2>1, DoublewordOf
  <2>4. Doubleword(a) < hi <=> a < hi BY <1>3, <2>1, DoublewordOf
  <2>5. lo <= a /\ a < hi BY <1>3, <2>1, <2>2, <2>3, <2>4
  <2> QED BY <2>5 DEF PageCells, lo, hi, base0
<1> QED BY <1>3, <1>4, <1>5 DEF base0

\* Pages within those of an erase order are within its addresses.
LEMMA PagesInside ==
  ASSUME NEW o \in EraseRecords, NEW m \in Nat, NEW j \in Nat, m + j <= o.count,
         NEW a \in PageCells(o.bank, o.page + m, j)
  PROVE  a \in Addresses /\ First(o) <= a /\ a < Beyond(o)
<1> DEFINE lo(x) == BankBase(o.bank) + x * PageSize
           p == o.page
           n == o.count
<1>1. p \in Nat /\ n \in Nat /\ o.bank \in Banks /\ n - (m + j) \in Nat
  BY DEF EraseRecords
<1> HIDE DEF p, n
<1>2. a \in Addresses /\ lo(p + m) <= a /\ a < lo((p + m) + j) BY DEF PageCells, p
<1>3. \A x, y \in Nat : lo(x) \in Nat /\ lo(x) <= lo(x + y) BY <1>1, PageSpan
<1>4. First(o) = lo(p) /\ Beyond(o) = lo(p + n) BY DEF First, Beyond, p, n
<1>5. ((p + m) + j) + (n - (m + j)) = p + n BY <1>1
<1> HIDE DEF lo
<1>6. lo(p) <= lo(p + m) /\ lo(p) \in Nat /\ lo(p + m) \in Nat BY <1>1, <1>3
<1>7. lo((p + m) + j) <= lo(p + n) /\ lo((p + m) + j) \in Nat /\ lo(p + n) \in Nat
  <2>1. (p + m) + j \in Nat /\ p + n \in Nat BY <1>1
  <2>2. lo((p + m) + j) <= lo(((p + m) + j) + (n - (m + j))) BY <1>1, <1>3, <2>1
  <2> QED BY <1>3, <1>5, <2>1, <2>2
<1>8. a \in Nat BY <1>2, Sizes DEF Addresses
<1> QED BY <1>2, <1>4, <1>6, <1>7, <1>8

LEMMA EraseOrderFacts ==
  ASSUME base \in Layouts, NEW c \in Calls, Accepted(c), c.op = "erase",
         NEW k \in 1..Len(Orders(c)), NEW o, o = Orders(c)[k]
  PROVE  /\ o \in EraseRecords /\ o.kind = "erase"
         /\ \A m, j \in Nat : m + j <= o.count =>
              \A a \in PageCells(o.bank, o.page + m, j) :
                \A v \in {Erased, Torn} : a \in Addresses /\ Allowed(c, a, v)
<1>1. /\ o \in EraseRecords /\ Start(c) <= First(o) /\ Beyond(o) <= EraseEnd(c)
      /\ First(o) \in Nat /\ Beyond(o) \in Nat
  BY EraseOrdersCover
<1>2. Start(c) \in Nat /\ EraseEnd(c) \in Nat BY EraseRange
<1>3. ASSUME NEW m \in Nat, NEW j \in Nat, m + j <= o.count,
             NEW a \in PageCells(o.bank, o.page + m, j), NEW v \in {Erased, Torn}
      PROVE  a \in Addresses /\ Allowed(c, a, v)
  <2>1. a \in Addresses /\ First(o) <= a /\ a < Beyond(o) BY <1>1, <1>3, PagesInside
  <2>2. a \in Nat BY <2>1, Sizes DEF Addresses
  <2>3. Start(c) <= a /\ a < EraseEnd(c) BY <1>1, <1>2, <2>1, <2>2
  <2> QED BY <2>1, <2>3 DEF Allowed
<1> QED BY <1>1, <1>3 DEF EraseRecords

\* The pages of an erase order, all of them.
LEMMA EraseDoes ==
  ASSUME base \in Layouts, NEW c \in Calls, Accepted(c), c.op = "erase",
         NEW k \in 1..Len(Orders(c)), NEW o, o = Orders(c)[k],
         Blank, ErasePages(o)
  PROVE  /\ \A a \in Addresses : memory'[a] # memory[a] => Allowed(c, a, memory'[a])
         /\ \A a \in Addresses : memory'[a] \in {memory[a], Aim(c, a)}
         /\ \A a \in OrderCells(o) : memory'[a] = Aim(c, a)
         /\ Blank'
<1> DEFINE gone == PageCells(o.bank, o.page, o.count)
<1>1. /\ o \in EraseRecords /\ o.kind = "erase" /\ o.count \in Nat /\ o.page \in Nat /\ o.bank \in Banks
      /\ o.page + 0 = o.page /\ 0 + o.count <= o.count
  BY EraseOrderFacts DEF EraseRecords
<1>2. \A a \in gone : a \in Addresses /\ Allowed(c, a, Erased)
  <2>1. \A a \in PageCells(o.bank, o.page + 0, o.count) : a \in Addresses /\ Allowed(c, a, Erased)
    BY <1>1, EraseOrderFacts
  <2> QED BY <1>1, <2>1
<1>3. \A a \in Addresses : Doubleword(a) \in gone => a \in gone BY <1>1, PageSpan
<1>4. OrderCells(o) = gone /\ \A a : Aim(c, a) = Erased BY <1>1 DEF OrderCells, Aim
<1>5. /\ \A a \in Addresses : memory'[a] = IF a \in gone THEN Erased ELSE memory[a]
      /\ programmed' = programmed \ gone
  BY DEF ErasePages, Put
<1> HIDE DEF gone
<1>6. Blank'
  <2>1. ASSUME NEW a \in Addresses, Doubleword(a) \notin programmed' PROVE memory'[a] = Erased
    BY <1>3, <1>5, <2>1 DEF Blank
  <2> QED BY <2>1 DEF Blank
<1> QED BY <1>2, <1>4, <1>5, <1>6

\* The pages of an erase order up to the one where it stopped.
LEMMA EraseCut ==
  ASSUME base \in Layouts, NEW c \in Calls, Accepted(c), c.op = "erase",
         NEW k \in 1..Len(Orders(c)), NEW o, o = Orders(c)[k],
         Blank, EraseStops(o)
  PROVE  /\ \A a \in Addresses : memory'[a] # memory[a] => Allowed(c, a, memory'[a])
         /\ Blank'
<1>1. /\ o \in EraseRecords /\ o.count \in Nat \ {0} /\ o.page \in Nat /\ o.bank \in Banks
      /\ o.page + 0 = o.page
  BY EraseOrderFacts DEF EraseRecords
<1>2. PICK n \in 0..(o.count - 1) :
        LET gone == PageCells(o.bank, o.page, n)
            torn == PageCells(o.bank, o.page + n, 1)
        IN /\ memory' = [a \in Addresses |-> IF a \in torn THEN Torn ELSE Put(gone, Erased)[a]]
           /\ programmed' = (programmed \ gone) \cup {Doubleword(a) : a \in torn}
  BY DEF EraseStops
<1> DEFINE gone == PageCells(o.bank, o.page, n)
           torn == PageCells(o.bank, o.page + n, 1)
<1>3. n \in Nat /\ 0 + n <= o.count /\ n + 1 <= o.count BY <1>1
<1>4. \A a \in gone : a \in Addresses /\ Allowed(c, a, Erased)
  <2>1. \A a \in PageCells(o.bank, o.page + 0, n) : a \in Addresses /\ Allowed(c, a, Erased)
    BY <1>1, <1>3, EraseOrderFacts
  <2> QED BY <1>1, <2>1
<1>5. \A a \in torn : a \in Addresses /\ Allowed(c, a, Torn) BY <1>1, <1>3, EraseOrderFacts
<1>6. \A a \in Addresses : Doubleword(a) \in gone => a \in gone BY <1>1, <1>3, PageSpan
<1>7. /\ \A a \in Addresses : memory'[a] = IF a \in torn THEN Torn
                                           ELSE IF a \in gone THEN Erased ELSE memory[a]
      /\ programmed' = (programmed \ gone) \cup {Doubleword(a) : a \in torn}
  BY <1>2 DEF Put
<1> HIDE DEF gone, torn
<1>8. Blank'
  <2>1. ASSUME NEW a \in Addresses, Doubleword(a) \notin programmed' PROVE memory'[a] = Erased
    <3>1. a \notin torn BY <1>7, <2>1
    <3>2. Doubleword(a) \notin programmed \/ a \in gone BY <1>6, <1>7, <2>1
    <3> QED BY <1>7, <3>1, <3>2 DEF Blank
  <2> QED BY <2>1 DEF Blank
<1> QED BY <1>4, <1>5, <1>7, <1>8

LEMMA ProgramOrderFacts ==
  ASSUME base \in Layouts, NEW c \in Calls, Accepted(c), c.op = "write",
         NEW k \in 1..Len(Orders(c)), NEW o, o = Orders(c)[k], Programmable(o)
  PROVE  /\ o.kind = "program" /\ o.address \in Nat /\ Multiple(o.address, DwSize)
         /\ \A a \in Addresses : a \in DoublewordCells(o.address) <=> Doubleword(a) = o.address
         /\ \A a \in DoublewordCells(o.address) :
              /\ a \in Addresses /\ Allowed(c, a, Torn)
              /\ o.data[a - o.address + 1] = Wanted(c, a)
              /\ a < Start(c) + c.len \/ Wanted(c, a) = Erased
              /\ a < Start(c) + c.len => Allowed(c, a, Wanted(c, a))
<1> DEFINE x == o.address
           s == Start(c)
           i == (k - 1) * DwSize
<1>1. /\ o.kind = "program" /\ x = s + i /\ i \in Nat /\ i < c.len
      /\ \A a \in DoublewordCells(x) : o.data[a - x + 1] = Wanted(c, a)
  <2>1. Orders(c)[k] \in ProgramRecords BY ProgramOrdersCover
  <2>2. o.kind = "program" BY <2>1 DEF ProgramRecords
  <2> QED BY <2>2, ProgramOrdersCover
<1> HIDE DEF i
<1>2. s \in Nat /\ c.len \in Nat BY CallRange
<1> HIDE DEF s
<1>3. x \in Nat /\ Multiple(x, DwSize) /\ s <= x /\ x < s + c.len
  BY <1>1, <1>2 DEF Programmable, Multiple
<1>4. DoublewordCells(x) \subseteq Addresses BY DEF Programmable
<1> HIDE DEF x
<1>5. \A a \in Addresses : a \in Nat BY Sizes DEF Addresses
<1>6. ASSUME NEW a \in Addresses PROVE a \in DoublewordCells(x) <=> x <= a /\ a < x + DwSize
  <2>1. a \in Nat /\ DwSize \in Nat BY <1>5, Sizes
  <2> QED BY <1>3, <2>1 DEF DoublewordCells
<1>7. \A a \in Addresses : a \in DoublewordCells(x) <=> Doubleword(a) = x
  BY <1>3, <1>5, <1>6, DoublewordOf
<1>8. ASSUME NEW a \in DoublewordCells(x)
      PROVE  /\ a \in Addresses /\ Allowed(c, a, Torn)
             /\ a < s + c.len \/ Wanted(c, a) = Erased
             /\ a < s + c.len => Allowed(c, a, Wanted(c, a))
  <2>1. a \in Addresses /\ x <= a /\ a < x + DwSize BY <1>4, <1>6
  <2>2. s <= a BY <1>2, <1>3, <1>5, <2>1
  <2>3. Allowed(c, a, Torn) BY <1>3, <2>1, <2>2 DEF Allowed, s
  <2>4. a < s + c.len => Allowed(c, a, Wanted(c, a)) BY <2>2 DEF Allowed, s
  <2>5. a < s + c.len \/ Wanted(c, a) = Erased BY DEF Wanted, s
  <2> QED BY <2>1, <2>3, <2>4, <2>5
<1> QED BY <1>1, <1>3, <1>7, <1>8 DEF x, s

\* A program order puts data over erased bytes.
LEMMA ProgramDoes ==
  ASSUME base \in Layouts, NEW c \in Calls, Accepted(c), c.op = "write",
         NEW k \in 1..Len(Orders(c)), NEW o, o = Orders(c)[k],
         Blank, Program(o)
  PROVE  /\ \A a \in Addresses : memory'[a] # memory[a] => Allowed(c, a, memory'[a])
         /\ \A a \in Addresses : memory'[a] \in {memory[a], Aim(c, a)}
         /\ \A a \in OrderCells(o) : memory'[a] = Aim(c, a)
         /\ Blank'
<1> DEFINE these == DoublewordCells(o.address)
<1>1. Programmable(o) BY DEF Program
<1>2. /\ o.kind = "program"
      /\ \A a \in Addresses : a \in these <=> Doubleword(a) = o.address
      /\ \A a \in these : /\ a \in Addresses /\ o.data[a - o.address + 1] = Wanted(c, a)
                          /\ a < Start(c) + c.len \/ Wanted(c, a) = Erased
                          /\ a < Start(c) + c.len => Allowed(c, a, Wanted(c, a))
  BY <1>1, ProgramOrderFacts
<1>3. OrderCells(o) = these /\ \A a : Aim(c, a) = Wanted(c, a) BY <1>2 DEF OrderCells, Aim
<1>4. /\ memory' = [a \in Addresses |-> IF a \in these THEN o.data[a - o.address + 1] ELSE memory[a]]
      /\ programmed' = programmed \cup {o.address} /\ o.address \notin programmed
  BY DEF Program, Programmable
<1> HIDE DEF these
<1>5. \A a \in Addresses : memory'[a] = IF a \in these THEN Wanted(c, a) ELSE memory[a]
  BY <1>2, <1>4
<1>6. \A a \in these : memory[a] = Erased BY <1>2, <1>4 DEF Blank
<1>7. Blank'
  <2>1. ASSUME NEW a \in Addresses, Doubleword(a) \notin programmed' PROVE memory'[a] = Erased
    BY <1>2, <1>4, <1>5, <2>1 DEF Blank
  <2> QED BY <2>1 DEF Blank
<1> QED BY <1>2, <1>3, <1>5, <1>6, <1>7

\* A program order that fails leaves its doubleword alone, or torn.
LEMMA ProgramCut ==
  ASSUME base \in Layouts, NEW c \in Calls, Accepted(c), c.op = "write",
         NEW k \in 1..Len(Orders(c)), NEW o, o = Orders(c)[k],
         Blank, ProgramFails(o)
  PROVE  /\ \A a \in Addresses : memory'[a] # memory[a] => Allowed(c, a, memory'[a])
         /\ Blank'
<1>1. CASE UNCHANGED <<memory, programmed>> BY <1>1 DEF Blank
<1>2. CASE /\ Programmable(o)
           /\ memory' = Put(DoublewordCells(o.address), Torn)
           /\ programmed' = programmed \cup {o.address}
  <2> DEFINE these == DoublewordCells(o.address)
  <2>1. /\ \A a \in Addresses : a \in these <=> Doubleword(a) = o.address
        /\ \A a \in these : a \in Addresses /\ Allowed(c, a, Torn)
    BY <1>2, ProgramOrderFacts
  <2>2. \A a \in Addresses : memory'[a] = IF a \in these THEN Torn ELSE memory[a] BY <1>2 DEF Put
  <2> HIDE DEF these
  <2>3. ASSUME NEW a \in Addresses, Doubleword(a) \notin programmed' PROVE memory'[a] = Erased
    BY <1>2, <2>1, <2>2, <2>3 DEF Blank
  <2>4. Blank' BY <2>3 DEF Blank
  <2> QED BY <2>1, <2>2, <2>4
<1> QED BY <1>1, <1>2 DEF ProgramFails

-----------------------------------------------------------------------------
(* The invariant: what the orders of a call have done, and what is left     *)

\* The first n orders of the call are done, the others wait in todo.
Given(n) ==
  /\ todo = SubSeq(Orders(call), n + 1, Len(Orders(call)))
  /\ \A k \in 1..n : \A a \in Addresses :
       a \in OrderCells(Orders(call)[k]) => memory[a] = Aim(call, a)

CallInv ==
  /\ base \in Layouts
  /\ call \in Calls \cup {NoCall}
  /\ locked => todo = <<>>
  /\ ~locked => /\ call \in Calls /\ Accepted(call) /\ call.op \in {"erase", "write"}
                /\ \E n \in 0..Len(Orders(call)) : Given(n)
  /\ Blank

\* The orders follow from the call and the layout.
LEMMA OrdersFollow ==
  ASSUME base' = base, call' = call
  PROVE  /\ Orders(call)' = Orders(call) /\ Accepted(call)' = Accepted(call)
         /\ \A a : Aim(call, a)' = Aim(call, a)
  BY DEF Orders, EraseOrders, ProgramOrders, AbsAddr, Accepted, Aim, Wanted, Start

LEMMA OrdersAreASequence ==
  ASSUME base \in Layouts, NEW c \in Calls, Accepted(c), c.op \in {"erase", "write"}
  PROVE  Orders(c) \in Seq(EraseRecords \cup ProgramRecords) /\ Len(Orders(c)) \in Nat
<1>1. CASE c.op = "erase"
  <2>1. Orders(c) \in Seq(EraseRecords) BY <1>1, EraseOrdersCover
  <2> QED BY <2>1
<1>2. CASE c.op = "write"
  <2>1. Orders(c) \in Seq(ProgramRecords) BY <1>2, ProgramOrdersCover
  <2> QED BY <2>1
<1> QED BY <1>1, <1>2

LEMMA FlashStarts == Init => CallInv /\ ForeignKept
<1> SUFFICES ASSUME Init PROVE CallInv /\ ForeignKept OBVIOUS
<1>1. ForeignKept BY DEF Init, ForeignKept
<1>2. Blank BY DEF Init, Blank
<1> QED BY <1>1, <1>2 DEF Init, CallInv

\* The order at the head of todo is the next one of the call.
LEMMA NextOrder ==
  ASSUME CallInv, ~locked, todo # <<>>
  PROVE  \E n \in Nat : /\ n + 1 \in 1..Len(Orders(call)) /\ Given(n)
                        /\ todo[1] = Orders(call)[n + 1]
                        /\ Tail(todo) = SubSeq(Orders(call), (n + 1) + 1, Len(Orders(call)))
<1> DEFINE s == Orders(call)
<1>1. s \in Seq(EraseRecords \cup ProgramRecords) /\ Len(s) \in Nat
  BY OrdersAreASequence DEF CallInv
<1>2. PICK n \in 0..Len(s) : Given(n) BY DEF CallInv
<1>3. todo = SubSeq(s, n + 1, Len(s)) BY <1>2 DEF Given
<1> HIDE DEF s
<1>4. n < Len(s)
  <2> SUFFICES ASSUME n = Len(s) PROVE FALSE BY <1>1
  <2>1. n + 1 \in Int /\ Len(s) \in Int /\ Len(s) < n + 1 BY <1>1
  <2>2. SubSeq(s, n + 1, Len(s)) = <<>> BY ONLY <2>1, SubSeqEmpty
  <2> QED BY <1>3, <2>2
<1>5. n + 1 \in 1..Len(s) /\ Len(s) \in (n + 1)..Len(s) BY <1>1, <1>4
<1>6. Head(todo) = s[n + 1] /\ Tail(todo) = SubSeq(s, (n + 1) + 1, Len(s))
  BY ONLY <1>1, <1>3, <1>5, HeadTailOfSubSeq
<1>7. Head(todo) = todo[1] OBVIOUS
<1> QED BY <1>2, <1>5, <1>6, <1>7 DEF s

\* An order that succeeds: one more is done, and the earlier ones stay done.
LEMMA OperateKeeps ==
  ASSUME CallInv, Operate
  PROVE  /\ CallInv' /\ call \in Calls /\ Accepted(call)
         /\ \A a \in Addresses : memory'[a] # memory[a] => Allowed(call, a, memory'[a])
<1> DEFINE s == Orders(call)
<1>1. /\ ~locked /\ todo # <<>> /\ todo' = Tail(todo) /\ UNCHANGED <<base, locked, call, reply>>
      /\ \/ todo[1].kind = "erase" /\ ErasePages(todo[1])
         \/ todo[1].kind = "program" /\ Program(todo[1])
  BY DEF Operate
<1>2. /\ base \in Layouts /\ call \in Calls /\ Accepted(call) /\ call.op \in {"erase", "write"} /\ Blank
  BY <1>1 DEF CallInv
<1>3. PICK n \in Nat : /\ n + 1 \in 1..Len(s) /\ Given(n) /\ todo[1] = s[n + 1]
                       /\ Tail(todo) = SubSeq(s, (n + 1) + 1, Len(s))
  BY <1>1, NextOrder
<1>4. /\ \A a \in Addresses : memory'[a] # memory[a] => Allowed(call, a, memory'[a])
      /\ \A a \in Addresses : memory'[a] \in {memory[a], Aim(call, a)}
      /\ \A a \in OrderCells(s[n + 1]) : memory'[a] = Aim(call, a)
      /\ Blank'
  <2>1. CASE call.op = "erase"
    <3>1. todo[1].kind = "erase" BY <1>2, <1>3, <2>1, EraseOrderFacts
    <3>2. ErasePages(todo[1]) BY <1>1, <3>1
    <3> HIDE DEF s
    <3> QED BY <1>2, <1>3, <2>1, <3>2, EraseDoes DEF s
  <2>2. CASE call.op = "write"
    <3>1. todo[1].kind = "program"
      <4>1. s \in Seq(ProgramRecords) BY <1>2, <2>2, ProgramOrdersCover
      <4>2. s[n + 1] \in ProgramRecords BY <1>3, <4>1
      <4> QED BY <1>3, <4>2 DEF ProgramRecords
    <3>2. Program(todo[1]) BY <1>1, <3>1
    <3> HIDE DEF s
    <3> QED BY <1>2, <1>3, <2>2, <3>2, ProgramDoes DEF s
  <2> QED BY <1>2, <2>1, <2>2
<1>5. ASSUME NEW k \in 1..(n + 1), NEW a \in Addresses, a \in OrderCells(s[k])
      PROVE  memory'[a] = Aim(call, a)
  <2>1. CASE k = n + 1 BY <1>4, <1>5, <2>1
  <2>2. CASE k # n + 1
    <3>1. k \in 1..n BY <2>2
    <3>2. memory[a] = Aim(call, a) BY <1>3, <1>5, <3>1 DEF Given
    <3> QED BY <1>4, <3>2
  <2> QED BY <2>1, <2>2
<1>6. /\ s' = s /\ Accepted(call)' /\ call' = call /\ base' = base
      /\ \A a : Aim(call, a)' = Aim(call, a)
  BY <1>1, <1>2, OrdersFollow
<1>7. Given(n + 1)'
  <2> HIDE DEF s
  <2>1. todo' = SubSeq(s', (n + 1) + 1, Len(s')) BY <1>1, <1>3, <1>6
  <2>2. \A k \in 1..(n + 1) : \A a \in Addresses : a \in OrderCells(s'[k]) => memory'[a] = Aim(call, a)'
    BY <1>5, <1>6
  <2> QED BY <2>1, <2>2 DEF Given, s
<1>8. CallInv'
  <2>1. n + 1 \in 0..Len(s') BY <1>3, <1>6
  <2>2. \E m \in 0..Len(s') : Given(m)' BY <1>7, <2>1
  <2> QED BY <1>1, <1>2, <1>4, <1>6, <2>2 DEF CallInv
<1> QED BY <1>2, <1>4, <1>8

\* An order that fails ends the call.
LEMMA OrderFailsKeeps ==
  ASSUME CallInv, OrderFails
  PROVE  /\ CallInv' /\ call \in Calls /\ Accepted(call)
         /\ \A a \in Addresses : memory'[a] # memory[a] => Allowed(call, a, memory'[a])
<1> DEFINE s == Orders(call)
<1>1. /\ ~locked /\ todo # <<>> /\ locked' = TRUE /\ todo' = <<>> /\ call' = NoCall /\ base' = base
      /\ \/ todo[1].kind = "erase" /\ EraseStops(todo[1])
         \/ todo[1].kind = "program" /\ ProgramFails(todo[1])
  BY DEF OrderFails, Lock, Return
<1>2. /\ base \in Layouts /\ call \in Calls /\ Accepted(call) /\ call.op \in {"erase", "write"} /\ Blank
  BY <1>1 DEF CallInv
<1>3. PICK n \in Nat : n + 1 \in 1..Len(s) /\ todo[1] = s[n + 1]
  BY <1>1, NextOrder
<1>4. /\ \A a \in Addresses : memory'[a] # memory[a] => Allowed(call, a, memory'[a])
      /\ Blank'
  <2>1. CASE call.op = "erase"
    <3>1. todo[1].kind = "erase" BY <1>2, <1>3, <2>1, EraseOrderFacts
    <3>2. EraseStops(todo[1]) BY <1>1, <3>1
    <3> HIDE DEF s
    <3> QED BY <1>2, <1>3, <2>1, <3>2, EraseCut DEF s
  <2>2. CASE call.op = "write"
    <3>1. todo[1].kind = "program"
      <4>1. s \in Seq(ProgramRecords) BY <1>2, <2>2, ProgramOrdersCover
      <4>2. s[n + 1] \in ProgramRecords BY <1>3, <4>1
      <4> QED BY <1>3, <4>2 DEF ProgramRecords
    <3>2. ProgramFails(todo[1]) BY <1>1, <3>1
    <3> HIDE DEF s
    <3> QED BY <1>2, <1>3, <2>2, <3>2, ProgramCut DEF s
  <2> QED BY <1>2, <2>1, <2>2
<1>5. CallInv' BY <1>1, <1>2, <1>4 DEF CallInv
<1> QED BY <1>2, <1>4, <1>5

\* The other steps leave the flash alone.
LEMMA CallKeeps ==
  ASSUME CallInv, Request \/ Refuse \/ Read \/ Unlock \/ Finish \/ UNCHANGED vars
  PROVE  CallInv' /\ UNCHANGED <<memory, programmed>>
<1>1. Blank /\ base \in Layouts /\ call \in Calls \cup {NoCall} /\ (locked => todo = <<>>) BY DEF CallInv
<1>2. ASSUME UNCHANGED <<memory, programmed>> PROVE Blank' BY <1>1, <1>2 DEF Blank
<1>3. CASE Request
  <2>1. /\ UNCHANGED <<base, memory, programmed, locked, todo>> /\ call = NoCall /\ call' \in Calls
    BY <1>3 DEF Request
  <2>2. locked BY <2>1, NoCallAssumption DEF CallInv
  <2> QED BY <1>1, <1>2, <2>1, <2>2 DEF CallInv
<1>4. CASE Refuse \/ Read
  <2>1. /\ UNCHANGED <<base, memory, programmed, locked, todo>> /\ locked /\ call' = NoCall
    BY <1>4 DEF Refuse, Read, Return, Entered
  <2> QED BY <1>1, <1>2, <2>1 DEF CallInv
<1>5. CASE Unlock
  <2>1. /\ UNCHANGED <<base, memory, programmed>> /\ locked /\ call \in Calls /\ Accepted(call)
        /\ call.op \in {"erase", "write"}
    BY <1>1, <1>5, CallTypes DEF Unlock, Return, Entered, Ops
  <2>2. CASE locked' = locked /\ todo' = todo /\ call' = NoCall
    BY <1>1, <1>2, <2>1, <2>2 DEF CallInv
  <2>3. CASE locked' = FALSE /\ todo' = Orders(call) /\ call' = call
    <3> DEFINE s == Orders(call)
    <3>1. s' = s /\ Accepted(call)' BY <2>1, <2>3, OrdersFollow
    <3>2. s \in Seq(EraseRecords \cup ProgramRecords) /\ Len(s) \in Nat
      BY <1>1, <2>1, OrdersAreASequence
    <3>3. Given(0)'
      <4> HIDE DEF s
      <4>1. SubSeq(s, 1, Len(s)) = s BY ONLY <3>2, SubSeqFull
      <4>2. todo' = SubSeq(s', 0 + 1, Len(s')) BY <2>3, <3>1, <4>1 DEF s
      <4> QED BY <4>2 DEF Given, s
    <3>4. 0 \in 0..Len(s') BY <3>1, <3>2
    <3>5. \E n \in 0..Len(s') : Given(n)' BY <3>3, <3>4
    <3> QED BY <1>1, <1>2, <2>1, <2>3, <3>1, <3>5 DEF CallInv
  <2> QED BY <1>5, <2>2, <2>3 DEF Unlock, Return
<1>6. CASE Finish
  <2>1. UNCHANGED <<base, memory, programmed>> /\ call' = NoCall /\ locked' = TRUE /\ todo' = <<>>
    BY <1>6 DEF Finish, Lock, Return
  <2> QED BY <1>1, <1>2, <2>1 DEF CallInv
<1>7. CASE UNCHANGED vars
  <2>1. /\ UNCHANGED <<base, memory, programmed, locked, todo, call>>
        /\ Orders(call)' = Orders(call) /\ Accepted(call)' = Accepted(call)
        /\ \A a : Aim(call, a)' = Aim(call, a)
    BY <1>7, OrdersFollow DEF vars
  <2>2. ASSUME NEW n \in 0..Len(Orders(call)), Given(n) PROVE Given(n)' BY <2>1, <2>2 DEF Given
  <2> QED BY <1>2, <2>1, <2>2 DEF CallInv
<1> QED BY <1>3, <1>4, <1>5, <1>6, <1>7

\* What a step changes in the flash, it changes for the call and in the call's region.
LEMMA CallIsKept ==
  ASSUME CallInv, [Next]_vars
  PROVE  /\ CallInv' /\ base' = base
         /\ \A a \in Addresses : memory'[a] # memory[a] =>
              /\ call \in Calls /\ Accepted(call)
              /\ Allowed(call, a, memory'[a]) /\ a \in RegionCells(call.region)
<1>1. base \in Layouts BY DEF CallInv
<1>2. base' = base
  BY DEF Next, Request, Refuse, Read, Unlock, Operate, OrderFails, Finish, Return, vars
<1>3. CASE Operate \/ OrderFails
  BY <1>1, <1>2, <1>3, OperateKeeps, OrderFailsKeeps, AllowedInRegion
<1>4. CASE Request \/ Refuse \/ Read \/ Unlock \/ Finish \/ UNCHANGED vars
  BY <1>2, <1>4, CallKeeps
<1> QED BY <1>3, <1>4 DEF Next

THEOREM CallsAreServed == Spec => []CallInv
<1>1. Init => CallInv BY FlashStarts
<1>2. CallInv /\ [Next]_vars => CallInv' BY CallIsKept
<1> QED BY <1>1, <1>2, PTL DEF Spec

-----------------------------------------------------------------------------
(* The theorems *)

\* What lies outside the regions, the bootloader itself among it, is never touched:
\* an accepted range does not wrap, its pages end within the region, an erase that is
\* split at the bank boundary clears its own pages only, and padding a write does not
\* leave the region.
THEOREM OthersAreSpared == Spec => []ForeignKept
<1>1. Init => CallInv /\ ForeignKept BY FlashStarts
<1>2. CallInv /\ ForeignKept /\ [Next]_vars => (CallInv /\ ForeignKept)'
  <2> SUFFICES ASSUME CallInv, ForeignKept, [Next]_vars PROVE (CallInv /\ ForeignKept)' OBVIOUS
  <2>1. CallInv' /\ base' = base BY CallIsKept
  <2>2. ASSUME NEW a \in Addresses, ~InRegion(a)' PROVE memory'[a] = Foreign
    <3>1. ~InRegion(a) BY <2>1, <2>2 DEF InRegion
    <3>2. a \notin RegionCells(call.region) \/ call.region \notin Regions
      BY <3>1 DEF RegionCells, InRegion
    <3>3. call \in Calls => call.region \in Regions BY CallTypes
    <3>4. memory'[a] = memory[a] BY <3>2, <3>3, CallIsKept
    <3> QED BY <3>1, <3>4 DEF ForeignKept
  <2> QED BY <2>1, <2>2 DEF ForeignKept
<1> QED BY <1>1, <1>2, PTL DEF Spec

-----------------------------------------------------------------------------
(* The regions of bld_storage.h, step by step *)

\* Two numbers between neighbouring multiples share their unit; a multiple separates them.
LEMMA SameUnit ==
  ASSUME NEW u \in Nat \ {0}, NEW x \in Int, Multiple(x, u), NEW i \in Int, NEW j \in Int,
         x <= i, i < x + u, x <= j, j < x + u
  PROVE  i \div u = j \div u
<1> DEFINE p == x \div u
<1>1. p \in Int /\ x = p * u BY MultipleOf
<1> HIDE DEF p
<1>2. ASSUME NEW m \in Int, x <= m, m < x + u PROVE m \div u = p
  <2>1. m - x \in 0..(u - 1) BY <1>2
  <2>2. (p * u + (m - x)) \div u = p BY <1>1, <2>1, DivUnique
  <2>3. p * u + (m - x) = m BY <1>1
  <2> QED BY <2>2, <2>3
<1> QED BY <1>2

LEMMA OtherUnit ==
  ASSUME NEW u \in Nat \ {0}, NEW y \in Int, Multiple(y, u), NEW i \in Int, NEW j \in Int,
         i < y, y <= j
  PROVE  i \div u # j \div u
<1> SUFFICES ASSUME i \div u = j \div u PROVE FALSE OBVIOUS
<1> DEFINE q == i \div u
           z == q * u
           ri == i % u
           rj == j % u
<1>1. q \in Int /\ ri \in 0..(u - 1) /\ i = z + ri BY ONLY u \in Nat \ {0}, i \in Int, DivParts
<1>2. rj \in 0..(u - 1) /\ j = (j \div u) * u + rj BY ONLY u \in Nat \ {0}, j \in Int, DivParts
<1>3. j = z + rj BY <1>2
<1>4. Multiple(z, u) BY ONLY <1>1, u \in Nat \ {0}, IsMultiple
<1>5. z \in Int BY <1>1
<1> HIDE DEF z, ri, rj
<1>6. z < y BY <1>1, <1>5
<1>7. z + u <= y BY ONLY <1>4, <1>5, <1>6, u \in Nat \ {0}, y \in Int, Multiple(y, u), MultipleStep
<1> QED BY <1>2, <1>3, <1>5, <1>7

\* A cell of a region and its offset.
LEMMA CellFacts ==
  ASSUME base \in Layouts, NEW r \in Regions, NEW i \in 0..(RegionSize[r] - 1)
  PROVE  base[r] + i \in Addresses /\ base[r] + i \in RegionCells(r)
<1>1. /\ base[r] \in Nat /\ FlashBase <= base[r] /\ RegionSize[r] \in Nat
      /\ base[r] + RegionSize[r] <= FlashBase + 2 * BankSize
  BY LayoutFacts
<1>2. base[r] + i \in Addresses BY <1>1, Sizes DEF Addresses
<1> QED BY <1>1, <1>2 DEF RegionCells

\* Regions do not overlap.
LEMMA OneRegion ==
  ASSUME base \in Layouts, NEW r \in Regions, NEW s \in Regions,
         NEW a \in RegionCells(r), a \in RegionCells(s)
  PROVE  r = s
<1>1. /\ base[r] \in Nat /\ RegionSize[r] \in Nat /\ base[s] \in Nat /\ RegionSize[s] \in Nat
  BY LayoutFacts
<1>2. r # s => base[r] + RegionSize[r] <= base[s] \/ base[s] + RegionSize[s] <= base[r]
  BY FlashAssumption
<1>3. a \in Nat BY Sizes DEF RegionCells, Addresses
<1> QED BY <1>1, <1>2, <1>3 DEF RegionCells

\* The offsets of a call and its units, in terms of addresses.
LEMMA OffsetFacts ==
  ASSUME base \in Layouts, NEW c \in Calls, Accepted(c),
         NEW i \in 0..(RegionSize[c.region] - 1), NEW a, a = base[c.region] + i
  PROVE  /\ i \in Store!Asked(c) <=> Start(c) <= a /\ a < Start(c) + c.len
         /\ i - c.offset = a - Start(c)
         /\ c.op = "erase" =>
              (i \in Store!InUnits(c, PageSize) <=> Start(c) <= a /\ a < EraseEnd(c))
         /\ \A x \in Nat :
              /\ Multiple(x, DwSize) /\ Start(c) <= x /\ x < Start(c) + c.len
              /\ x <= a /\ a < x + DwSize
              => i \in Store!InUnits(c, DwSize)
<1> DEFINE b == base[c.region]
           z == RegionSize[c.region]
           f == c.offset
           n == c.len
           Offs == 0..(z - 1)
<1>1. /\ b \in Nat /\ z \in Nat /\ Multiple(b, PageSize) /\ Multiple(b, DwSize)
  <2>1. b \in Nat /\ z \in Nat /\ Multiple(b, PageSize) BY CallTypes, LayoutFacts
  <2> HIDE DEF b
  <2>2. b \in Int BY <2>1
  <2> QED BY <2>1, <2>2, MultipleTrans, Sizes
<1>2. /\ f \in Nat /\ n \in Nat \ {0} /\ f + n <= z /\ Start(c) = b + f
  BY CallTypes, CallRange DEF Start
<1>3. /\ \A k : k \in Store!Asked(c) <=> k \in Offs /\ f <= k /\ k < f + n
      /\ \A u, k : k \in Store!InUnits(c, u) <=>
                     k \in Offs /\ \E j \in Store!Asked(c) : k \div u = j \div u
  BY DEF Store!Asked, Store!InUnits
<1>4. i \in Offs /\ i \in Nat /\ a = b + i OBVIOUS
<1> DEFINE s == Start(c)
<1> HIDE DEF b, z, f, n, s
<1>5. i \in Store!Asked(c) <=> s <= a /\ a < s + n BY <1>1, <1>2, <1>3, <1>4 DEF s
<1>6. i - f = a - s BY <1>1, <1>2, <1>4 DEF s
<1>7. ASSUME c.op = "erase" PROVE i \in Store!InUnits(c, PageSize) <=> s <= a /\ a < EraseEnd(c)
  <2> DEFINE w == AlignUp(n, PageSize)
             P == PageSize
  <2>1. /\ w \in Nat /\ w < n + P /\ EraseEnd(c) = s + w
        /\ Multiple(s, P) /\ Multiple(s + w, P) /\ s + n <= s + w /\ s + w <= b + z
        /\ P \in Nat \ {0}
    BY <1>7, EraseRange, Sizes DEF EraseEnd, n, s, b, z
  <2> HIDE DEF w, P
  <2>2. Multiple(f, P) /\ Multiple(f + w, P) /\ Multiple(f + w - P, P)
    <3>1. s \in Int /\ b \in Int /\ s + w \in Int /\ f \in Int /\ P \in Int BY <1>1, <1>2, <2>1 DEF s
    <3>2. Multiple(b, P) BY <1>1 DEF P
    <3>3. Multiple(s - b, P) /\ Multiple((s + w) - b, P)
      BY ONLY <2>1, <3>1, <3>2, MultipleSum
    <3>4. s - b = f /\ (s + w) - b = f + w BY <1>1, <1>2, <2>1 DEF s
    <3>5. Multiple(P, P)
      <4>1. 1 \in Int /\ 1 * P = P BY <2>1
      <4> QED BY ONLY <2>1, <4>1, IsMultiple
    <3>6. f + w \in Int BY <1>2, <2>1
    <3>7. Multiple((f + w) - P, P)
      <4>1. Multiple(f + w, P) BY <3>3, <3>4
      <4> QED BY ONLY <2>1, <3>1, <3>5, <3>6, <4>1, MultipleSum
    <3>8. (f + w) - P = f + w - P BY <1>2, <2>1
    <3> QED BY <3>3, <3>4, <3>7, <3>8
  <2>3. ASSUME s <= a, a < s + w PROVE \E j \in Store!Asked(c) : i \div P = j \div P
    <3>1. CASE a < s + n BY <1>5, <2>3, <3>1
    <3>2. CASE s + n <= a
      <4> DEFINE j == f + n - 1
                 x == f + w - P
      <4>1. /\ j \in Int /\ x \in Int /\ x <= i /\ i < x + P /\ x <= j /\ j < x + P
        BY <1>1, <1>2, <1>4, <2>1, <2>3, <3>2 DEF s
      <4>2. j \in Store!Asked(c) BY <1>2, <1>1, <1>3
      <4> HIDE DEF j
      <4>3. Multiple(x, P) BY <2>2
      <4> HIDE DEF x
      <4>4. i \in Int BY <1>4
      <4>5. i \div P = j \div P BY ONLY <2>1, <4>1, <4>3, <4>4, SameUnit
      <4> QED BY <4>2, <4>5
    <3> QED BY <1>1, <1>2, <1>4, <3>1, <3>2 DEF s
  <2>4. ASSUME NEW j \in Store!Asked(c), i \div P = j \div P PROVE s <= a /\ a < s + w
    <3>1. j \in Int /\ i \in Int /\ f <= j /\ j < f + n /\ f \in Int BY <1>1, <1>2, <1>3, <1>4, <2>4
    <3>2. ~(i < f) BY ONLY <2>1, <2>2, <2>4, <3>1, OtherUnit
    <3>3. ~(f + w <= i)
      <4> DEFINE y == f + w
      <4>1. y \in Int /\ Multiple(y, P) /\ j < y
        <5>1. Multiple(y, P) BY <2>2
        <5>2. y \in Int /\ n <= w BY <1>1, <1>2, <2>1 DEF s
        <5>3. j < y BY <1>2, <2>1, <3>1, <5>2
        <5> QED BY <5>1, <5>2, <5>3
      <4> HIDE DEF y
      <4>2. ~(y <= i) BY ONLY <2>1, <2>4, <3>1, <4>1, OtherUnit
      <4> QED BY <4>2 DEF y
    <3> QED BY <1>1, <1>2, <1>4, <2>1, <3>1, <3>2, <3>3 DEF s
  <2>5. i \in Store!InUnits(c, P) <=> \E j \in Store!Asked(c) : i \div P = j \div P BY <1>3, <1>4
  <2> QED BY <2>1, <2>3, <2>4, <2>5 DEF P
<1>8. ASSUME NEW x \in Nat, Multiple(x, DwSize), s <= x, x < s + n, x <= a, a < x + DwSize
      PROVE  i \in Store!InUnits(c, DwSize)
  <2> DEFINE j == x - b
             w == DwSize
  <2>1. w \in Nat \ {0} BY Sizes
  <2>2. j \in Int /\ i \in Int /\ j <= i /\ i < j + w /\ j <= j /\ j < j + w /\ f <= j /\ j < f + n
        /\ j < z /\ 0 <= j
    <3> HIDE DEF w
    <3>1. x <= a /\ a < x + w BY <1>8 DEF w
    <3> QED BY <1>1, <1>2, <1>4, <1>8, <2>1, <3>1 DEF s
  <2>3. Multiple(j, w)
    <3>1. x \in Int /\ b \in Int /\ Multiple(x, w) /\ Multiple(b, w) BY <1>1, <1>8
    <3> QED BY ONLY <2>1, <3>1, MultipleSum
  <2>4. j \in Store!Asked(c) BY <1>1, <1>2, <1>3, <2>2
  <2> HIDE DEF j, w
  <2>5. i \div w = j \div w BY ONLY <2>1, <2>2, <2>3, SameUnit
  <2>6. i \in Store!InUnits(c, w) BY <1>3, <1>4, <2>4, <2>5
  <2> QED BY <2>6 DEF w
<1> QED BY <1>5, <1>6, <1>7, <1>8 DEF s, n, f

Cells == [r \in Regions |-> [i \in 0..(RegionSize[r] - 1) |-> memory[base[r] + i]]]

\* What a step may change in the flash, it may change in the regions.
LEMMA TouchesRegion ==
  ASSUME CallInv, base' = base, call # NoCall,
         \A a \in Addresses : memory'[a] # memory[a] =>
           /\ call \in Calls /\ Accepted(call)
           /\ Allowed(call, a, memory'[a]) /\ a \in RegionCells(call.region)
  PROVE  Store!Touched
<1>1. ASSUME NEW r \in Regions, NEW i \in 0..(RegionSize[r] - 1),
             memory'[base[r] + i] # memory[base[r] + i]
      PROVE  /\ r = call.region
             /\ \/ /\ call.op = "erase" /\ i \in Store!InUnits(call, PageSize)
                   /\ memory'[base[r] + i] \in {Erased, Torn}
                \/ /\ call.op = "write" /\ i \in Store!InUnits(call, DwSize)
                   /\ memory'[base[r] + i] = Torn
                \/ /\ call.op = "write" /\ i \in Store!Asked(call)
                   /\ memory'[base[r] + i] = call.data[i - call.offset + 1]
  <2> DEFINE a == base[r] + i
             v == memory'[a]
  <2>1. base \in Layouts /\ a \in Addresses /\ a \in RegionCells(r) BY CellFacts DEF CallInv
  <2>2. /\ call \in Calls /\ Accepted(call) /\ Allowed(call, a, v) /\ a \in RegionCells(call.region)
        /\ call.region \in Regions
    BY <1>1, <2>1, CallTypes
  <2>3. r = call.region
    <3> HIDE DEF a
    <3> QED BY <2>1, <2>2, OneRegion
  <2>4. i \in 0..(RegionSize[call.region] - 1) /\ a = base[call.region] + i BY <2>3
  <2> HIDE DEF a, v
  <2>5. /\ i \in Store!Asked(call) <=> Start(call) <= a /\ a < Start(call) + call.len
        /\ i - call.offset = a - Start(call)
        /\ call.op = "erase" =>
             (i \in Store!InUnits(call, PageSize) <=> Start(call) <= a /\ a < EraseEnd(call))
        /\ \A x \in Nat :
             /\ Multiple(x, DwSize) /\ Start(call) <= x /\ x < Start(call) + call.len
             /\ x <= a /\ a < x + DwSize
             => i \in Store!InUnits(call, DwSize)
    BY <2>1, <2>2, <2>4, OffsetFacts
  <2>6. Start(call) <= a BY <2>2 DEF Allowed
  <2>7. CASE call.op = "erase" /\ a < EraseEnd(call) /\ v \in {Erased, Torn}
    BY <2>3, <2>5, <2>6, <2>7 DEF a, v
  <2>8. CASE /\ call.op = "write" /\ v = Torn
             /\ \E x \in Nat : /\ Multiple(x, DwSize) /\ Start(call) <= x
                               /\ x < Start(call) + call.len /\ x <= a /\ a < x + DwSize
    BY <2>3, <2>5, <2>8 DEF a, v
  <2>9. CASE call.op = "write" /\ a < Start(call) + call.len /\ v = Wanted(call, a)
    <3>1. v = call.data[a - Start(call) + 1] BY <2>9 DEF Wanted
    <3> QED BY <2>3, <2>5, <2>6, <2>9, <3>1 DEF a, v
  <2> QED BY <2>2, <2>7, <2>8, <2>9 DEF Allowed
<1>2. /\ \A r \in Regions : DOMAIN Cells[r] = 0..(RegionSize[r] - 1)
      /\ \A r \in Regions : \A i \in 0..(RegionSize[r] - 1) :
           Cells[r][i] = memory[base[r] + i] /\ Cells'[r][i] = memory'[base[r] + i]
  BY DEF Cells
<1> QED BY <1>1, <1>2 DEF Store!Touched, Cells

\* When all orders of a call are done, the call has done what it promised.
LEMMA AllDone ==
  ASSUME CallInv, ~locked, todo = <<>>
  PROVE  Store!Done(call)
<1> DEFINE c == call
           s == Orders(c)
<1>1. /\ base \in Layouts /\ c \in Calls /\ Accepted(c) /\ c.op \in {"erase", "write"}
  BY DEF CallInv
<1>2. s \in Seq(EraseRecords \cup ProgramRecords) /\ Len(s) \in Nat BY <1>1, OrdersAreASequence
<1>3. Given(Len(s))
  <2>1. PICK n \in 0..Len(s) : Given(n) BY DEF CallInv
  <2>2. todo = SubSeq(s, n + 1, Len(s)) BY <2>1 DEF Given
  <2>3. ASSUME n < Len(s) PROVE FALSE
    <3> HIDE DEF s
    <3>1. /\ n + 1 \in Int /\ Len(s) \in Int /\ n + 1 <= Len(s)
          /\ \A i \in (n + 1)..Len(s) : s[i] \in EraseRecords \cup ProgramRecords
          /\ Len(s) - (n + 1) + 1 # 0
      BY <1>2, <2>3
    <3>2. Len(SubSeq(s, n + 1, Len(s))) = Len(s) - (n + 1) + 1 BY ONLY <3>1, SubSeqProperties
    <3> DEFINE z == SubSeq(s, n + 1, Len(s))
    <3>3. z = <<>> BY <2>2 DEF s
    <3>4. Len(z) = Len(s) - (n + 1) + 1 BY <3>2
    <3> HIDE DEF z
    <3>5. Len(z) = 0 BY <3>3
    <3> QED BY <3>1, <3>4, <3>5
  <2>4. n = Len(s) BY <1>2, <2>3
  <2> QED BY <2>1, <2>4
<1>4. \A k \in 1..Len(s) : \A a \in Addresses : a \in OrderCells(s[k]) => memory[a] = Aim(c, a)
  BY <1>2, <1>3 DEF Given
<1>5. /\ c.region \in Regions /\ c.len \in Nat \ {0} /\ c.offset + c.len <= RegionSize[c.region]
  BY <1>1, CallTypes, CallRange
<1>6. \A i \in 0..(RegionSize[c.region] - 1) : Cells[c.region][i] = memory[base[c.region] + i]
  BY <1>5 DEF Cells
<1>7. ASSUME c.op = "erase", NEW i \in Store!InUnits(c, PageSize)
      PROVE  memory[base[c.region] + i] = Erased
  <2> DEFINE a == base[c.region] + i
  <2>1. i \in 0..(RegionSize[c.region] - 1) BY DEF Store!InUnits
  <2>2. Start(c) <= a /\ a < EraseEnd(c) BY <1>1, <1>7, <2>1, OffsetFacts
  <2>3. a \in Addresses /\ a \in Nat BY <1>1, <1>5, <2>1, CellFacts, Sizes DEF Addresses
  <2> HIDE DEF a
  <2>4. PICK k \in 1..Len(s) : First(s[k]) <= a /\ a < Beyond(s[k])
    BY <1>1, <1>7, <2>2, <2>3, EraseOrdersCover
  <2>5. s[k].kind = "erase" BY <1>1, <1>7, EraseOrderFacts
  <2>6. a \in OrderCells(s[k]) BY <2>3, <2>4, <2>5 DEF OrderCells, PageCells, First, Beyond
  <2>7. memory[a] = Aim(c, a) BY <1>4, <2>3, <2>6
  <2> QED BY <1>7, <2>7 DEF a, Aim
<1>8. ASSUME c.op = "write", NEW i \in Store!Asked(c)
      PROVE  memory[base[c.region] + i] = c.data[i - c.offset + 1]
  <2> DEFINE a == base[c.region] + i
  <2>1. i \in 0..(RegionSize[c.region] - 1) BY DEF Store!Asked
  <2>2. Start(c) <= a /\ a < Start(c) + c.len /\ i - c.offset = a - Start(c)
    BY <1>1, <1>8, <2>1, OffsetFacts
  <2>3. a \in Addresses /\ a \in Nat BY <1>1, <1>5, <2>1, CellFacts, Sizes DEF Addresses
  <2> HIDE DEF a
  <2>4. PICK k \in 1..Len(s) : a \in DoublewordCells(s[k].address)
    BY <1>1, <1>8, <2>2, <2>3, ProgramOrdersCover
  <2>5. s[k].kind = "program"
    <3>1. s \in Seq(ProgramRecords) BY <1>1, <1>8, ProgramOrdersCover
    <3>2. s[k] \in ProgramRecords BY <3>1
    <3> QED BY <3>2 DEF ProgramRecords
  <2>6. a \in OrderCells(s[k]) BY <2>4, <2>5 DEF OrderCells
  <2>7. memory[a] = Wanted(c, a) BY <1>4, <1>8, <2>3, <2>6 DEF Aim
  <2> QED BY <2>2, <2>7 DEF a, Wanted
<1>9. /\ \A i \in Store!InUnits(c, PageSize) : i \in 0..(RegionSize[c.region] - 1)
      /\ \A i \in Store!Asked(c) : i \in 0..(RegionSize[c.region] - 1)
  BY DEF Store!InUnits, Store!Asked
<1>10. c.len > 0 BY <1>5
<1>11. c.op = "erase" => \A i \in Store!InUnits(c, PageSize) : Cells[c.region][i] = Erased
  BY <1>6, <1>7, <1>9
<1>12. c.op = "write" =>
         \A i \in Store!Asked(c) : Cells[c.region][i] = c.data[i - c.offset + 1]
  BY <1>6, <1>8, <1>9
<1> HIDE DEF c
<1>13. Store!Done(c) BY <1>5, <1>10, <1>11, <1>12 DEF Store!Done, Cells
<1> QED BY <1>13 DEF c

\* A read returns the bytes of the call.
LEMMA ReadReturns ==
  ASSUME CallInv, Read
  PROVE  /\ Store!Done(call)
         /\ [k \in 1..call.len |-> At(AbsAddr(call) + k - 1)] =
              [k \in 1..call.len |-> Cells[call.region][call.offset + k - 1]]
<1> DEFINE c == call
           b == base[c.region]
<1>1. base \in Layouts /\ c \in Calls /\ Accepted(c) /\ c.op = "read"
  BY DEF Read, Entered, CallInv
<1>2. /\ c.region \in Regions /\ c.offset \in Nat /\ c.len \in Nat \ {0}
      /\ c.offset + c.len <= RegionSize[c.region] /\ AbsAddr(c) = b + c.offset
      /\ b \in Nat /\ RegionSize[c.region] \in Nat
  BY <1>1, CallTypes, CallRange, LayoutFacts DEF Start
<1>3. ASSUME NEW k \in 1..c.len
      PROVE  At(AbsAddr(c) + k - 1) = Cells[c.region][c.offset + k - 1]
  <2> DEFINE i == c.offset + k - 1
  <2>1. i \in 0..(RegionSize[c.region] - 1) /\ AbsAddr(c) + k - 1 = b + i BY <1>2
  <2> HIDE DEF i
  <2>2. b + i \in Addresses BY <1>1, <1>2, <2>1, CellFacts
  <2>3. At(b + i) = memory[b + i] BY <2>2 DEF At
  <2>4. Cells[c.region][i] = memory[b + i] BY <1>2, <2>1 DEF Cells
  <2>5. At(AbsAddr(c) + k - 1) = Cells[c.region][i] BY <2>1, <2>3, <2>4
  <2> QED BY <2>5 DEF i
<1>4. Store!Done(call) BY <1>1, <1>2 DEF Store!Done
<1> QED BY <1>3, <1>4

LEMMA StoreStarts == Init => Store!StoreInit
<1> SUFFICES ASSUME Init PROVE Store!StoreInit OBVIOUS
<1>1. base \in Layouts /\ memory = [a \in Addresses |-> IF InRegion(a) THEN Erased ELSE Foreign]
  BY DEF Init
<1>2. ASSUME NEW r \in Regions, NEW i \in 0..(RegionSize[r] - 1) PROVE memory[base[r] + i] = Erased
  <2>1. base[r] + i \in Addresses /\ InRegion(base[r] + i)
    BY <1>1, CellFacts DEF RegionCells, InRegion
  <2> QED BY <1>1, <2>1
<1>3. Cells = [r \in Regions |-> [i \in 0..(RegionSize[r] - 1) |-> Erased]] BY <1>2 DEF Cells
<1> QED BY <1>3 DEF Init, Store!StoreInit, Cells, NoReply, Store!NoReply

LEMMA StoreSteps ==
  ASSUME CallInv, [Next]_vars
  PROVE  [Store!StoreNext]_(Store!storeVars)
<1> USE DEF NoReply, Store!NoReply
<1>1. CASE Request
  <2>1. UNCHANGED Cells BY <1>1 DEF Request, Cells
  <2>2. call' \in Calls /\ call = NoCall /\ reply' = NoReply BY <1>1 DEF Request
  <2>3. call' # NoCall /\ call'.op \in Ops /\ call'.region \in Regions
    BY <2>2, NoCallAssumption, CallTypes
  <2> QED BY <2>1, <2>2, <2>3 DEF Store!StoreNext, Store!Ask, Cells, Ops, Store!Ops
<1>2. CASE Refuse \/ (Unlock /\ call' = NoCall /\ reply' = [status |-> "error", data |-> <<>>])
  <2>1. /\ call # NoCall /\ UNCHANGED <<base, memory>> /\ call' = NoCall
        /\ reply' = [status |-> "error", data |-> <<>>]
    BY <1>2 DEF Refuse, Unlock, Return, Entered
  <2>2. Store!Touched BY <2>1, TouchesRegion
  <2> QED BY <2>1, <2>2 DEF Store!StoreNext, Store!Fail
<1>3. CASE Read
  <2>1. /\ call # NoCall /\ UNCHANGED Cells /\ call' = NoCall /\ call.op = "read"
        /\ reply' = [status |-> "ok", data |-> [k \in 1..call.len |-> At(AbsAddr(call) + k - 1)]]
    BY <1>3 DEF Read, Return, Entered, Cells
  <2> QED BY <1>3, <2>1, ReadReturns DEF Store!StoreNext, Store!Succeed, Cells
<1>4. CASE Unlock /\ UNCHANGED <<base, call, reply>>
  <2>1. UNCHANGED Cells BY <1>4 DEF Unlock, Cells
  <2> QED BY <1>4, <2>1 DEF Store!storeVars, Cells
<1>5. CASE Operate
  <2>1. UNCHANGED <<base, call, reply>> BY <1>5 DEF Operate
  <2>2. call \in Calls BY <1>5, OperateKeeps
  <2>3. call # NoCall BY <2>2, NoCallAssumption
  <2>4. Store!Touched BY <2>1, <2>3, CallIsKept, TouchesRegion
  <2> QED BY <2>1, <2>3, <2>4 DEF Store!StoreNext, Store!Work
<1>6. CASE OrderFails
  <2>1. base' = base /\ call' = NoCall /\ reply' = [status |-> "error", data |-> <<>>]
    BY <1>6 DEF OrderFails, Return
  <2>2. call \in Calls BY <1>6, OrderFailsKeeps
  <2>3. call # NoCall BY <2>2, NoCallAssumption
  <2>4. Store!Touched BY <2>1, <2>3, CallIsKept, TouchesRegion
  <2> QED BY <2>1, <2>3, <2>4 DEF Store!StoreNext, Store!Fail
<1>7. CASE Finish
  <2>1. /\ ~locked /\ todo = <<>> /\ UNCHANGED Cells /\ call' = NoCall
        /\ reply' = [status |-> "ok", data |-> <<>>]
    BY <1>7 DEF Finish, Return, Cells
  <2>2. call \in Calls /\ call.op # "read" BY <2>1 DEF CallInv
  <2>3. call # NoCall BY <2>2, NoCallAssumption
  <2>4. Store!Done(call) BY <2>1, AllDone
  <2> QED BY <2>1, <2>2, <2>3, <2>4 DEF Store!StoreNext, Store!Succeed, Cells
<1>8. CASE UNCHANGED vars
  <2>1. UNCHANGED Cells BY <1>8 DEF vars, Cells
  <2> QED BY <1>8, <2>1 DEF Store!storeVars, Cells, vars
<1>9. Unlock => \/ Unlock /\ UNCHANGED <<base, call, reply>>
                \/ Unlock /\ call' = NoCall /\ reply' = [status |-> "error", data |-> <<>>]
  BY DEF Unlock, Return
<1> QED BY <1>1, <1>2, <1>3, <1>4, <1>5, <1>6, <1>7, <1>8, <1>9 DEF Next

\* The backend keeps the promise of bld_storage.h: addresses, banks, pages and
\* doublewords, and any order that fails, look to the caller like regions of which a call
\* changes the units it names, and after "ok" everything was done.
THEOREM BackendIsAStore == Spec => ImplementsRegionStore
<1>1. Init => Store!StoreInit BY StoreStarts
<1>2. CallInv /\ [Next]_vars => [Store!StoreNext]_(Store!storeVars) BY StoreSteps
<1> QED BY <1>1, <1>2, CallsAreServed, PTL DEF Spec, ImplementsRegionStore, Store!StoreSpec
=============================================================================
