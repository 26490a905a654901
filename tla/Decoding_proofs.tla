--------------------------- MODULE Decoding_proofs ---------------------------
(***************************************************************************)
(* Proofs about SampleDecode, for words of any width and any regions,      *)
(* aggregators, interfaces and allowlists, and about SafeExpression, for   *)
(* any limits, expressions and inputs.                                     *)
(***************************************************************************)
EXTENDS SampleDecode, SafeExpression, WellFoundedInduction, TLAPS

LEMMA LeastExists ==
  ASSUME NEW T \in SUBSET Nat, T # {}
  PROVE  \E x \in T : \A y \in T : x <= y
<1> DEFINE R == {r \in Nat \X Nat : r[1] < r[2]}
<1>1. IsWellFoundedOn(R, Nat)
  BY NatLessThanWellFounded DEF OpToRel
<1>2. PICK x \in T : \A y \in T : <<y, x>> \notin R
  <2>1. T \subseteq Nat /\ T # {}
    OBVIOUS
  <2> HIDE DEF R
  <2>2. \E x \in T : \A y \in T : ~ (<<y, x>> \in R)
    BY <1>1, <2>1, WFMin, ZenonT(30)
  <2> QED  BY <2>2
<1>3. ASSUME NEW y \in T PROVE x <= y
  <2>1. ~ (<<y, x>>[1] < <<y, x>>[2])
    BY <1>2
  <2> QED  BY <2>1
<1> QED  BY <1>3

LEMMA GreatestExists ==
  ASSUME NEW n \in Nat, NEW T \in SUBSET (0..n), T # {}
  PROVE  \E x \in T : \A y \in T : x >= y
<1> DEFINE below == {n - x : x \in T}
<1>1. PICK b \in below : \A c \in below : b <= c
  <2>1. \A x \in T : n - x \in Nat
    OBVIOUS
  <2>2. below \in SUBSET Nat /\ below # {}
    BY <2>1
  <2> HIDE DEF below
  <2> QED  BY <2>2, LeastExists
<1>2. PICK x \in T : b = n - x
  BY <1>1
<1>3. \A y \in T : n - y \in below
  OBVIOUS
<1>4. \A y \in T : y \in Nat
  OBVIOUS
<1> HIDE DEF below
<1> QED  BY <1>1, <1>2, <1>3, <1>4

LEMMA MaxFact ==
  ASSUME NEW n \in Nat, NEW T \in SUBSET (0..n), T # {}
  PROVE  Max(T) \in T /\ \A y \in T : y <= Max(T)
BY GreatestExists DEF Max

-----------------------------------------------------------------------------
(* Bit fields.                                                             *)

LEMMA WidthNat == Width \in Nat \ {0}
BY WidthAssumption DEF Width

\* 2^n - 1 has the bits below n, also where the shift left the word.
LEMMA OnesBelow ==
  ASSUME NEW n \in Nat
  PROVE  MinusOne(ShiftLeftOne(n)) = {b \in Bits : b < n}
<1> USE WidthNat
<1>1. CASE n < Width
  <2>1. Min({n}) = n
    BY DEF Min
  <2>2. MinusOne({n}) = 0..(n - 1)
    BY <2>1 DEF MinusOne
  <2> QED  BY <1>1, <2>2 DEF ShiftLeftOne, Bits
<1>2. CASE ~(n < Width)
  BY <1>2 DEF ShiftLeftOne, MinusOne, Bits
<1> QED  BY <1>1, <1>2

LEMMA MaskBits ==
  ASSUME NEW msb \in Nat, NEW lsb \in Nat
  PROVE  CalculateMask(msb, lsb) = {b \in Bits : lsb <= b /\ b <= msb}
<1>1. Bits \subseteq Nat
  BY WidthNat DEF Bits
<1>2. /\ MinusOne(ShiftLeftOne(msb + 1)) = {b \in Bits : b < msb + 1}
      /\ MinusOne(ShiftLeftOne(lsb)) = {b \in Bits : b < lsb}
  BY OnesBelow
<1> HIDE DEF Bits
<1>3. \A b \in Bits : (b < msb + 1 <=> b <= msb) /\ (~(b < lsb) <=> lsb <= b)
  BY <1>1
<1>4. {b \in Bits : b < msb + 1} \ {b \in Bits : b < lsb} = {b \in Bits : lsb <= b /\ b <= msb}
  BY <1>3
<1> QED  BY <1>2, <1>4 DEF CalculateMask

\* The two collectors mask and shift alike, whatever there is of the container.
LEMMA SameField ==
  ASSUME NEW group, NEW sample, sample.lsb \in Nat, sample.msb \in Nat
  PROVE  PyField(group, sample) = GoField(group, sample)
<1> DEFINE lsb == sample.lsb
           msb == sample.msb
<1>1. Bits \subseteq Nat
  BY WidthNat DEF Bits
<1>2. (Bits \cap 0..msb) \ (Bits \cap 0..(lsb - 1)) = {b \in Bits : lsb <= b /\ b <= msb}
  <2> HIDE DEF Bits
  <2>1. \A b \in Bits : (b \in 0..msb <=> b <= msb) /\ (b \notin 0..(lsb - 1) <=> lsb <= b)
    BY <1>1
  <2> QED  BY <2>1
<1>3. CalculateMask(msb, lsb) = {b \in Bits : lsb <= b /\ b <= msb}
  BY MaskBits
<1> QED  BY <1>2, <1>3 DEF PyField, GoField

LEMMA DivMod ==
  ASSUME NEW d \in Nat \ {0}, NEW q \in Nat, NEW r \in 0..(d - 1)
  PROVE  (q * d + r) \div d = q /\ (q * d + r) % d = r
OBVIOUS

LEMMA QuotientRemainder ==
  ASSUME NEW d \in Nat \ {0}, NEW n \in Nat
  PROVE  n \div d \in Nat /\ n % d \in 0..(d - 1) /\ n = (n \div d) * d + (n % d)
<1>1. n % d \in 0..(d - 1)
  OBVIOUS
<1>2. n \div d \in Nat
  OBVIOUS
<1>3. n = (n \div d) * d + (n % d)
  OBVIOUS
<1> QED  BY <1>1, <1>2, <1>3

\* Position i of m, each of d, is below m * d.
LEMMA BelowProduct ==
  ASSUME NEW d \in Nat \ {0}, NEW m \in Nat, NEW i \in Nat, NEW r \in 0..(d - 1)
  PROVE  i < m <=> i * d + r < d * m
<1>1. CASE i < m
  <2>1. (i + 1) * d <= m * d
    BY <1>1
  <2> QED  BY <2>1, <1>1
<1>2. CASE m <= i
  <2>1. m * d <= i * d
    BY <1>2
  <2> QED  BY <2>1, <1>2
<1> QED  BY <1>1, <1>2

\* The container of a group that fits, bit by bit.
LEMMA ContainerBits ==
  ASSUME region \in Seq(Byte), NEW group, group.id \in Nat, Fits(group)
  PROVE  LittleEndian(Slice(group)) =
           {p \in Bits : RegionBit(ByteOffset(group) * ByteBits + p)}
<1> DEFINE off == ByteOffset(group)
           bytes == Slice(group)
<1> USE WidthAssumption
<1>1. off \in Nat /\ off + ContainerBytes <= Len(region) /\ Len(region) \in Nat
  <2>1. \A i, n \in Nat : i * n \in Nat
    OBVIOUS
  <2> QED  BY <2>1 DEF ByteOffset, Fits
<1>2. /\ Len(bytes) = ContainerBytes
      /\ \A i \in 0..(ContainerBytes - 1) : bytes[i + 1] = region[off + i + 1]
      /\ \A i \in 0..(ContainerBytes - 1) : region[off + i + 1] \subseteq 0..(ByteBits - 1)
  <2>1. bytes = SubSeq(region, off + 1, off + ContainerBytes)
    BY <1>1 DEF Slice
  <2> HIDE DEF off, bytes
  <2>2. \A i \in 0..(ContainerBytes - 1) : region[off + i + 1] \in Byte
    BY <1>1
  <2> QED  BY <1>1, <2>1, <2>2 DEF Byte
<1> DEFINE Place(i, b) == i * ByteBits + b
<1>3. \A p : p \in LittleEndian(bytes) <=>
        \E i \in 0..(ContainerBytes - 1) : \E b \in region[off + i + 1] : p = Place(i, b)
  <2>1. \A p : p \in LittleEndian(bytes) <=>
          \E i \in 0..(ContainerBytes - 1) : \E b \in bytes[i + 1] : p = Place(i, b)
    BY <1>2 DEF LittleEndian
  <2> HIDE DEF bytes, off, Place
  <2> QED  BY <2>1, <1>2
<1>4. ASSUME NEW i \in 0..(ContainerBytes - 1), NEW b \in region[off + i + 1]
      PROVE  Place(i, b) \in Bits /\ RegionBit(off * ByteBits + Place(i, b))
  <2>1. b \in 0..(ByteBits - 1)
    BY <1>2
  <2>2. Place(i, b) < ByteBits * ContainerBytes
    BY <2>1, BelowProduct
  <2>3. Place(i, b) \in Nat
    BY <2>1
  <2>4. off * ByteBits + Place(i, b) = (off + i) * ByteBits + b
    BY <1>1, <2>1
  <2>5. /\ ((off + i) * ByteBits + b) \div ByteBits = off + i
        /\ ((off + i) * ByteBits + b) % ByteBits = b
    <3> DEFINE q == off + i
    <3>1. q \in Nat
      BY <1>1, <2>1
    <3> HIDE DEF q
    <3>2. (q * ByteBits + b) \div ByteBits = q /\ (q * ByteBits + b) % ByteBits = b
      BY <3>1, <2>1, DivMod
    <3> QED  BY <3>2 DEF q
  <2>6. Place(i, b) \in Bits
    BY <2>2, <2>3 DEF Bits, Width
  <2> QED  BY <2>4, <2>5, <2>6, <1>1 DEF RegionBit
<1>5. ASSUME NEW p \in Bits, RegionBit(off * ByteBits + p)
      PROVE  \E i \in 0..(ContainerBytes - 1) : \E b \in region[off + i + 1] : p = Place(i, b)
  <2> DEFINE i == p \div ByteBits
             b == p % ByteBits
  <2>1. p \in Nat /\ p < ByteBits * ContainerBytes
    BY WidthNat, <1>5 DEF Bits, Width
  <2>2. i \in Nat /\ b \in 0..(ByteBits - 1) /\ p = i * ByteBits + b
    BY <2>1, QuotientRemainder
  <2> HIDE DEF i, b
  <2>3. i < ContainerBytes
    BY <2>1, <2>2, BelowProduct
  <2>4. off * ByteBits + p = (off + i) * ByteBits + b
    BY <1>1, <2>2
  <2>5. /\ ((off + i) * ByteBits + b) \div ByteBits = off + i
        /\ ((off + i) * ByteBits + b) % ByteBits = b
    <3> DEFINE q == off + i
    <3>1. q \in Nat
      BY <1>1, <2>2
    <3> HIDE DEF q
    <3>2. (q * ByteBits + b) \div ByteBits = q /\ (q * ByteBits + b) % ByteBits = b
      BY <3>1, <2>2, DivMod
    <3> QED  BY <3>2 DEF q
  <2>6. b \in region[off + i + 1]
    BY <1>5, <2>4, <2>5, <1>1, <2>2 DEF RegionBit
  <2> QED  BY <2>2, <2>3, <2>6
<1> HIDE DEF off, bytes, Place
<1>6. \A p : p \in LittleEndian(bytes) <=> p \in Bits /\ RegionBit(off * ByteBits + p)
  BY <1>3, <1>4, <1>5
<1> QED  BY <1>6 DEF off, bytes

\* A field that fits is its own bits.
LEMMA FieldFact ==
  ASSUME region \in Seq(Byte), NEW group, group.id \in Nat, Fits(group),
         NEW sample, sample.lsb \in Nat, sample.msb \in Nat
  PROVE  GoField(group, sample) = FieldRef(group, sample)
<1> DEFINE base == ByteOffset(group) * ByteBits
           lsb == sample.lsb
           msb == sample.msb
           word == LittleEndian(Slice(group)) \cap CalculateMask(msb, lsb)
<1>1. Bits \subseteq Nat /\ base \in Nat
  <2>1. \A i, n \in Nat : i * n \in Nat
    OBVIOUS
  <2> QED  BY WidthNat, WidthAssumption, <2>1 DEF Bits, ByteOffset
<1>2. word = {b \in Bits : RegionBit(base + b) /\ lsb <= b /\ b <= msb}
  BY ContainerBits, MaskBits
<1> HIDE DEF word
<1>3. GoField(group, sample) = {b - lsb : b \in word}
  <2>1. {c \in word : c >= lsb} = word
    BY <1>2, <1>1
  <2> QED  BY <2>1 DEF GoField, ShiftRight, word
<1>4. FieldRef(group, sample) =
        {n \in 0..(msb - lsb) : lsb + n \in Bits /\ RegionBit(base + (lsb + n))}
  <2>1. \A n \in 0..(msb - lsb) : base + lsb + n = base + (lsb + n)
    BY <1>1
  <2> QED  BY <2>1 DEF FieldRef
<1> HIDE DEF base, lsb, msb
<1>5. lsb \in Nat /\ msb \in Nat
  BY DEF lsb, msb
<1>6. ASSUME NEW b \in word
      PROVE  b - lsb \in 0..(msb - lsb) /\ lsb + (b - lsb) = b
  BY <1>1, <1>2, <1>5
<1>7. ASSUME NEW n \in 0..(msb - lsb), lsb + n \in Bits, RegionBit(base + (lsb + n))
      PROVE  lsb + n \in word /\ n = (lsb + n) - lsb
  BY <1>1, <1>2, <1>5, <1>7
<1> QED  BY <1>2, <1>3, <1>4, <1>6, <1>7

-----------------------------------------------------------------------------
(* The definitions of the samples, in the order of the file.               *)

InputsTyped ==
  /\ region \in Seq(Byte)
  /\ aggregator \in Seq(Group)
  /\ interface \in Seq(Metric)

Samples == [sid : STRING, lsb : Nat, msb : Nat]

LEMMA GroupFact ==
  ASSUME InputsTyped, NEW i \in 1..Len(aggregator)
  PROVE  /\ aggregator[i].id \in Nat
         /\ aggregator[i].samples \in Seq(Samples)
         /\ Len(aggregator[i].samples) \in Nat
         /\ \A j \in 1..Len(aggregator[i].samples) : aggregator[i].samples[j] \in Samples
<1>1. aggregator[i] \in Group
  BY DEF InputsTyped
<1>2. aggregator[i].id \in Nat /\ aggregator[i].samples \in Seq(Samples)
  BY <1>1 DEF Group, Samples
<1> QED  BY <1>2

LEMMA DefinitionFact ==
  ASSUME InputsTyped, NEW d \in Definitions
  PROVE  /\ d = <<d[1], d[2]>>
         /\ d[1] \in 1..Len(aggregator) /\ d[2] \in 1..Len(aggregator[d[1]].samples)
         /\ d[1] \in Nat /\ d[2] \in Nat
         /\ GroupAt(d).id \in Nat
         /\ SampleAt(d).lsb \in Nat /\ SampleAt(d).msb \in Nat
<1>1. PICK i \in 1..Len(aggregator) : d \in {i} \X (1..Len(aggregator[i].samples))
  BY DEF Definitions
<1>2. d = <<d[1], d[2]>> /\ d[1] = i /\ d[2] \in 1..Len(aggregator[i].samples)
  BY <1>1
<1>3. aggregator[i].samples[d[2]] \in Samples
  BY <1>2, GroupFact
<1>4. i \in Nat /\ d[2] \in Nat
  BY <1>2, GroupFact
<1> QED  BY <1>2, <1>3, <1>4, GroupFact DEF GroupAt, SampleAt, Samples

LEMMA DefinitionIs ==
  ASSUME NEW i \in 1..Len(aggregator), NEW j \in 1..Len(aggregator[i].samples)
  PROVE  <<i, j>> \in Definitions /\ <<i, j>>[1] = i /\ <<i, j>>[2] = j
BY DEF Definitions

\* Of the definitions of one sample one is the last.
LEMMA LastExists ==
  ASSUME InputsTyped, NEW defs \in SUBSET Definitions, NEW e \in defs
  PROVE  \E d \in defs : SampleAt(d).sid = SampleAt(e).sid /\ IsLast(d, defs)
<1> DEFINE same == {d \in defs : SampleAt(d).sid = SampleAt(e).sid}
           groups == {d[1] : d \in same}
<1>1. \A d \in same : /\ d[1] \in 0..Len(aggregator) /\ d[1] \in Nat
                      /\ d[2] \in 0..Len(aggregator[d[1]].samples) /\ d[2] \in Nat
  BY DefinitionFact
<1>2. PICK g \in groups : \A h \in groups : g >= h
  <2>1. groups \in SUBSET (0..Len(aggregator)) /\ groups # {} /\ Len(aggregator) \in Nat
    BY <1>1 DEF InputsTyped
  <2> HIDE DEF groups
  <2> QED  BY <2>1, GreatestExists
<1> DEFINE places == {d[2] : d \in {x \in same : x[1] = g}}
<1>3. PICK c \in same : c[1] = g
  BY <1>2
<1>4. PICK q \in places : \A r \in places : q >= r
  <2>1. places \in SUBSET (0..Len(aggregator[g].samples)) /\ places # {}
    BY <1>1, <1>3
  <2>2. Len(aggregator[g].samples) \in Nat
    BY <1>3, DefinitionFact, GroupFact
  <2> HIDE DEF places
  <2> QED  BY <2>1, <2>2, GreatestExists
<1>5. PICK d \in same : d[1] = g /\ d[2] = q
  BY <1>4
<1>6. ASSUME NEW x \in defs, SampleAt(x).sid = SampleAt(d).sid
      PROVE  NotAfter(x, d)
  <2>1. x \in same
    BY <1>5, <1>6
  <2>2. x[1] <= g
    BY <2>1, <1>2
  <2>3. x[1] = g => x[2] <= q
    BY <2>1, <1>4
  <2>4. g \in Nat /\ x[1] \in Nat
    BY <1>1, <1>5, <2>1
  <2> QED  BY <2>2, <2>3, <2>4, <1>5 DEF NotAfter
<1> QED  BY <1>5, <1>6 DEF IsLast

LEMMA LastUnique ==
  ASSUME InputsTyped, NEW defs \in SUBSET Definitions, NEW d, NEW e,
         IsLast(d, defs), IsLast(e, defs), SampleAt(d).sid = SampleAt(e).sid
  PROVE  d = e
<1>1. d \in Definitions /\ e \in Definitions
  BY DEF IsLast
<1>2. /\ d = <<d[1], d[2]>> /\ d[1] \in Nat /\ d[2] \in Nat
      /\ e = <<e[1], e[2]>> /\ e[1] \in Nat /\ e[2] \in Nat
  BY <1>1, DefinitionFact
<1>3. NotAfter(d, e) /\ NotAfter(e, d)
  BY DEF IsLast
<1>4. d[1] = e[1] /\ d[2] = e[2]
  BY <1>2, <1>3 DEF NotAfter
<1> QED  BY <1>2, <1>4

\* The definitions up to a group, then those of the next one: the last of a sample is
\* what the next group has for it, or it was the last already.
LEMMA LastStep ==
  ASSUME InputsTyped, NEW n \in Nat, n + 1 <= Len(aggregator),
         NEW old \in SUBSET Definitions, \A d \in old : d[1] <= n,
         NEW next \in SUBSET Definitions, \A d \in next : d[1] = n + 1,
         \A d \in next : \A e \in Definitions :
           e[1] = n + 1 /\ SampleAt(e).sid = SampleAt(d).sid => e \in next,
         NEW d \in old \cup next, IsLast(d, old \cup next)
  PROVE  \/ d \in next /\ SampleOf(aggregator[n + 1], SampleAt(d).sid) = SampleAt(d)
         \/ /\ d \in old /\ IsLast(d, old)
            /\ \A e \in next : SampleAt(e).sid # SampleAt(d).sid
<1> DEFINE group == aggregator[n + 1]
           sid == SampleAt(d).sid
           places == {j \in 1..Len(group.samples) : group.samples[j].sid = sid}
<1>0. \A x \in old \cup next : x[1] \in Nat /\ x[2] \in Nat
  BY DefinitionFact
<1>1. CASE d \in next
  <2>1. d[1] = n + 1 /\ d[2] \in 1..Len(group.samples) /\ group.samples[d[2]] = SampleAt(d)
    BY <1>1, DefinitionFact DEF SampleAt
  <2>2. Len(group.samples) \in Nat /\ n + 1 \in 1..Len(aggregator)
    BY GroupFact DEF InputsTyped
  <2>3. d[2] \in places
    BY <2>1
  <2>4. ASSUME NEW j \in places PROVE j <= d[2]
    <3>1. <<n + 1, j>> \in Definitions /\ <<n + 1, j>>[1] = n + 1 /\ <<n + 1, j>>[2] = j
      BY <2>2, DefinitionIs
    <3>2. SampleAt(<<n + 1, j>>).sid = sid
      BY <3>1 DEF SampleAt
    <3> HIDE DEF sid
    <3>3. NotAfter(<<n + 1, j>>, d)
      BY <1>1, <3>1, <3>2 DEF IsLast, sid
    <3> QED  BY <3>1, <3>3, <2>1, <2>2 DEF NotAfter
  <2>5. Max(places) = d[2]
    <3>1. places \in SUBSET (0..Len(group.samples)) /\ places # {}
      BY <2>3
    <3> HIDE DEF places
    <3>2. Max(places) \in places /\ \A j \in places : j <= Max(places)
      BY <3>1, <2>2, MaxFact
    <3>3. Max(places) <= d[2] /\ d[2] <= Max(places)
      BY <3>2, <2>3, <2>4
    <3>4. Max(places) \in 0..Len(group.samples) /\ d[2] \in Nat
      BY <3>1, <3>2, <1>0
    <3> QED  BY <3>3, <3>4, <2>2
  <2> QED  BY <1>1, <2>1, <2>5 DEF SampleOf
<1>2. CASE d \notin next
  <2>1. d \in old /\ d[1] <= n /\ d[1] \in Nat
    BY <1>0, <1>2
  <2>2. IsLast(d, old)
    BY <2>1 DEF IsLast
  <2>3. ASSUME NEW e \in next, SampleAt(e).sid = sid PROVE FALSE
    <3>1. NotAfter(e, d) /\ e[1] = n + 1
      BY <2>3 DEF IsLast
    <3> QED  BY <3>1, <2>1 DEF NotAfter
  <2> QED  BY <2>1, <2>2, <2>3
<1> QED  BY <1>1, <1>2

-----------------------------------------------------------------------------
(* The Go receiver.                                                        *)

GoBefore(n) == {d \in Fitting : d[1] <= n}

\* What was decoded is what fits of the groups so far.
RawInv ==
  /\ goGroups \in 0..Len(aggregator)
  /\ DOMAIN rawValues = {SampleAt(d).sid : d \in GoBefore(goGroups)}
  /\ \A d \in GoBefore(goGroups) : IsLast(d, GoBefore(goGroups)) =>
       rawValues[SampleAt(d).sid] = FieldRef(GroupAt(d), SampleAt(d))

Published(n) ==
  {i \in 1..n : /\ ~interface[i].reserved /\ Evaluates(interface[i])
                /\ interface[i].inputs \subseteq DOMAIN rawValues}

LastPublished(i, n) ==
  \A j \in Published(n) : PublishedName(interface[j]) = PublishedName(interface[i]) => j <= i

\* What was published is what can be published of the metrics so far.
ValuesInv ==
  /\ goMetrics \in 0..Len(interface)
  /\ goMetrics > 0 => GroupsRead
  /\ DOMAIN values = {PublishedName(interface[i]) : i \in Published(goMetrics)}
  /\ \A i \in Published(goMetrics) : LastPublished(i, goMetrics) =>
       values[PublishedName(interface[i])] = Value(rawValues, interface[i])

\* The definitions that the next group adds.
LEMMA NextGroup ==
  ASSUME InputsTyped, NEW n \in Nat, n < Len(aggregator)
  PROVE  {SampleAt(d).sid : d \in {e \in Definitions : e[1] = n + 1}} = Sids(aggregator[n + 1])
<1> DEFINE group == aggregator[n + 1]
           next == {e \in Definitions : e[1] = n + 1}
<1>1. n + 1 \in 1..Len(aggregator)
  BY DEF InputsTyped
<1>2. ASSUME NEW d \in next
      PROVE  SampleAt(d).sid \in Sids(group)
  BY DefinitionFact DEF Sids, SampleAt
<1>3. ASSUME NEW j \in 1..Len(group.samples)
      PROVE  \E d \in next : group.samples[j].sid = SampleAt(d).sid
  <2>1. <<n + 1, j>> \in next
    BY <1>1, DefinitionIs
  <2> QED  BY <2>1 DEF SampleAt
<1> HIDE DEF next, group
<1> QED  BY <1>2, <1>3 DEF Sids, next, group

LEMMA UpdateDomain ==
  ASSUME NEW f, NEW g
  PROVE  DOMAIN Update(f, g) = DOMAIN f \cup DOMAIN g
BY DEF Update

LEMMA UpdateKeeps ==
  ASSUME NEW f, NEW g, NEW x \in DOMAIN f, x \notin DOMAIN g
  PROVE  Update(f, g)[x] = f[x]
BY DEF Update

LEMMA ReadGroupKeeps ==
  ASSUME InputsTyped, RawInv, ReadGroup
  PROVE  RawInv'
<1> DEFINE n == goGroups
           group == aggregator[n + 1]
           old == GoBefore(n)
           next == {d \in Fitting : d[1] = n + 1}
           both == old \cup next
<1>1. n \in Nat /\ n + 1 \in 1..Len(aggregator) /\ n < Len(aggregator) /\ Len(aggregator) \in Nat
  BY DEF RawInv, ReadGroup, InputsTyped
<1>2. GoBefore(n + 1) = both
  <2>1. \A d \in Fitting : d[1] \in Nat
    BY DefinitionFact DEF Fitting
  <2> QED  BY <1>1, <2>1 DEF GoBefore
<1>3. GoBefore(goGroups)' = both
  <2>1. goGroups' = n + 1 /\ UNCHANGED inputVars
    BY DEF ReadGroup
  <2>2. GoBefore(goGroups)' = GoBefore(n + 1)
    BY <2>1 DEF GoBefore, Fitting, Definitions, GroupAt, Fits, ByteOffset, inputVars
  <2> QED  BY <1>2, <2>2
<1>4. \A d : /\ SampleAt(d)' = SampleAt(d) /\ GroupAt(d)' = GroupAt(d)
             /\ FieldRef(GroupAt(d), SampleAt(d))' = FieldRef(GroupAt(d), SampleAt(d))
  BY DEF ReadGroup, inputVars, SampleAt, GroupAt, FieldRef, RegionBit, ByteOffset
<1>5. \A d : IsLast(d, GoBefore(goGroups))' <=> IsLast(d, both)
  BY <1>3, <1>4 DEF IsLast
<1> SUFFICES /\ DOMAIN rawValues' = {SampleAt(d).sid : d \in both}
             /\ \A d \in both : IsLast(d, both) =>
                  rawValues'[SampleAt(d).sid] = FieldRef(GroupAt(d), SampleAt(d))
  <2>1. goGroups' \in 0..Len(aggregator)' /\ goGroups' = n + 1
    BY <1>1 DEF ReadGroup, inputVars
  <2> QED  BY <1>3, <1>4, <1>5, <2>1 DEF RawInv
<1>6. \A d \in Definitions : d[1] = n + 1 => GroupAt(d) = group
  BY DEF GroupAt
<1>7. CASE Fits(group)
  <2> DEFINE added == [sid \in Sids(group) |-> GoField(group, SampleOf(group, sid))]
  <2>1. rawValues' = Update(rawValues, added)
    BY <1>7 DEF ReadGroup
  <2>2. next = {d \in Definitions : d[1] = n + 1}
    BY <1>6, <1>7 DEF Fitting
  <2>3. {SampleAt(d).sid : d \in next} = Sids(group)
    <3> HIDE DEF n
    <3> QED  BY <1>1, <2>2, NextGroup
  <2>4. DOMAIN rawValues' = DOMAIN rawValues \cup {SampleAt(d).sid : d \in next}
    BY <2>1, <2>3, UpdateDomain
  <2>5. ASSUME NEW d \in both, IsLast(d, both)
        PROVE  rawValues'[SampleAt(d).sid] = FieldRef(GroupAt(d), SampleAt(d))
    <3>1. \/ d \in next /\ SampleOf(group, SampleAt(d).sid) = SampleAt(d)
          \/ /\ d \in old /\ IsLast(d, old)
             /\ \A e \in next : SampleAt(e).sid # SampleAt(d).sid
      <4>1. /\ old \in SUBSET Definitions /\ next \in SUBSET Definitions
            /\ \A e \in old : e[1] <= n
            /\ \A e \in next : e[1] = n + 1
        BY DEF GoBefore, Fitting
      <4>2. \A e \in next : \A f \in Definitions :
              f[1] = n + 1 /\ SampleAt(f).sid = SampleAt(e).sid => f \in next
        BY <2>2
      <4> HIDE DEF n, old, next
      <4>3. n + 1 <= Len(aggregator)
        BY <1>1
      <4> QED  BY <1>1, <2>5, <4>1, <4>2, <4>3, LastStep
    <3>2. CASE d \in next /\ SampleOf(group, SampleAt(d).sid) = SampleAt(d)
      <4>1. SampleAt(d).sid \in DOMAIN added
        BY <3>2, <2>3
      <4>2. rawValues'[SampleAt(d).sid] = GoField(group, SampleAt(d))
        <5>1. added[SampleAt(d).sid] = GoField(group, SampleAt(d))
          BY <3>2, <4>1
        <5> HIDE DEF added
        <5>2. Update(rawValues, added)[SampleAt(d).sid] = added[SampleAt(d).sid]
          BY <4>1 DEF Update
        <5> QED  BY <2>1, <5>1, <5>2
      <4>3. d \in Definitions /\ GroupAt(d) = group
        BY <2>2, <3>2, <1>6
      <4> QED  BY <1>7, <4>2, <4>3, DefinitionFact, FieldFact DEF InputsTyped
    <3>3. CASE /\ d \in old /\ IsLast(d, old)
               /\ \A e \in next : SampleAt(e).sid # SampleAt(d).sid
      <4>1. SampleAt(d).sid \notin DOMAIN added
        BY <3>3, <2>3
      <4>2. SampleAt(d).sid \in DOMAIN rawValues
        BY <3>3 DEF RawInv
      <4>3. rawValues'[SampleAt(d).sid] = rawValues[SampleAt(d).sid]
        <5> HIDE DEF added
        <5> QED  BY <2>1, <4>1, <4>2, UpdateKeeps
      <4> QED  BY <3>3, <4>3 DEF RawInv
    <3> QED  BY <3>1, <3>2, <3>3
  <2> QED  BY <2>4, <2>5 DEF RawInv
<1>8. CASE ~Fits(group)
  <2>1. next = {}
    BY <1>6, <1>8 DEF Fitting
  <2>2. rawValues' = rawValues /\ both = old
    BY <1>8, <2>1 DEF ReadGroup
  <2> QED  BY <2>2 DEF RawInv
<1> QED  BY <1>7, <1>8

LEMMA ReadGroupKeepsValues ==
  ASSUME InputsTyped, RawInv, ValuesInv, ReadGroup
  PROVE  ValuesInv'
<1>1. goMetrics = 0
  BY DEF ReadGroup, GroupsRead, ValuesInv, InputsTyped
<1>2. Published(goMetrics) = {} /\ Published(goMetrics)' = {}
  BY <1>1 DEF Published, ReadGroup
<1>3. values = values' /\ DOMAIN values = {}
  BY <1>2 DEF ValuesInv, ReadGroup
<1>4. goMetrics' = 0 /\ 0 \in 0..Len(interface)'
  BY <1>1 DEF ReadGroup, inputVars, InputsTyped
<1> QED  BY <1>2, <1>3, <1>4 DEF ValuesInv

LEMMA ProcessMetricKeeps ==
  ASSUME InputsTyped, ValuesInv, ProcessMetric
  PROVE  ValuesInv'
<1> DEFINE n == goMetrics
           metric == interface[n + 1]
           name(i) == PublishedName(interface[i])
<1>1. /\ n \in Nat /\ n + 1 \in 1..Len(interface) /\ Len(interface) \in Nat
      /\ goMetrics' = n + 1 /\ UNCHANGED inputVars /\ rawValues' = rawValues
      /\ GroupsRead'
  BY DEF ValuesInv, ProcessMetric, InputsTyped, inputVars, GroupsRead
<1>2. Published(goMetrics)' = Published(n + 1)
  BY <1>1 DEF Published, inputVars
<1>3. \A i : LastPublished(i, goMetrics)' <=> LastPublished(i, n + 1)
  BY <1>1, <1>2 DEF LastPublished, inputVars
<1> SUFFICES /\ DOMAIN values' = {name(i) : i \in Published(n + 1)}
             /\ \A i \in Published(n + 1) : LastPublished(i, n + 1) =>
                  values'[name(i)] = Value(rawValues, interface[i])
  BY <1>1, <1>2, <1>3 DEF ValuesInv, inputVars
<1>4. CASE Publishable(metric)
  <2> DEFINE added == [x \in {name(n + 1)} |-> Value(rawValues, metric)]
  <2>1. values' = Update(values, added)
    BY <1>4 DEF ProcessMetric
  <2>2. Published(n + 1) = Published(n) \cup {n + 1}
    BY <1>1, <1>4 DEF Published, Publishable
  <2>3. DOMAIN values' = {name(i) : i \in Published(n + 1)}
    <3>1. DOMAIN values' = DOMAIN values \cup {name(n + 1)}
      BY <2>1 DEF Update
    <3> QED  BY <3>1, <2>2 DEF ValuesInv
  <2>4. ASSUME NEW i \in Published(n + 1), LastPublished(i, n + 1)
        PROVE  values'[name(i)] = Value(rawValues, interface[i])
    <3>1. CASE i = n + 1
      BY <2>1, <3>1 DEF Update
    <3>2. CASE i # n + 1
      <4>1. i \in Published(n) /\ i <= n /\ i \in Nat
        BY <2>2, <3>2, <1>1 DEF Published
      <4>2. name(n + 1) # name(i)
        BY <4>1, <2>2, <2>4, <1>1 DEF LastPublished
      <4>3. values'[name(i)] = values[name(i)]
        <5>1. name(i) \in DOMAIN values
          BY <4>1 DEF ValuesInv
        <5> QED  BY <2>1, <4>2, <5>1 DEF Update
      <4>4. LastPublished(i, n)
        BY <2>2, <2>4 DEF LastPublished
      <4> QED  BY <4>1, <4>3, <4>4 DEF ValuesInv
    <3> QED  BY <3>1, <3>2
  <2> QED  BY <2>3, <2>4
<1>5. CASE ~Publishable(metric)
  <2>1. Published(n + 1) = Published(n)
    BY <1>1, <1>5 DEF Published, Publishable
  <2>2. \A i : LastPublished(i, n + 1) => LastPublished(i, n)
    BY <2>1 DEF LastPublished
  <2>3. values' = values
    BY <1>5 DEF ProcessMetric
  <2> QED  BY <2>1, <2>2, <2>3 DEF ValuesInv
<1> QED  BY <1>4, <1>5

-----------------------------------------------------------------------------
(* The Python agent.                                                       *)

PyBefore(n) == {d \in Definitions : d[1] <= n /\ Allowed(SampleAt(d).sid)}

\* The dictionary is what is allowed of the groups so far.
DictInv ==
  /\ pyGroups \in 0..Len(aggregator)
  /\ DOMAIN samples = {SampleAt(d).sid : d \in PyBefore(pyGroups)}
  /\ \A d \in PyBefore(pyGroups) : IsLast(d, PyBefore(pyGroups)) =>
       samples[SampleAt(d).sid] = [group |-> GroupAt(d), sample |-> SampleAt(d)]
  /\ pyStage \in {"load", "read", "raised"}
  /\ pyStage # "load" =>
       /\ pyGroups = Len(aggregator)
       /\ parsed = [sid \in DOMAIN samples |-> PyField(samples[sid].group, samples[sid].sample)]

Reported(n) ==
  {i \in 1..n : Shown(Name(interface[i])) /\ Evaluates(Mapping(Name(interface[i])))}

\* What was read is what is shown and evaluates of the metrics so far, and no shown
\* metric so far was in error.
RetInv ==
  /\ pyMetrics \in 0..Len(interface)
  /\ pyStage = "load" => pyMetrics = 0 /\ ret = Nothing
  /\ pyStage = "read" =>
       /\ DOMAIN ret = {Name(interface[i]) : i \in Reported(pyMetrics)}
       /\ \A i \in 1..pyMetrics :
            Shown(Name(interface[i])) => ~KeyError(Mapping(Name(interface[i])))
       /\ \A x \in DOMAIN ret : ret[x] = Value(parsed, Mapping(x))

LEMMA ParseGroupKeeps ==
  ASSUME InputsTyped, DictInv, ParseGroup
  PROVE  DictInv'
<1> DEFINE n == pyGroups
           group == aggregator[n + 1]
           old == PyBefore(n)
           next == {d \in Definitions : d[1] = n + 1 /\ Allowed(SampleAt(d).sid)}
           both == old \cup next
           entry(d) == [group |-> GroupAt(d), sample |-> SampleAt(d)]
<1>1. n \in Nat /\ n + 1 \in 1..Len(aggregator) /\ n < Len(aggregator) /\ Len(aggregator) \in Nat
  BY DEF DictInv, ParseGroup, InputsTyped
<1>2. PyBefore(n + 1) = both
  <2>1. \A d \in Definitions : d[1] \in Nat
    BY DefinitionFact
  <2> QED  BY <1>1, <2>1 DEF PyBefore
<1>3. PyBefore(pyGroups)' = both
  <2>1. pyGroups' = n + 1 /\ UNCHANGED inputVars
    BY DEF ParseGroup
  <2>2. PyBefore(pyGroups)' = PyBefore(n + 1)
    BY <2>1 DEF PyBefore, Definitions, SampleAt, Allowed, inputVars
  <2> QED  BY <1>2, <2>2
<1>4. \A d : SampleAt(d)' = SampleAt(d) /\ GroupAt(d)' = GroupAt(d)
  BY DEF ParseGroup, inputVars, SampleAt, GroupAt
<1>5. \A d : IsLast(d, PyBefore(pyGroups))' <=> IsLast(d, both)
  BY <1>3, <1>4 DEF IsLast
<1> SUFFICES /\ DOMAIN samples' = {SampleAt(d).sid : d \in both}
             /\ \A d \in both : IsLast(d, both) => samples'[SampleAt(d).sid] = entry(d)
  <2>1. pyGroups' \in 0..Len(aggregator)' /\ pyStage' = "load"
    BY <1>1 DEF ParseGroup, inputVars
  <2> QED  BY <1>3, <1>4, <1>5, <2>1 DEF DictInv
<1>6. \A d \in Definitions : d[1] = n + 1 => GroupAt(d) = group
  BY DEF GroupAt
<1> DEFINE added == [sid \in {s \in Sids(group) : Allowed(s)} |->
                      [group |-> group, sample |-> SampleOf(group, sid)]]
<1>7. samples' = Update(samples, added)
  BY DEF ParseGroup
<1>8. {SampleAt(d).sid : d \in next} = DOMAIN added
  <2>1. {SampleAt(d).sid : d \in {e \in Definitions : e[1] = n + 1}} = Sids(group)
    <3> HIDE DEF n
    <3> QED  BY <1>1, NextGroup
  <2>2. DOMAIN added = {s \in Sids(group) : Allowed(s)}
    OBVIOUS
  <2> QED  BY <2>1, <2>2
<1>9. DOMAIN samples' = {SampleAt(d).sid : d \in both}
  <2>1. DOMAIN samples' = DOMAIN samples \cup {SampleAt(d).sid : d \in next}
    BY <1>7, <1>8, UpdateDomain
  <2> QED  BY <2>1 DEF DictInv
<1>10. ASSUME NEW d \in both, IsLast(d, both)
       PROVE  samples'[SampleAt(d).sid] = entry(d)
  <2>1. \/ d \in next /\ SampleOf(group, SampleAt(d).sid) = SampleAt(d)
        \/ /\ d \in old /\ IsLast(d, old)
           /\ \A e \in next : SampleAt(e).sid # SampleAt(d).sid
    <3>1. /\ old \in SUBSET Definitions /\ next \in SUBSET Definitions
          /\ \A e \in old : e[1] <= n
          /\ \A e \in next : e[1] = n + 1
      BY DEF PyBefore
    <3>2. \A e \in next : \A f \in Definitions :
            f[1] = n + 1 /\ SampleAt(f).sid = SampleAt(e).sid => f \in next
      OBVIOUS
    <3> HIDE DEF n, old, next
    <3>3. n + 1 <= Len(aggregator)
      BY <1>1
    <3> QED  BY <1>1, <1>10, <3>1, <3>2, <3>3, LastStep
  <2>2. CASE d \in next /\ SampleOf(group, SampleAt(d).sid) = SampleAt(d)
    <3>1. SampleAt(d).sid \in DOMAIN added
      BY <2>2, <1>8
    <3>2. added[SampleAt(d).sid] = entry(d)
      BY <2>2, <3>1, <1>6
    <3> HIDE DEF added
    <3>3. Update(samples, added)[SampleAt(d).sid] = added[SampleAt(d).sid]
      BY <3>1 DEF Update
    <3> QED  BY <1>7, <3>2, <3>3
  <2>3. CASE /\ d \in old /\ IsLast(d, old)
             /\ \A e \in next : SampleAt(e).sid # SampleAt(d).sid
    <3>1. SampleAt(d).sid \notin DOMAIN added
      BY <2>3, <1>8
    <3>2. SampleAt(d).sid \in DOMAIN samples
      BY <2>3 DEF DictInv
    <3>3. samples'[SampleAt(d).sid] = samples[SampleAt(d).sid]
      <4> HIDE DEF added
      <4> QED  BY <1>7, <3>1, <3>2, UpdateKeeps
    <3> QED  BY <2>3, <3>3 DEF DictInv
  <2> QED  BY <2>1, <2>2, <2>3
<1> QED  BY <1>9, <1>10

LEMMA ReadSamplesKeeps ==
  ASSUME InputsTyped, DictInv, RetInv, ReadSamples
  PROVE  DictInv' /\ RetInv'
<1>1. /\ UNCHANGED inputVars /\ pyGroups' = pyGroups /\ samples' = samples
      /\ pyStage' = "read" /\ pyGroups = Len(aggregator)
      /\ pyMetrics' = 0 /\ ret' = Nothing
  BY DEF ReadSamples, RetInv
<1>2. PyBefore(pyGroups)' = PyBefore(pyGroups)
  BY <1>1 DEF PyBefore, Definitions, SampleAt, Allowed, inputVars
<1>3. \A d : SampleAt(d)' = SampleAt(d) /\ GroupAt(d)' = GroupAt(d)
  BY <1>1 DEF inputVars, SampleAt, GroupAt
<1>4. \A d : IsLast(d, PyBefore(pyGroups))' <=> IsLast(d, PyBefore(pyGroups))
  BY <1>2, <1>3 DEF IsLast
<1>5. parsed' = [sid \in DOMAIN samples |-> PyField(samples[sid].group, samples[sid].sample)]'
  BY <1>1 DEF ReadSamples, inputVars, PyField, Slice, ByteOffset
<1>6. DictInv'
  BY <1>1, <1>2, <1>3, <1>4, <1>5 DEF DictInv, inputVars
<1>7. DOMAIN Nothing = {} /\ Reported(pyMetrics)' = {}
  BY <1>1 DEF Nothing, Reported
<1>8. RetInv'
  BY <1>1, <1>7 DEF RetInv, inputVars, InputsTyped
<1> QED  BY <1>6, <1>8

LEMMA ReadMetricKeeps ==
  ASSUME InputsTyped, RetInv, ReadMetric
  PROVE  RetInv'
<1> DEFINE n == pyMetrics
           name == Name(interface[n + 1])
           metric == Mapping(name)
           seen == \E i \in Named(name) : i <= n
           names(m) == {Name(interface[i]) : i \in Reported(m)}
<1>1. /\ n \in Nat /\ n + 1 \in 1..Len(interface) /\ Len(interface) \in Nat
      /\ pyMetrics' = n + 1 /\ UNCHANGED inputVars /\ parsed' = parsed /\ pyStage = "read"
  BY DEF RetInv, ReadMetric, InputsTyped, inputVars
<1>2. \A x : /\ Shown(x)' = Shown(x) /\ Mapping(x)' = Mapping(x) /\ Evaluates(x)' = Evaluates(x)
             /\ Value(parsed, x)' = Value(parsed, x) /\ KeyError(x)' = KeyError(x)
  BY <1>1 DEF Shown, Allowed, Mapping, Named, Evaluates, Value, KeyError, inputVars
<1>3. Reported(pyMetrics)' = Reported(n + 1)
  BY <1>1, <1>2 DEF Reported, inputVars
<1>4. CASE seen \/ ~Shown(name)
  <2>1. pyStage' = "read" /\ ret' = ret
    BY <1>1, <1>4 DEF ReadMetric
  <2>2. names(n + 1) = names(n)
    <3>1. \A i \in Reported(n) : i \in Reported(n + 1)
      BY <1>1 DEF Reported
    <3>2. ASSUME NEW i \in Reported(n + 1)
          PROVE  \E j \in Reported(n) : Name(interface[j]) = Name(interface[i])
      <4>1. CASE i = n + 1
        <5>1. PICK j \in Named(name) : j <= n
          BY <4>1, <1>4, <3>2 DEF Reported
        <5>2. j \in 1..n /\ Name(interface[j]) = name
          BY <5>1, <1>1 DEF Named
        <5>3. j \in Reported(n)
          BY <3>2, <4>1, <5>2 DEF Reported
        <5> QED  BY <4>1, <5>2, <5>3
      <4>2. CASE i # n + 1
        <5>1. i \in Reported(n)
          BY <3>2, <4>2, <1>1 DEF Reported
        <5> QED  BY <5>1
      <4> QED  BY <4>1, <4>2
    <3> QED  BY <3>1, <3>2
  <2>3. ASSUME NEW i \in 1..(n + 1), Shown(Name(interface[i]))
        PROVE  ~KeyError(Mapping(Name(interface[i])))
    <3>1. CASE i = n + 1
      <4>1. PICK j \in Named(name) : j <= n
        BY <3>1, <1>4, <2>3
      <4>2. j \in 1..n /\ Name(interface[j]) = name
        BY <4>1, <1>1 DEF Named
      <4> QED  BY <3>1, <2>3, <4>2, <1>1 DEF RetInv
    <3>2. CASE i # n + 1
      BY <3>2, <2>3, <1>1 DEF RetInv
    <3> QED  BY <3>1, <3>2
  <2>4. \A x \in DOMAIN ret : ret[x] = Value(parsed, Mapping(x))
    BY <1>1 DEF RetInv
  <2>5. DOMAIN ret = names(n + 1)
    BY <2>2, <1>1 DEF RetInv
  <2> QED  BY <1>1, <1>2, <1>3, <2>1, <2>3, <2>4, <2>5 DEF RetInv, inputVars
<1>5. CASE ~seen /\ Shown(name) /\ KeyError(metric)
  <2>1. pyStage' = "raised"
    BY <1>5 DEF ReadMetric
  <2> QED  BY <1>1, <2>1 DEF RetInv, inputVars
<1>6. CASE ~seen /\ Shown(name) /\ ~KeyError(metric)
  <2>1. pyStage' = "read"
    BY <1>6 DEF ReadMetric
  <2>2. ret' = IF Evaluates(metric)
               THEN Update(ret, [x \in {name} |-> Value(parsed, metric)]) ELSE ret
    BY <1>6 DEF ReadMetric, KeyError
  <2>3. ASSUME NEW i \in 1..(n + 1), Shown(Name(interface[i]))
        PROVE  ~KeyError(Mapping(Name(interface[i])))
    <3>1. CASE i = n + 1
      BY <3>1, <1>6
    <3>2. CASE i # n + 1
      BY <3>2, <2>3, <1>1 DEF RetInv
    <3> QED  BY <3>1, <3>2
  <2>4. Reported(n + 1) = Reported(n) \cup (IF Evaluates(metric) THEN {n + 1} ELSE {})
    BY <1>1, <1>6 DEF Reported
  <2>5. DOMAIN ret = names(n) /\ \A x \in DOMAIN ret : ret[x] = Value(parsed, Mapping(x))
    BY <1>1 DEF RetInv
  <2>6. /\ DOMAIN ret' = names(n + 1)
        /\ \A x \in DOMAIN ret' : ret'[x] = Value(parsed, Mapping(x))
    <3>1. CASE Evaluates(metric)
      <4> DEFINE added == [x \in {name} |-> Value(parsed, metric)]
      <4>1. ret' = Update(ret, added) /\ DOMAIN ret' = DOMAIN ret \cup {name}
        BY <2>2, <3>1 DEF Update
      <4>2. names(n + 1) = names(n) \cup {name}
        BY <2>4, <3>1
      <4>3. ASSUME NEW x \in DOMAIN ret'
            PROVE  ret'[x] = Value(parsed, Mapping(x))
        <5>1. CASE x = name
          BY <4>1, <5>1 DEF Update
        <5>2. CASE x # name
          BY <4>1, <5>2, <2>5 DEF Update
        <5> QED  BY <5>1, <5>2
      <4> QED  BY <4>1, <4>2, <4>3, <2>5
    <3>2. CASE ~Evaluates(metric)
      BY <2>2, <2>4, <2>5, <3>2
    <3> QED  BY <3>1, <3>2
  <2> QED  BY <1>1, <1>2, <1>3, <2>1, <2>3, <2>6 DEF RetInv, inputVars
<1> QED  BY <1>4, <1>5, <1>6

-----------------------------------------------------------------------------
(* The invariant.                                                          *)

DecodeIInv == InputsTyped /\ RawInv /\ ValuesInv /\ DictInv /\ RetInv

LEMMA InputsKeep ==
  ASSUME InputsTyped, UNCHANGED inputVars
  PROVE  InputsTyped'
BY DEF InputsTyped, inputVars

LEMMA RawFrame ==
  ASSUME RawInv, UNCHANGED <<inputVars, goGroups, rawValues>>
  PROVE  RawInv'
<1>1. GoBefore(goGroups)' = GoBefore(goGroups)
  BY DEF GoBefore, Fitting, Definitions, GroupAt, Fits, ByteOffset, inputVars
<1>2. \A d : /\ SampleAt(d)' = SampleAt(d) /\ GroupAt(d)' = GroupAt(d)
             /\ FieldRef(GroupAt(d), SampleAt(d))' = FieldRef(GroupAt(d), SampleAt(d))
  BY DEF inputVars, SampleAt, GroupAt, FieldRef, RegionBit, ByteOffset
<1>3. \A d : IsLast(d, GoBefore(goGroups))' <=> IsLast(d, GoBefore(goGroups))
  BY <1>1, <1>2 DEF IsLast
<1> QED  BY <1>1, <1>2, <1>3 DEF RawInv, inputVars

LEMMA ValuesFrame ==
  ASSUME ValuesInv, UNCHANGED <<inputVars, goGroups, goMetrics, rawValues, values>>
  PROVE  ValuesInv'
<1>1. Published(goMetrics)' = Published(goMetrics)
  BY DEF Published, inputVars
<1>2. \A i : LastPublished(i, goMetrics)' <=> LastPublished(i, goMetrics)
  BY <1>1 DEF LastPublished, inputVars
<1> QED  BY <1>1, <1>2 DEF ValuesInv, GroupsRead, inputVars

LEMMA DictFrame ==
  ASSUME DictInv, UNCHANGED <<inputVars, pyGroups, pyStage, samples, parsed>>
  PROVE  DictInv'
<1>1. PyBefore(pyGroups)' = PyBefore(pyGroups)
  BY DEF PyBefore, Definitions, SampleAt, Allowed, inputVars
<1>2. \A d : SampleAt(d)' = SampleAt(d) /\ GroupAt(d)' = GroupAt(d)
  BY DEF inputVars, SampleAt, GroupAt
<1>3. \A d : IsLast(d, PyBefore(pyGroups))' <=> IsLast(d, PyBefore(pyGroups))
  BY <1>1, <1>2 DEF IsLast
<1>4. [sid \in DOMAIN samples |-> PyField(samples[sid].group, samples[sid].sample)]'
        = [sid \in DOMAIN samples |-> PyField(samples[sid].group, samples[sid].sample)]
  BY DEF inputVars, PyField, Slice, ByteOffset
<1> QED  BY <1>1, <1>2, <1>3, <1>4 DEF DictInv, inputVars

LEMMA RetFrame ==
  ASSUME RetInv, UNCHANGED <<inputVars, pyMetrics, pyStage, parsed, ret>>
  PROVE  RetInv'
<1>1. \A x : /\ Shown(x)' = Shown(x) /\ Mapping(x)' = Mapping(x) /\ Evaluates(x)' = Evaluates(x)
             /\ Value(parsed, x)' = Value(parsed, x) /\ KeyError(x)' = KeyError(x)
  BY DEF Shown, Allowed, Mapping, Named, Evaluates, Value, KeyError, inputVars
<1>2. Reported(pyMetrics)' = Reported(pyMetrics)
  BY <1>1 DEF Reported, inputVars
<1> QED  BY <1>1, <1>2 DEF RetInv, inputVars

\* The invariant holds before either collector reads (common_processor.go:34-35,
\* pmt.py:845-871).
LEMMA InitDecode == Init => DecodeIInv
<1> SUFFICES ASSUME Init PROVE DecodeIInv
  OBVIOUS
<1>1. InputsTyped
  BY InputAssumption DEF Init, InputsTyped
<1>2. Len(aggregator) \in Nat /\ Len(interface) \in Nat
  BY <1>1 DEF InputsTyped
<1>3. GoBefore(0) = {} /\ PyBefore(0) = {}
  BY <1>1, DefinitionFact DEF GoBefore, PyBefore, Fitting
<1>4. Published(0) = {}
  BY DEF Published
<1>5. DOMAIN Nothing = {}
  BY DEF Nothing
<1>6. RawInv /\ ValuesInv
  BY <1>2, <1>3, <1>4, <1>5 DEF Init, RawInv, ValuesInv
<1>7. DictInv /\ RetInv
  BY <1>2, <1>3, <1>5 DEF Init, DictInv, RetInv
<1> QED  BY <1>1, <1>6, <1>7 DEF DecodeIInv

\* Every step of either collector keeps it.
LEMMA NextDecode == DecodeIInv /\ [Next]_vars => DecodeIInv'
<1> SUFFICES ASSUME DecodeIInv, [Next]_vars PROVE DecodeIInv'
  OBVIOUS
<1> USE DEF DecodeIInv
<1>1. CASE ReadGroup
  <2>1. UNCHANGED <<inputVars, pyGroups, pyMetrics, pyStage, samples, parsed, ret>>
    BY <1>1 DEF ReadGroup, pyVars
  <2> QED  BY <1>1, <2>1, InputsKeep, ReadGroupKeeps, ReadGroupKeepsValues, DictFrame, RetFrame
<1>2. CASE ProcessMetric
  <2>1. UNCHANGED <<inputVars, goGroups, rawValues,
                    pyGroups, pyMetrics, pyStage, samples, parsed, ret>>
    BY <1>2 DEF ProcessMetric, pyVars
  <2> QED  BY <1>2, <2>1, InputsKeep, RawFrame, ProcessMetricKeeps, DictFrame, RetFrame
<1>3. CASE ParseGroup
  <2>1. UNCHANGED <<inputVars, goGroups, goMetrics, rawValues, values,
                    pyMetrics, pyStage, parsed, ret>>
    BY <1>3 DEF ParseGroup, goVars
  <2> QED  BY <1>3, <2>1, InputsKeep, RawFrame, ValuesFrame, ParseGroupKeeps, RetFrame
<1>4. CASE ReadSamples
  <2>1. UNCHANGED <<inputVars, goGroups, goMetrics, rawValues, values>>
    BY <1>4 DEF ReadSamples, goVars
  <2> QED  BY <1>4, <2>1, InputsKeep, RawFrame, ValuesFrame, ReadSamplesKeeps
<1>5. CASE ReadMetric
  <2>1. UNCHANGED <<inputVars, goGroups, goMetrics, rawValues, values,
                    pyGroups, samples, parsed>>
    BY <1>5 DEF ReadMetric, goVars
  <2>2. DictInv'
    <3>1. pyStage' \in {"load", "read", "raised"} /\ pyStage = "read" /\ pyStage' # "load"
      BY <1>5 DEF ReadMetric
    <3>2. PyBefore(pyGroups)' = PyBefore(pyGroups)
      BY <2>1 DEF PyBefore, Definitions, SampleAt, Allowed, inputVars
    <3>3. \A d : SampleAt(d)' = SampleAt(d) /\ GroupAt(d)' = GroupAt(d)
      BY <2>1 DEF inputVars, SampleAt, GroupAt
    <3>4. \A d : IsLast(d, PyBefore(pyGroups))' <=> IsLast(d, PyBefore(pyGroups))
      BY <3>2, <3>3 DEF IsLast
    <3>5. [sid \in DOMAIN samples |-> PyField(samples[sid].group, samples[sid].sample)]'
            = [sid \in DOMAIN samples |-> PyField(samples[sid].group, samples[sid].sample)]
      BY <2>1 DEF inputVars, PyField, Slice, ByteOffset
    <3> QED  BY <2>1, <3>1, <3>2, <3>3, <3>4, <3>5 DEF DictInv, inputVars
  <2> QED  BY <1>5, <2>1, <2>2, InputsKeep, RawFrame, ValuesFrame, ReadMetricKeeps
<1>6. CASE UNCHANGED vars
  <2>1. UNCHANGED <<inputVars, goGroups, goMetrics, rawValues, values,
                    pyGroups, pyMetrics, pyStage, samples, parsed, ret>>
    BY <1>6 DEF vars, goVars, pyVars
  <2> QED  BY <2>1, InputsKeep, RawFrame, ValuesFrame, DictFrame, RetFrame
<1> QED  BY <1>1, <1>2, <1>3, <1>4, <1>5, <1>6 DEF Next

\* What was decoded, published, kept and read at any step is what the two programs
\* make of the groups and metrics before it.
THEOREM DecodeInvariant == Spec => []DecodeIInv
BY InitDecode, NextDecode, PTL DEF Spec

\* The Go receiver decodes exactly what fits, and to its own bits, for words of any
\* width and any group, lsb and msb (common_processor.go:44-58).
THEOREM DecodesWhatFits == Spec => []GoDecodesWhatFits
<1>1. DecodeIInv => GoDecodesWhatFits
  <2> SUFFICES ASSUME DecodeIInv, GroupsRead PROVE GoDecodesWhatFits
    BY DEF GoDecodesWhatFits
  <2>1. GoBefore(goGroups) = Fitting
    BY DefinitionFact DEF DecodeIInv, GroupsRead, GoBefore, Fitting
  <2> QED  BY <2>1 DEF DecodeIInv, RawInv, GoDecodesWhatFits
<1> QED  BY <1>1, DecodeInvariant, PTL

\* What is published is what has its inputs and evaluates, for any metrics
\* (common_processor.go:66-118).
THEOREM PublishesDecoded == Spec => []MetricsFromDecodedInputs
<1>1. DecodeIInv => MetricsFromDecodedInputs
  BY DEF DecodeIInv, ValuesInv, MetricsFromDecodedInputs, Published, LastPublished, GoDone
<1> QED  BY <1>1, DecodeInvariant, PTL

\* parsed_samples is the last definition of each allowed sample.
LEMMA ParsedFact ==
  ASSUME DecodeIInv, pyStage = "read"
  PROVE  /\ DOMAIN parsed = {SampleAt(d).sid : d \in {e \in Definitions : Allowed(SampleAt(e).sid)}}
         /\ \A d \in Definitions : Allowed(SampleAt(d).sid) /\ IsLast(d, Definitions) =>
              parsed[SampleAt(d).sid] = PyField(GroupAt(d), SampleAt(d))
<1> DEFINE kept == {e \in Definitions : Allowed(SampleAt(e).sid)}
<1> USE DEF DecodeIInv
<1>1. PyBefore(pyGroups) = kept
  <2>1. pyGroups = Len(aggregator)
    BY DEF DictInv
  <2> QED  BY <2>1, DefinitionFact DEF PyBefore
<1>2. DOMAIN samples = {SampleAt(d).sid : d \in kept}
  BY <1>1 DEF DictInv
<1>3. parsed = [sid \in DOMAIN samples |-> PyField(samples[sid].group, samples[sid].sample)]
  BY DEF DictInv
<1>4. ASSUME NEW d \in kept, IsLast(d, Definitions)
      PROVE  parsed[SampleAt(d).sid] = PyField(GroupAt(d), SampleAt(d))
  <2>1. IsLast(d, kept)
    BY <1>4 DEF IsLast
  <2>2. samples[SampleAt(d).sid] = [group |-> GroupAt(d), sample |-> SampleAt(d)]
    BY <1>1, <2>1 DEF DictInv
  <2>3. SampleAt(d).sid \in DOMAIN samples
    BY <1>2
  <2>4. /\ samples[SampleAt(d).sid].group = GroupAt(d)
        /\ samples[SampleAt(d).sid].sample = SampleAt(d)
    BY <2>2
  <2> QED  BY <1>3, <2>3, <2>4
<1> QED  BY <1>2, <1>3, <1>4

\* Every sample of the dictionary has a last definition.
LEMMA ParsedLast ==
  ASSUME DecodeIInv, pyStage = "read", NEW s \in DOMAIN parsed
  PROVE  \E d \in Definitions : /\ SampleAt(d).sid = s /\ IsLast(d, Definitions)
                                /\ parsed[s] = PyField(GroupAt(d), SampleAt(d))
<1>1. PICK e \in Definitions : Allowed(SampleAt(e).sid) /\ SampleAt(e).sid = s
  BY ParsedFact
<1>2. PICK d \in Definitions : SampleAt(d).sid = SampleAt(e).sid /\ IsLast(d, Definitions)
  BY LastExists DEF DecodeIInv
<1> QED  BY <1>1, <1>2, ParsedFact

\* On a complete region a sample of the agent is that of the receiver.
LEMMA SamplesAgree ==
  ASSUME DecodeIInv, GroupsRead, pyStage = "read",
         \A i \in 1..Len(aggregator) : Fits(aggregator[i]),
         NEW s \in DOMAIN parsed
  PROVE  s \in DOMAIN rawValues /\ parsed[s] = rawValues[s]
<1>1. PICK d \in Definitions : /\ SampleAt(d).sid = s /\ IsLast(d, Definitions)
                               /\ parsed[s] = PyField(GroupAt(d), SampleAt(d))
  BY ParsedLast
<1>2. /\ GroupAt(d).id \in Nat /\ Fits(GroupAt(d))
      /\ SampleAt(d).lsb \in Nat /\ SampleAt(d).msb \in Nat
  BY DefinitionFact DEF DecodeIInv, GroupAt
<1>3. PyField(GroupAt(d), SampleAt(d)) = FieldRef(GroupAt(d), SampleAt(d))
  BY <1>2, SameField, FieldFact DEF DecodeIInv, InputsTyped
<1>4. GoBefore(goGroups) = Definitions
  BY DefinitionFact DEF DecodeIInv, GroupsRead, GoBefore, Fitting, GroupAt
<1> QED  BY <1>1, <1>3, <1>4 DEF DecodeIInv, RawInv

\* What the agent reports is the formula of its mapping on samples of its dictionary.
LEMMA ReportedFact ==
  ASSUME DecodeIInv, PyDone, NEW i \in 1..Len(interface), Name(interface[i]) \in DOMAIN ret
  PROVE  LET m == Mapping(Name(interface[i]))
         IN  /\ m.inputs \subseteq DOMAIN parsed /\ Evaluates(m)
             /\ ret[Name(interface[i])] = Value(parsed, m)
<1>1. pyStage = "read" /\ pyMetrics = Len(interface)
  BY DEF PyDone
<1>2. PICK j \in Reported(pyMetrics) : Name(interface[i]) = Name(interface[j])
  BY <1>1 DEF DecodeIInv, RetInv
<1>3. /\ ~KeyError(Mapping(Name(interface[j]))) /\ Evaluates(Mapping(Name(interface[j])))
      /\ ret[Name(interface[i])] = Value(parsed, Mapping(Name(interface[i])))
  BY <1>1, <1>2 DEF DecodeIInv, RetInv, Reported
<1> QED  BY <1>2, <1>3 DEF KeyError

\* Two programs that share no code decode and publish alike, for words of any width
\* (pmt.py:843-930, common_processor.go:43-118).
THEOREM Agreement == Spec => []CollectorsAgree
<1>1. DecodeIInv => CollectorsAgree
  <2> SUFFICES ASSUME DecodeIInv, GoDone, PyDone,
                      \A i \in 1..Len(aggregator) : Fits(aggregator[i])
               PROVE  /\ \A s \in DOMAIN parsed : s \in DOMAIN rawValues /\ parsed[s] = rawValues[s]
                      /\ \A i \in 1..Len(interface) :
                           Name(interface[i]) \in DOMAIN ret /\ ~interface[i].reserved /\ Unique(i)
                           => /\ PublishedName(interface[i]) \in DOMAIN values
                              /\ values[PublishedName(interface[i])] = ret[Name(interface[i])]
    BY DEF CollectorsAgree
  <2>1. /\ GroupsRead /\ goMetrics = Len(interface)
        /\ pyStage = "read" /\ pyMetrics = Len(interface)
    BY DEF GoDone, PyDone
  <2>2. \A s \in DOMAIN parsed : s \in DOMAIN rawValues /\ parsed[s] = rawValues[s]
    BY <2>1, SamplesAgree
  <2>3. ASSUME NEW i \in 1..Len(interface), Name(interface[i]) \in DOMAIN ret,
               ~interface[i].reserved, Unique(i)
        PROVE  /\ PublishedName(interface[i]) \in DOMAIN values
               /\ values[PublishedName(interface[i])] = ret[Name(interface[i])]
    <3> DEFINE m == interface[i]
    <3>1. Mapping(Name(m)) = m
      <4>1. Named(Name(m)) = {i}
        <5>1. \A j \in Named(Name(m)) : interface[j].name = m.name
          BY DEF Named, Name
        <5> QED  BY <5>1, <2>3 DEF Named, Unique
      <4>2. Max({i}) = i
        BY DEF Max
      <4> QED  BY <4>1, <4>2 DEF Mapping
    <3>2. /\ m.inputs \subseteq DOMAIN parsed /\ Evaluates(m)
          /\ ret[Name(m)] = Value(parsed, m)
      BY <2>3, <3>1, ReportedFact
    <3>3. m.inputs \subseteq DOMAIN rawValues /\ Value(rawValues, m) = Value(parsed, m)
      BY <2>2, <3>2 DEF Value
    <3>4. i \in Published(goMetrics)
      BY <2>1, <2>3, <3>2, <3>3 DEF Published
    <3>5. LastPublished(i, goMetrics)
      <4>1. ASSUME NEW j \in Published(goMetrics), PublishedName(interface[j]) = PublishedName(m)
            PROVE  j = i
        <5>1. interface[j].name = m.name
          BY <4>1 DEF PublishedName
        <5> QED  BY <2>1, <2>3, <4>1, <5>1 DEF Unique, Published
      <4> QED  BY <4>1 DEF LastPublished, DecodeIInv, InputsTyped
    <3> QED  BY <3>2, <3>3, <3>4, <3>5 DEF DecodeIInv, ValuesInv
  <2> QED  BY <2>2, <2>3
<1> QED  BY <1>1, DecodeInvariant, PTL

\* An allowlist only leaves out what the agent would report, for any allowlist and any
\* names (pmt.py:425-428, 888-894).
THEOREM OnlyFilters == Spec => []AllowlistOnlyFilters
<1>1. DecodeIInv => AllowlistOnlyFilters
  <2> SUFFICES ASSUME DecodeIInv, PyDone
               PROVE  /\ DOMAIN ret = {x \in DOMAIN Unrestricted : Shown(x)}
                      /\ \A x \in DOMAIN ret : ret[x] = Unrestricted[x]
    BY DEF AllowlistOnlyFilters
  <2>1. pyStage = "read" /\ pyMetrics = Len(interface)
    BY DEF PyDone
  <2>2. \A s \in DOMAIN parsed : s \in DOMAIN EverySample /\ parsed[s] = EverySample[s]
    <3> SUFFICES ASSUME NEW s \in DOMAIN parsed
                 PROVE  s \in DOMAIN EverySample /\ parsed[s] = EverySample[s]
      OBVIOUS
    <3>1. PICK d \in Definitions : /\ SampleAt(d).sid = s /\ IsLast(d, Definitions)
                                   /\ parsed[s] = PyField(GroupAt(d), SampleAt(d))
      BY <2>1, ParsedLast
    <3>2. /\ LastDefinition(s) \in Definitions
          /\ SampleAt(LastDefinition(s)).sid = s /\ IsLast(LastDefinition(s), Definitions)
      BY <3>1 DEF LastDefinition
    <3>3. LastDefinition(s) = d
      BY <3>1, <3>2, LastUnique DEF DecodeIInv
    <3> QED  BY <3>1, <3>3 DEF EverySample
  <2> DEFINE reported == {j \in 1..Len(interface) :
               LET m == Mapping(Name(interface[j]))
               IN  Evaluates(m) /\ m.inputs \subseteq DOMAIN EverySample}
  <2>3. DOMAIN Unrestricted = {Name(interface[i]) : i \in reported}
    BY DEF Unrestricted
  <2>4. DOMAIN ret = {Name(interface[i]) : i \in Reported(Len(interface))}
    BY <2>1 DEF DecodeIInv, RetInv
  <2>5. \A i \in Reported(Len(interface)) : i \in reported /\ Shown(Name(interface[i]))
    <3> SUFFICES ASSUME NEW i \in Reported(Len(interface))
                 PROVE  i \in reported /\ Shown(Name(interface[i]))
      OBVIOUS
    <3>1. /\ i \in 1..Len(interface) /\ Shown(Name(interface[i]))
          /\ Evaluates(Mapping(Name(interface[i])))
      BY DEF Reported
    <3>2. Mapping(Name(interface[i])).inputs \subseteq DOMAIN parsed
      BY <2>1, <3>1 DEF DecodeIInv, RetInv, KeyError
    <3> QED  BY <2>2, <3>1, <3>2
  <2>6. \A i \in reported : Shown(Name(interface[i])) => i \in Reported(Len(interface))
    BY DEF Reported
  <2>7. DOMAIN ret = {x \in DOMAIN Unrestricted : Shown(x)}
    <3> HIDE DEF reported
    <3> QED  BY <2>3, <2>4, <2>5, <2>6
  <2>8. ASSUME NEW x \in DOMAIN ret PROVE ret[x] = Unrestricted[x]
    <3>1. PICK i \in 1..Len(interface) : x = Name(interface[i])
      BY <2>4, <2>8 DEF Reported
    <3>2. /\ Mapping(x).inputs \subseteq DOMAIN parsed
          /\ ret[x] = Value(parsed, Mapping(x))
      BY <2>8, <3>1, ReportedFact
    <3>3. Value(parsed, Mapping(x)) = Value(EverySample, Mapping(x))
      BY <2>2, <3>2 DEF Value
    <3>4. x \in DOMAIN Unrestricted
      BY <2>7
    <3> QED  BY <3>2, <3>3, <3>4 DEF Unrestricted
  <2> QED  BY <2>7, <2>8
<1> QED  BY <1>1, DecodeInvariant, PTL

-----------------------------------------------------------------------------
(* Functions on the natural numbers.                                       *)

LEMMA Induction ==
  ASSUME NEW T, 0 \in T, \A n \in Nat : n \in T => n + 1 \in T
  PROVE  \A n \in Nat : n \in T
<1> SUFFICES ASSUME NEW n \in Nat, n \notin T PROVE FALSE
  OBVIOUS
<1> DEFINE out == {m \in Nat : m \notin T}
<1>1. PICK x \in out : \A y \in out : x <= y
  <2>1. out \in SUBSET Nat /\ out # {}
    OBVIOUS
  <2> HIDE DEF out
  <2> QED  BY <2>1, LeastExists
<1>2. x # 0 /\ x - 1 \in Nat /\ x = (x - 1) + 1
  OBVIOUS
<1>3. x - 1 \in T
  BY <1>1, <1>2
<1> QED  BY <1>2, <1>3

\* A function that is defined by its first value and by a step exists.
LEMMA Recursion ==
  ASSUME NEW z \in Int, NEW step \in [Nat \X Int -> Int]
  PROVE  \E f \in [Nat -> Int] : f[0] = z /\ \A n \in Nat : f[n + 1] = step[<<n, f[n]>>]
<1> DEFINE Closed(R) == /\ <<0, z>> \in R
                        /\ \A n \in Nat, v \in Int : <<n, v>> \in R => <<n + 1, step[<<n, v>>]>> \in R
           G == {p \in Nat \X Int : \A R \in SUBSET (Nat \X Int) : Closed(R) => p \in R}
           one == {n \in Nat : \E v \in Int : <<n, v>> \in G /\ \A w \in Int : <<n, w>> \in G => w = v}
<1>1. \A n \in Nat, v \in Int : step[<<n, v>>] \in Int
  OBVIOUS
<1>2. Closed(G)
  <2>1. <<0, z>> \in G
    OBVIOUS
  <2>2. ASSUME NEW n \in Nat, NEW v \in Int, <<n, v>> \in G
        PROVE  <<n + 1, step[<<n, v>>]>> \in G
    BY <1>1, <2>2
  <2> QED  BY <2>1, <2>2
<1>3. ASSUME NEW R \in SUBSET (Nat \X Int), Closed(R) PROVE G \subseteq R
  BY <1>3
<1>4. 0 \in one
  <2>1. ASSUME NEW w \in Int, <<0, w>> \in G, w # z PROVE FALSE
    <3> DEFINE R == G \ {<<0, w>>}
    <3>1. <<0, z>> # <<0, w>>
      BY <2>1
    <3>2. ASSUME NEW m \in Nat, NEW x \in Int, <<m, x>> \in R
          PROVE  <<m + 1, step[<<m, x>>]>> \in R
      <4>1. <<m + 1, step[<<m, x>>]>> # <<0, w>>
        OBVIOUS
      <4> QED  BY <1>2, <3>2, <4>1
    <3>3. Closed(R)
      BY <1>2, <3>1, <3>2
    <3>4. G \subseteq R
      <4>1. R \in SUBSET (Nat \X Int)
        OBVIOUS
      <4> HIDE DEF R, Closed, G
      <4> QED  BY <1>3, <3>3, <4>1
    <3> QED  BY <2>1, <3>4
  <2> QED  BY <1>2, <2>1
<1>5. ASSUME NEW n \in Nat, n \in one PROVE n + 1 \in one
  <2>1. PICK v \in Int : <<n, v>> \in G /\ \A w \in Int : <<n, w>> \in G => w = v
    BY <1>5
  <2> DEFINE u == step[<<n, v>>]
  <2>2. u \in Int /\ <<n + 1, u>> \in G
    BY <1>1, <1>2, <2>1
  <2>3. ASSUME NEW w \in Int, <<n + 1, w>> \in G, w # u PROVE FALSE
    <3> DEFINE R == G \ {<<n + 1, w>>}
    <3>1. <<0, z>> \in R
      <4>1. <<0, z>> # <<n + 1, w>>
        OBVIOUS
      <4> QED  BY <1>2, <4>1
    <3>2. ASSUME NEW m \in Nat, NEW x \in Int, <<m, x>> \in R
          PROVE  <<m + 1, step[<<m, x>>]>> \in R
      <4>1. <<m + 1, step[<<m, x>>]>> \in G
        BY <1>2, <3>2
      <4>2. CASE m = n
        <5>1. x = v
          BY <2>1, <3>2, <4>2
        <5>2. step[<<m, x>>] # w
          BY <2>3, <4>2, <5>1
        <5>3. <<m + 1, step[<<m, x>>]>> # <<n + 1, w>>
          BY <5>2
        <5> QED  BY <4>1, <5>3
      <4>3. CASE m # n
        <5>1. <<m + 1, step[<<m, x>>]>> # <<n + 1, w>>
          BY <4>3
        <5> QED  BY <4>1, <5>1
      <4> QED  BY <4>2, <4>3
    <3>3. Closed(R)
      BY <3>1, <3>2
    <3>4. G \subseteq R
      <4>1. R \in SUBSET (Nat \X Int)
        OBVIOUS
      <4> HIDE DEF R, Closed, G
      <4> QED  BY <1>3, <3>3, <4>1
    <3> QED  BY <2>3, <3>4
  <2>4. \A w \in Int : <<n + 1, w>> \in G => w = u
    BY <2>3
  <2> HIDE DEF u, G
  <2>5. \E v1 \in Int : <<n + 1, v1>> \in G /\ \A w \in Int : <<n + 1, w>> \in G => w = v1
    BY <2>2, <2>4
  <2>6. n + 1 \in Nat
    OBVIOUS
  <2> QED  BY <2>5, <2>6
<1> HIDE DEF one
<1>6. \A n \in Nat : n \in one
  BY <1>4, <1>5, Induction
<1> USE DEF one
<1> HIDE DEF G
<1> DEFINE f == [n \in Nat |-> CHOOSE v \in Int : <<n, v>> \in G]
<1>7. \A n \in Nat : f[n] \in Int /\ <<n, f[n]>> \in G
  BY <1>6
<1>8. \A n \in Nat, v, w \in Int : <<n, v>> \in G /\ <<n, w>> \in G => v = w
  BY <1>6
<1>9. f \in [Nat -> Int]
  BY <1>7
<1> HIDE DEF f
<1>10. f[0] = z
  BY <1>2, <1>7, <1>8
<1>11. ASSUME NEW n \in Nat PROVE f[n + 1] = step[<<n, f[n]>>]
  <2>1. <<n + 1, step[<<n, f[n]>>]>> \in G /\ <<n + 1, f[n + 1]>> \in G
    BY <1>2, <1>7
  <2>2. f[n] \in Int /\ f[n + 1] \in Int
    BY <1>9
  <2>3. step[<<n, f[n]>>] \in Int
    BY <1>1, <2>2
  <2> QED  BY <2>1, <2>2, <2>3, <1>8
<1> QED  BY <1>9, <1>10, <1>11

LEMMA PowerExists ==
  ASSUME NEW l \in Int
  PROVE \E f \in [Nat -> Int] : f = [k \in Nat |-> IF k = 0 THEN 1 ELSE l * f[k - 1]]
<1> DEFINE step == [q \in Nat \X Int |-> l * q[2]]
<1>1. step \in [Nat \X Int -> Int]
  OBVIOUS
<1>2. PICK f \in [Nat -> Int] : f[0] = 1 /\ \A n \in Nat : f[n + 1] = step[<<n, f[n]>>]
  <2> DEFINE first == 1
  <2>1. first \in Int
    OBVIOUS
  <2> HIDE DEF step, first
  <2>2. \E f \in [Nat -> Int] : f[0] = first /\ \A n \in Nat : f[n + 1] = step[<<n, f[n]>>]
    BY <1>1, <2>1, Recursion
  <2> QED  BY <2>2 DEF first
<1>3. \A n \in Nat : f[n + 1] = l * f[n]
  BY <1>2
<1>4. ASSUME NEW k \in Nat PROVE f[k] = IF k = 0 THEN 1 ELSE l * f[k - 1]
  <2>1. CASE k = 0
    BY <1>2, <2>1
  <2>2. CASE k # 0
    <3>1. k - 1 \in Nat /\ (k - 1) + 1 = k
      BY <2>2
    <3>2. f[(k - 1) + 1] = l * f[k - 1]
      BY <1>3, <3>1
    <3> QED  BY <2>2, <3>1, <3>2
  <2> QED  BY <2>1, <2>2
<1>5. f = [k \in Nat |-> IF k = 0 THEN 1 ELSE l * f[k - 1]]
  BY <1>4
<1> QED  BY <1>5

LEMMA PowerFact ==
  ASSUME NEW l \in Int
  PROVE  /\ Power(l, 0) = 1
         /\ \A n \in Nat : Power(l, n + 1) = l * Power(l, n)
<1> DEFINE p == CHOOSE g : g = [k \in Nat |-> IF k = 0 THEN 1 ELSE l * g[k - 1]]
<1>1. p = [k \in Nat |-> IF k = 0 THEN 1 ELSE l * p[k - 1]]
  BY PowerExists
<1>2. \A n : Power(l, n) = p[n]
  BY DEF Power
<1> HIDE DEF p
<1>3. \A k \in Nat : p[k] = IF k = 0 THEN 1 ELSE l * p[k - 1]
  BY <1>1
<1>4. ASSUME NEW n \in Nat PROVE p[n + 1] = l * p[n]
  <2>1. n + 1 \in Nat /\ n + 1 # 0 /\ (n + 1) - 1 = n
    OBVIOUS
  <2> QED  BY <1>3, <2>1
<1> QED  BY <1>2, <1>3, <1>4

LEMMA PowerInt ==
  ASSUME NEW l \in Int
  PROVE  \A n \in Nat : Power(l, n) \in Int
<1> DEFINE T == {n \in Nat : Power(l, n) \in Int}
<1>1. 0 \in T
  BY PowerFact
<1>2. \A n \in Nat : n \in T => n + 1 \in T
  <2>1. \A n \in Nat : n + 1 \in Nat /\ Power(l, n + 1) = l * Power(l, n)
    BY PowerFact
  <2> QED  BY <2>1
<1> HIDE DEF T
<1>3. \A n \in Nat : n \in T
  BY <1>1, <1>2, Induction
<1> QED  BY <1>3 DEF T

LEMMA TwoStep == ASSUME NEW n \in Nat PROVE Power(2, n + 1) = 2 * Power(2, n)
BY PowerFact

LEMMA TwoPower ==
  \A n \in Nat : Power(2, n) \in Nat /\ Power(2, n) > n
<1> DEFINE T == {n \in Nat : Power(2, n) \in Nat /\ Power(2, n) > n}
<1>1. 0 \in T
  <2>1. Power(2, 0) = 1
    BY PowerFact
  <2> QED  BY <2>1
<1>2. ASSUME NEW n \in Nat, n \in T PROVE n + 1 \in T
  BY <1>2, TwoStep
<1> HIDE DEF T
<1>3. \A n \in Nat : n \in T
  BY <1>1, <1>2, Induction
<1> QED  BY <1>3 DEF T

LEMMA TwoSum ==
  ASSUME NEW a \in Nat
  PROVE  \A b \in Nat : Power(2, a + b) = Power(2, a) * Power(2, b)
<1> DEFINE T == {b \in Nat : Power(2, a + b) = Power(2, a) * Power(2, b)}
<1>1. 0 \in T
  <2>1. Power(2, 0) = 1 /\ a + 0 = a /\ Power(2, a) \in Nat
    BY PowerFact, TwoPower
  <2> QED  BY <2>1
<1>2. ASSUME NEW b \in Nat, b \in T PROVE b + 1 \in T
  <2> DEFINE m == a + b
             p == Power(2, a)
             q == Power(2, b)
  <2>1. m \in Nat /\ a + (b + 1) = m + 1 /\ p \in Nat /\ q \in Nat
    BY TwoPower
  <2>2. Power(2, m) = p * q
    BY <1>2
  <2>3. Power(2, b + 1) = 2 * q
    BY TwoStep
  <2> HIDE DEF m, p, q
  <2>4. Power(2, m + 1) = 2 * Power(2, m)
    BY <2>1, TwoStep
  <2>5. 2 * (p * q) = p * (2 * q)
    BY <2>1
  <2>6. Power(2, a + (b + 1)) = p * Power(2, b + 1)
    BY <2>1, <2>2, <2>3, <2>4, <2>5
  <2> QED  BY <2>6 DEF p
<1> HIDE DEF T
<1>3. \A b \in Nat : b \in T
  BY <1>1, <1>2, Induction
<1> QED  BY <1>3 DEF T

LEMMA TwoMonotone ==
  ASSUME NEW m \in Nat, NEW n \in Nat, m <= n
  PROVE  Power(2, m) <= Power(2, n)
<1> DEFINE d == n - m
           p == Power(2, m)
           q == Power(2, d)
<1>1. d \in Nat /\ n = m + d
  OBVIOUS
<1>2. p \in Nat /\ q \in Nat /\ q >= 1
  BY <1>1, TwoPower
<1>3. Power(2, n) = p * q
  BY <1>1, TwoSum
<1> HIDE DEF p, q
<1>4. p * 1 <= p * q
  BY <1>2
<1> QED  BY <1>2, <1>3, <1>4 DEF p

-----------------------------------------------------------------------------
(* Lengths.                                                                *)

LEMMA BitLengthFact ==
  ASSUME NEW n \in Int
  PROVE  /\ BitLength(n) \in Nat
         /\ Abs(n) < Power(2, BitLength(n))
         /\ BitLength(n) > 0 => Power(2, BitLength(n) - 1) <= Abs(n)
<1> DEFINE T == {b \in Nat : Abs(n) < Power(2, b)}
<1>1. Abs(n) \in Nat
  BY DEF Abs
<1>2. Abs(n) \in T
  BY <1>1, TwoPower
<1>3. PICK b \in T : \A c \in T : b <= c
  BY <1>2, LeastExists
<1>4. b \in 0..Abs(n)
  BY <1>1, <1>2, <1>3
<1>5. b > 0 => Power(2, b - 1) <= Abs(n)
  <2> SUFFICES ASSUME b > 0 PROVE Power(2, b - 1) <= Abs(n)
    OBVIOUS
  <2>1. b - 1 \in Nat /\ ~(b <= b - 1)
    BY <1>4, <1>1
  <2>2. b - 1 \notin T
    BY <1>3, <2>1
  <2> QED  BY <2>1, <2>2, <1>1, TwoPower
<1>6. \E c \in 0..Abs(n) : Abs(n) < Power(2, c) /\ (c > 0 => Power(2, c - 1) <= Abs(n))
  BY <1>3, <1>4, <1>5
<1>7. /\ BitLength(n) \in 0..Abs(n) /\ Abs(n) < Power(2, BitLength(n))
      /\ BitLength(n) > 0 => Power(2, BitLength(n) - 1) <= Abs(n)
  BY <1>6 DEF BitLength
<1> QED  BY <1>1, <1>7

\* A number below 2^c has at most c digits.
LEMMA BitLengthBound ==
  ASSUME NEW n \in Int, NEW c \in Nat, Abs(n) < Power(2, c)
  PROVE  BitLength(n) <= c
<1> SUFFICES ASSUME BitLength(n) > c PROVE FALSE
  BY BitLengthFact
<1> DEFINE b == BitLength(n) - 1
<1>1. b \in Nat /\ c <= b /\ Power(2, b) <= Abs(n)
  BY BitLengthFact
<1> HIDE DEF b
<1>2. Power(2, c) <= Power(2, b) /\ Power(2, b) \in Nat /\ Power(2, c) \in Nat /\ Abs(n) \in Nat
  BY <1>1, TwoMonotone, TwoPower DEF Abs
<1> QED  BY <1>1, <1>2

\* A number of at most c digits is below 2^c.
LEMMA LengthBelow ==
  ASSUME NEW n \in Int, NEW c \in Nat, BitLength(n) <= c
  PROVE  Abs(n) < Power(2, c)
<1>1. /\ BitLength(n) \in Nat /\ Abs(n) < Power(2, BitLength(n)) /\ Abs(n) \in Nat
  BY BitLengthFact DEF Abs
<1>2. Power(2, BitLength(n)) <= Power(2, c)
  BY <1>1, TwoMonotone
<1>3. Power(2, c) \in Nat /\ Power(2, BitLength(n)) \in Nat
  BY <1>1, TwoPower
<1> QED  BY <1>1, <1>2, <1>3

-----------------------------------------------------------------------------
(* What an operation computes.                                             *)

LEMMA AbsProduct ==
  ASSUME NEW x \in Int, NEW y \in Int, NEW u \in Nat, NEW v \in Nat, Abs(x) <= u, Abs(y) <= v
  PROVE  x * y \in Int /\ Abs(x * y) <= u * v
<1>1. Abs(x) \in Nat /\ Abs(y) \in Nat /\ x * y \in Int
  BY DEF Abs
<1>2. Abs(x * y) = Abs(x) * Abs(y)
  <2>1. CASE x >= 0 /\ y >= 0
    <3>1. x * y >= 0
      BY <2>1
    <3> QED  BY <2>1, <3>1 DEF Abs
  <2>2. CASE x < 0 /\ y < 0
    <3>1. (-x) * (-y) = x * y /\ (-x) * (-y) >= 0
      BY <2>2
    <3> QED  BY <2>2, <3>1 DEF Abs
  <2>3. CASE x >= 0 /\ y < 0
    <3>1. x * (-y) = -(x * y) /\ x * (-y) >= 0
      BY <2>3
    <3> QED  BY <2>3, <3>1 DEF Abs
  <2>4. CASE x < 0 /\ y >= 0
    <3>1. (-x) * y = -(x * y) /\ (-x) * y >= 0
      BY <2>4
    <3> QED  BY <2>4, <3>1 DEF Abs
  <2> QED  BY <2>1, <2>2, <2>3, <2>4
<1> DEFINE a == Abs(x)
           b == Abs(y)
<1> HIDE DEF a, b
<1>3. a \in Nat /\ b \in Nat /\ a <= u /\ b <= v
  BY <1>1 DEF a, b
<1>4. a * b <= u * b
  BY <1>3
<1>5. u * b <= u * v
  BY <1>3
<1>6. a * b <= u * v
  BY <1>3, <1>4, <1>5
<1> QED  BY <1>1, <1>2, <1>6 DEF a, b

LEMMA AbsQuotient ==
  ASSUME NEW n \in Int, NEW d \in Nat \ {0}
  PROVE  n \div d \in Int /\ Abs(n \div d) <= Abs(n)
<1> DEFINE q == n \div d
<1>1. q \in Int /\ q * d <= n /\ n < q * d + d
  OBVIOUS
<1> HIDE DEF q
<1>2. CASE n >= 0
  <2>1. q >= 0
    <3>1. SUFFICES ASSUME q + 1 <= 0 PROVE FALSE
      BY <1>1
    <3>2. (q + 1) * d <= 0
      BY <1>1, <3>1
    <3>3. q * d + d = (q + 1) * d
      BY <1>1
    <3> QED  BY <1>1, <1>2, <3>2, <3>3
  <2>2. q <= q * d
    BY <1>1, <2>1
  <2> QED  BY <1>1, <1>2, <2>1, <2>2 DEF Abs, q
<1>3. CASE n < 0
  <2>1. q < 0
    <3>1. SUFFICES ASSUME q >= 0 PROVE FALSE
      BY <1>1
    <3>2. q * d >= 0
      BY <1>1, <3>1
    <3> QED  BY <1>1, <1>3, <3>2
  <2>2. n <= q
    <3>1. SUFFICES ASSUME q + 1 <= n PROVE FALSE
      BY <1>1
    <3>2. (q + 1) * d <= q + 1
      BY <1>1, <2>1
    <3>3. q * d + d = (q + 1) * d
      BY <1>1
    <3> QED  BY <1>1, <3>1, <3>2, <3>3
  <2> QED  BY <1>1, <1>3, <2>1, <2>2 DEF Abs, q
<1> QED  BY <1>2, <1>3

LEMMA AbsPower ==
  ASSUME NEW l \in Int, NEW a \in Nat, Abs(l) <= Power(2, a)
  PROVE  \A r \in Nat : Abs(Power(l, r)) <= Power(2, a * r)
<1> DEFINE T == {r \in Nat : Abs(Power(l, r)) <= Power(2, a * r)}
<1>1. 0 \in T
  <2>1. Power(l, 0) = 1 /\ Power(2, 0) = 1 /\ a * 0 = 0
    BY PowerFact
  <2> QED  BY <2>1 DEF Abs
<1>2. ASSUME NEW r \in Nat, r \in T PROVE r + 1 \in T
  <2> DEFINE x == Power(l, r)
             m == a * r
             u == Power(2, a)
             v == Power(2, m)
  <2>1. x \in Int /\ m \in Nat
    BY PowerInt
  <2>2. u \in Nat /\ v \in Nat /\ Power(2, a + m) = u * v
    <3> HIDE DEF m
    <3> QED  BY <2>1, TwoPower, TwoSum
  <2>3. Power(l, r + 1) = l * x
    BY PowerFact
  <2>4. a * (r + 1) = a + m
    OBVIOUS
  <2>5. Abs(l) <= u /\ Abs(x) <= v
    BY <1>2
  <2> HIDE DEF x, m, u, v
  <2>6. Abs(l * x) <= u * v
    BY <2>1, <2>2, <2>5, AbsProduct
  <2>7. Abs(Power(l, r + 1)) <= Power(2, a * (r + 1))
    BY <2>2, <2>3, <2>4, <2>6
  <2> QED  BY <2>7
<1> HIDE DEF T
<1>3. \A r \in Nat : r \in T
  BY <1>1, <1>2, Induction
<1> QED  BY <1>3 DEF T

LEMMA DigitFact ==
  ASSUME NEW n \in Int, NEW k \in Nat
  PROVE  Digit(n, k) \in 0..1
<1> DEFINE d == Power(2, k)
<1>1. d \in Nat \ {0}
  BY TwoPower
<1> HIDE DEF d
<1>2. n \div d \in Int
  BY <1>1
<1>3. \A q \in Int : q % 2 \in 0..1
  OBVIOUS
<1> QED  BY <1>2, <1>3 DEF Digit, d

LEMMA CombineFact ==
  ASSUME NEW op, NEW a \in 0..1, NEW b \in 0..1
  PROVE  Combine(op, a, b) \in 0..1
<1>1. a \in {0, 1} /\ b \in {0, 1}
  OBVIOUS
<1>2. CASE a = 0
  BY <1>1, <1>2 DEF Combine
<1>3. CASE a = 1
  BY <1>1, <1>3 DEF Combine
<1> QED  BY <1>1, <1>2, <1>3

\* The operators on digits give a number of MaxBits digits and a sign.
LEMMA DigitwiseFact ==
  ASSUME NEW op, NEW l \in Int, NEW r \in Int
  PROVE  Digitwise(op, l, r) \in Int /\ Abs(Digitwise(op, l, r)) <= Power(2, MaxBits)
<1> DEFINE M == MaxBits
           digit(k) == Combine(op, Digit(l, M - k), Digit(r, M - k))
           first == -Combine(op, Digit(l, M), Digit(r, M))
           step == [q \in Nat \X Int |->
                     IF q[1] + 1 <= M THEN 2 * q[2] + digit(q[1] + 1) ELSE q[2]]
<1>1. M \in Nat
  BY LimitsAssumption
<1>2. \A k \in 0..M : digit(k) \in 0..1
  <2>1. \A k \in 0..M : M - k \in Nat
    BY <1>1
  <2> QED  BY <2>1, DigitFact, CombineFact
<1>3. first \in Int /\ first \in {-1, 0}
  BY <1>1, DigitFact, CombineFact
<1> HIDE DEF digit, first, M
<1>4. step \in [Nat \X Int -> Int]
  <2>1. ASSUME NEW q \in Nat \X Int
        PROVE  (IF q[1] + 1 <= M THEN 2 * q[2] + digit(q[1] + 1) ELSE q[2]) \in Int
    <3>1. q[1] \in Nat /\ q[2] \in Int
      OBVIOUS
    <3>2. q[1] + 1 <= M => digit(q[1] + 1) \in 0..1
      BY <1>1, <1>2, <3>1
    <3> QED  BY <3>1, <3>2
  <2> QED  BY <2>1
<1>5. PICK f \in [Nat -> Int] : f[0] = first /\ \A n \in Nat : f[n + 1] = step[<<n, f[n]>>]
  <2> HIDE DEF step
  <2> QED  BY <1>3, <1>4, Recursion
<1>6. \A n \in Nat : n + 1 <= M => f[n + 1] = 2 * f[n] + digit(n + 1)
  BY <1>5
<1> HIDE DEF step
<1> DEFINE Is(g) == g = [k \in 0..M |-> IF k = 0 THEN first ELSE 2 * g[k - 1] + digit(k)]
           t == [k \in 0..M |-> f[k]]
           top == CHOOSE g : Is(g)
<1>7. Is(t)
  <2>1. ASSUME NEW k \in 0..M PROVE t[k] = IF k = 0 THEN first ELSE 2 * t[k - 1] + digit(k)
    <3>1. CASE k = 0
      BY <1>1, <1>5, <3>1
    <3>2. CASE k # 0
      <4>1. k - 1 \in Nat /\ k - 1 \in 0..M /\ (k - 1) + 1 = k /\ (k - 1) + 1 <= M
        BY <1>1, <3>2
      <4>2. f[(k - 1) + 1] = 2 * f[k - 1] + digit((k - 1) + 1)
        BY <1>6, <4>1
      <4> QED  BY <3>2, <4>1, <4>2
    <3> QED  BY <3>1, <3>2
  <2> QED  BY <2>1
<1>8. Is(top)
  <2> HIDE DEF Is, t
  <2> QED  BY <1>7
<1>9. Digitwise(op, l, r) = top[M]
  BY DEF Digitwise, digit, first, M
<1> HIDE DEF top
<1>10. \A k \in 0..M : top[k] = IF k = 0 THEN first ELSE 2 * top[k - 1] + digit(k)
  BY <1>8
<1> HIDE DEF Is, t
<1> DEFINE T == {k \in Nat : k <= M => top[k] \in -Power(2, k)..(Power(2, k) - 1)}
<1>11. 0 \in T
  <2>1. Power(2, 0) = 1 /\ top[0] = first
    BY <1>1, <1>10, PowerFact
  <2> QED  BY <1>3, <2>1
<1>12. ASSUME NEW k \in Nat, k \in T PROVE k + 1 \in T
  <2> SUFFICES ASSUME k + 1 <= M
               PROVE  top[k + 1] \in -Power(2, k + 1)..(Power(2, k + 1) - 1)
    OBVIOUS
  <2> DEFINE p == Power(2, k)
  <2>1. p \in Nat /\ Power(2, k + 1) = 2 * p
    BY TwoPower, TwoStep
  <2>2. k + 1 \in 0..M /\ k <= M /\ (k + 1) - 1 = k /\ k + 1 # 0
    BY <1>1
  <2>3. top[k + 1] = 2 * top[k] + digit(k + 1)
    BY <1>10, <2>2
  <2>4. top[k] \in -p..(p - 1) /\ digit(k + 1) \in 0..1
    BY <1>2, <1>12, <2>2
  <2> HIDE DEF p
  <2> QED  BY <2>1, <2>3, <2>4
<1> HIDE DEF T
<1>13. M \in T
  BY <1>1, <1>11, <1>12, Induction
<1>14. top[M] \in -Power(2, M)..(Power(2, M) - 1) /\ Power(2, M) \in Nat
  BY <1>1, <1>13, TwoPower DEF T
<1> QED  BY <1>9, <1>14 DEF Abs, M

\* What an operator builds of checked operands, when no check refuses it.
LEMMA ApplyBounded ==
  ASSUME NEW op, NEW l \in Int, NEW r \in Int,
         BitLength(l) <= MaxBits, BitLength(r) <= MaxBits,
         ~Refused(op, l, r), ~GivesFloat(op, r)
  PROVE  Apply(op, l, r) \in Int /\ BitLength(Apply(op, l, r)) <= 2 * MaxBits
<1> DEFINE M == MaxBits
           P == Power(2, M)
           b == BitLength(l)
           y == Apply(op, l, r)
<1>1. M \in Nat /\ M > 0 /\ M + M = 2 * M /\ 2 * M \in Nat
  BY LimitsAssumption
<1>2. P \in Nat /\ P > 1 /\ Power(2, 2 * M) = P * P
  <2>1. P \in Nat /\ P > M
    BY <1>1, TwoPower
  <2>2. Power(2, M + M) = P * P
    BY <1>1, TwoSum
  <2> QED  BY <1>1, <2>1, <2>2
<1>3. b \in Nat /\ Abs(l) < Power(2, b) /\ Power(2, b) \in Nat
  BY BitLengthFact, TwoPower
<1>4. Abs(l) < P /\ Abs(r) < P
  BY <1>1, LengthBelow
<1>5. Abs(l) \in Nat /\ Abs(r) \in Nat
  BY DEF Abs
<1>6. 2 * P <= P * P
  <2> HIDE DEF P
  <2> QED  BY <1>2
<1> SUFFICES y \in Int /\ Abs(y) < P * P
  <2> HIDE DEF y, P, M
  <2>1. BitLength(y) <= 2 * M
    BY <1>1, <1>2, BitLengthBound
  <2> QED  BY <2>1 DEF y, M
<1>7. CASE op = "+" \/ op = "-"
  <2>1. y = l + r \/ y = l - r
    BY <1>7 DEF Apply
  <2> HIDE DEF P, y
  <2>2. y \in Int /\ Abs(y) < 2 * P
    BY <1>2, <1>4, <2>1 DEF Abs
  <2> QED  BY <1>2, <1>6, <2>2 DEF Abs
<1>8. CASE op = "*"
  <2>1. y = l * r
    BY <1>8 DEF Apply
  <2> DEFINE u == P - 1
  <2> HIDE DEF P, y
  <2>2. u \in Nat /\ Abs(l) <= u /\ Abs(r) <= u
    BY <1>2, <1>4, <1>5
  <2>3. u * u = P * P - 2 * P + 1
    BY <1>2
  <2> HIDE DEF u
  <2>4. l * r \in Int /\ Abs(l * r) <= u * u
    BY <2>2, AbsProduct
  <2>5. Abs(l * r) \in Int /\ u * u \in Int /\ P * P \in Int
    BY <1>2, <2>2, <2>4 DEF Abs
  <2> QED  BY <1>2, <2>1, <2>3, <2>4, <2>5
<1>9. CASE op = "**"
  <2>1. r \in Nat /\ y = Power(l, r) /\ b * r <= M
    BY <1>1, <1>3, <1>9 DEF Refused, GivesFloat, Apply
  <2> HIDE DEF b
  <2>2. Abs(l) <= Power(2, b)
    BY <1>3, <1>5
  <2>3. Abs(Power(l, r)) <= Power(2, b * r) /\ Power(l, r) \in Int
    BY <1>3, <2>1, <2>2, AbsPower, PowerInt
  <2> DEFINE n == b * r
  <2>4. n \in Nat /\ n <= M
    BY <1>3, <2>1
  <2> HIDE DEF n
  <2>5. Power(2, n) <= P /\ Power(2, n) \in Nat
    BY <1>1, <2>4, TwoMonotone, TwoPower
  <2>6. y \in Int /\ Abs(y) <= Power(2, n) /\ Abs(y) \in Int
    BY <2>1, <2>3 DEF n, Abs
  <2> HIDE DEF P, y
  <2> QED  BY <1>2, <1>6, <2>5, <2>6
<1>10. CASE op = "<<"
  <2>1. r \in Nat /\ y = l * Power(2, r) /\ b + r <= M
    BY <1>1, <1>3, <1>10, LimitsAssumption DEF Refused, Apply
  <2> DEFINE u == Power(2, b)
             v == Power(2, r)
  <2> HIDE DEF b
  <2>2. u \in Nat /\ v \in Nat /\ Power(2, b + r) = u * v
    BY <1>3, <2>1, TwoPower, TwoSum
  <2>3. u * v <= P
    BY <1>1, <1>3, <2>1, <2>2, TwoMonotone
  <2>4. Abs(l) <= u
    BY <1>3, <1>5
  <2> HIDE DEF u, v
  <2>5. Abs(v) <= v
    BY <2>2 DEF Abs
  <2>6. l * v \in Int /\ Abs(l * v) <= u * v
    BY <2>2, <2>4, <2>5, AbsProduct
  <2>7. y \in Int /\ Abs(y) <= u * v /\ Abs(y) \in Int /\ u * v \in Int
    BY <2>1, <2>2, <2>6 DEF v, Abs
  <2> HIDE DEF P, y
  <2> QED  BY <1>2, <1>6, <2>3, <2>7
<1>11. CASE op = ">>"
  <2>1. r \in Nat /\ y = l \div Power(2, r)
    BY <1>11, LimitsAssumption DEF Refused, Apply
  <2> DEFINE d == Power(2, r)
  <2>2. d \in Nat \ {0}
    BY <2>1, TwoPower
  <2>3. y = l \div d
    BY <2>1
  <2> HIDE DEF d, y
  <2>4. y \in Int /\ Abs(y) <= Abs(l)
    BY <2>2, <2>3, AbsQuotient
  <2> HIDE DEF P
  <2> QED  BY <1>2, <1>4, <1>5, <1>6, <2>4 DEF Abs
<1>12. CASE op \notin {"+", "-", "*", "**", "<<", ">>"}
  <2>1. y = Digitwise(op, l, r)
    BY <1>12 DEF Apply
  <2>2. y \in Int /\ Abs(y) <= P
    BY <2>1, DigitwiseFact
  <2> HIDE DEF P, y
  <2> QED  BY <1>2, <1>6, <2>2 DEF Abs
<1> QED  BY <1>7, <1>8, <1>9, <1>10, <1>11, <1>12

LEMMA ApplyUnaryBounded ==
  ASSUME NEW op, NEW n \in Int, BitLength(n) <= MaxBits
  PROVE  ApplyUnary(op, n) \in Int /\ BitLength(ApplyUnary(op, n)) <= 2 * MaxBits
<1> DEFINE P == Power(2, MaxBits)
           y == ApplyUnary(op, n)
<1>1. MaxBits \in Nat /\ MaxBits + 1 \in Nat /\ MaxBits + 1 <= 2 * MaxBits
  BY LimitsAssumption
<1>2. P \in Nat /\ Power(2, MaxBits + 1) = 2 * P /\ P > 0
  BY <1>1, TwoPower, TwoStep
<1>3. Abs(n) < P
  BY <1>1, LengthBelow
<1>4. y \in {n, -n, -n - 1}
  BY DEF ApplyUnary
<1> HIDE DEF P, y
<1>5. y \in Int /\ Abs(y) < 2 * P
  BY <1>2, <1>3, <1>4 DEF Abs
<1> DEFINE c == MaxBits + 1
<1>6. c \in Nat /\ Abs(y) < Power(2, c) /\ c <= 2 * MaxBits
  BY <1>1, <1>2, <1>5
<1> HIDE DEF c
<1>7. BitLength(y) <= c /\ BitLength(y) \in Nat
  BY <1>5, <1>6, BitLengthBound, BitLengthFact
<1> QED  BY <1>1, <1>5, <1>6, <1>7 DEF y

-----------------------------------------------------------------------------
(* The evaluation of formulas.                                             *)

\* The results of evaluate: floats, and integers within the limit.
Limited == {Float} \cup {IntValue(n) : n \in {m \in Int : BitLength(m) <= MaxBits}}

\* Every node so far has the value that it has without limits; an integer that is
\* returned is the last of them; and a name without a value was not declared.
FormulaIInv ==
  /\ expression \in Expressions
  /\ prepared = "accepted" => \A k \in 1..Len(expression) : Acceptable(expression[k])
  /\ outcome.is # "none" => prepared = "accepted" /\ given \in Inputs
  /\ results \in Seq(Limited) /\ Len(results) <= Len(expression)
  /\ \A k \in 1..Len(results) : results[k] = ValueIn(expression[k], given, results)
  /\ Running => Len(results) < Len(expression)
  /\ outcome.is = "int" => Len(results) = Len(expression) /\ outcome = results[Len(expression)]
  /\ outcome.is = "invalid" => ~(Parameters \subseteq DOMAIN given)

LEMMA LimitedFact ==
  ASSUME NEW v \in Limited
  PROVE  /\ v.is = "int" => v.val \in Int /\ BitLength(v.val) <= MaxBits /\ v = IntValue(v.val)
         /\ v.is # "int" => v = Float
<1>1. CASE v = Float
  BY <1>1 DEF Float
<1>2. CASE v # Float
  <2>1. PICK n \in Int : BitLength(n) <= MaxBits /\ v = IntValue(n)
    BY <1>2 DEF Limited
  <2>2. v.is = "int" /\ v.val = n
    BY <2>1 DEF IntValue
  <2> QED  BY <2>1, <2>2
<1> QED  BY <1>1, <1>2

LEMMA CheckedFact ==
  ASSUME NEW n \in Int
  PROVE  Checked(n) = Error \/ (Checked(n) = IntValue(n) /\ Checked(n) \in Limited)
<1>1. CASE BitLength(n) > MaxBits
  BY <1>1 DEF Checked
<1>2. CASE ~(BitLength(n) > MaxBits)
  <2>1. BitLength(n) <= MaxBits
    BY <1>2, BitLengthFact, LimitsAssumption
  <2> QED  BY <1>2, <2>1 DEF Checked, Limited
<1> QED  BY <1>1, <1>2

\* A node's operands come before it.
LEMMA OperandsBefore ==
  ASSUME NEW e \in Expressions, NEW k \in 1..Len(e)
  PROVE  /\ e[k].op = "int" => e[k].val \in Int
         /\ e[k].op \in Unaries => e[k].args[1] \in 1..(k - 1)
         /\ e[k].op \in Binaries => e[k].args[1] \in 1..(k - 1) /\ e[k].args[2] \in 1..(k - 1)
         /\ Len(e) \in Nat \ {0} /\ DOMAIN e = 1..Len(e)
BY ExpressionsAssumption

\* The value of a node, by its kind.
LEMMA ValueInCases ==
  ASSUME NEW node, NEW on, NEW value
  PROVE  /\ node.op = "int" => ValueIn(node, on, value) = IntValue(node.val)
         /\ node.op = "name" =>
              ValueIn(node, on, value) =
                IF node.val \in DOMAIN on THEN IntValue(on[node.val]) ELSE Float
         /\ node.op \in Unaries =>
              ValueIn(node, on, value) =
                IF value[node.args[1]].is = "int"
                THEN IntValue(ApplyUnary(node.op, value[node.args[1]].val)) ELSE Float
         /\ node.op \in Binaries =>
              ValueIn(node, on, value) =
                IF /\ value[node.args[1]].is = "int" /\ value[node.args[2]].is = "int"
                   /\ ~GivesFloat(node.op, value[node.args[2]].val)
                THEN IntValue(Apply(node.op, value[node.args[1]].val, value[node.args[2]].val))
                ELSE Float
         /\ node.op \notin {"int", "name"} \cup Unaries \cup Binaries =>
              ValueIn(node, on, value) = Float
<1>1. CASE node.op \in {"int", "name"}
  BY <1>1 DEF ValueIn, Unaries, Binaries
<1>2. CASE node.op \in Unaries
  BY <1>2 DEF ValueIn, Unaries, Binaries
<1>3. CASE node.op \in Binaries
  BY <1>3 DEF ValueIn, Unaries, Binaries
<1>4. CASE node.op \notin {"int", "name"} \cup Unaries \cup Binaries
  BY <1>4 DEF ValueIn
<1> QED  BY <1>1, <1>2, <1>3, <1>4

\* The value of a node depends on that of the nodes before it only.
LEMMA ValueInLocal ==
  ASSUME NEW e \in Expressions, NEW k \in 1..Len(e), NEW on, NEW f, NEW g,
         \A j \in 1..(k - 1) : f[j] = g[j]
  PROVE  ValueIn(e[k], on, f) = ValueIn(e[k], on, g)
<1> DEFINE node == e[k]
<1>1. /\ node.op \in Unaries => f[node.args[1]] = g[node.args[1]]
      /\ node.op \in Binaries => /\ f[node.args[1]] = g[node.args[1]]
                                 /\ f[node.args[2]] = g[node.args[2]]
  BY OperandsBefore
<1> HIDE DEF node
<1>2. ValueIn(node, on, f) = ValueIn(node, on, g)
  BY <1>1, ValueInCases
<1> QED  BY <1>2 DEF node

\* The operands of the node whose turn it is have been evaluated.
LEMMA OperandsReturned ==
  ASSUME FormulaIInv, Running
  PROVE  LET k == Len(results) + 1
             node == expression[k]
         IN  /\ k \in 1..Len(expression) /\ k - 1 = Len(results) /\ Acceptable(node)
             /\ node.op \in Unaries => results[node.args[1]] \in Limited
             /\ node.op \in Binaries => /\ results[node.args[1]] \in Limited
                                        /\ results[node.args[2]] \in Limited
<1> DEFINE k == Len(results) + 1
           node == expression[k]
<1>1. expression \in Expressions /\ Len(expression) \in Nat \ {0}
  BY ExpressionsAssumption DEF FormulaIInv
<1>2. results \in Seq(Limited) /\ Len(results) \in Nat /\ Len(results) < Len(expression)
  BY DEF FormulaIInv
<1>3. k \in 1..Len(expression) /\ k - 1 = Len(results)
  BY <1>1, <1>2
<1>4. Acceptable(node)
  BY <1>3 DEF FormulaIInv, Running
<1>5. \A j \in 1..(k - 1) : results[j] \in Limited
  BY <1>2, <1>3
<1> QED  BY <1>1, <1>3, <1>4, <1>5, OperandsBefore

\* What may come of a node, by its kind.
LEMMA ReturnsCases ==
  ASSUME NEW node, Acceptable(node)
  PROVE  /\ node.op = "int" => Returns(node) = {Checked(node.val)}
         /\ node.op = "float" => Returns(node) = {Float, Error}
         /\ node.op = "name" =>
              /\ node.val \in Parameters
              /\ Returns(node) =
                   {IF node.val \in DOMAIN given THEN Checked(given[node.val]) ELSE Invalid}
         /\ node.op \in Unaries => Returns(node) = Unary(node.op, results[node.args[1]])
         /\ node.op \in Binaries =>
              Returns(node) = Binary(node.op, results[node.args[1]], results[node.args[2]])
         /\ node.op \in {"int", "float", "name"} \cup Unaries \cup Binaries
<1>1. CASE node.op \in {"int", "float"}
  BY <1>1 DEF Returns, Unaries, Binaries
<1>2. CASE node.op = "name"
  BY <1>2 DEF Returns, Unaries, Binaries, Acceptable
<1>3. CASE node.op \in Unaries
  BY <1>3 DEF Returns, Unaries, Binaries
<1>4. CASE node.op \in Binaries
  BY <1>4 DEF Returns, Unaries, Binaries
<1> QED  BY <1>1, <1>2, <1>3, <1>4 DEF Acceptable

\* What evaluate returns from a node, when it does not fail, is its value without
\* limits, and within them.
LEMMA ReturnsValue ==
  ASSUME FormulaIInv, Running,
         NEW v \in Returns(expression[Len(results) + 1]), v.is \notin {"error", "invalid"}
  PROVE  v \in Limited /\ v = ValueIn(expression[Len(results) + 1], given, results)
<1> DEFINE node == expression[Len(results) + 1]
           x == results[node.args[1]]
           y == results[node.args[2]]
           Goal == v \in Limited /\ v = ValueIn(node, given, results)
<1>1. Error.is = "error" /\ Invalid.is = "invalid" /\ Float \in Limited /\ Float.is = "float"
  BY DEF Error, Invalid, Float, Limited
<1>2. /\ Acceptable(node)
      /\ node.op = "int" => node.val \in Int
      /\ node.op \in Unaries => x \in Limited
      /\ node.op \in Binaries => x \in Limited /\ y \in Limited
  BY OperandsReturned, OperandsBefore DEF FormulaIInv
<1>3. given \in Inputs
  BY DEF FormulaIInv, Running
<1>4. v \in Returns(node)
  OBVIOUS
<1> HIDE DEF node
<1> SUFFICES Goal
  BY DEF node
<1>5. CASE node.op = "int"
  <2>1. v = Checked(node.val)
    BY <1>2, <1>4, <1>5, ReturnsCases
  <2> QED  BY <1>1, <1>2, <1>5, <2>1, CheckedFact, ValueInCases
<1>6. CASE node.op = "name"
  <2>1. v = IF node.val \in DOMAIN given THEN Checked(given[node.val]) ELSE Invalid
    BY <1>2, <1>4, <1>6, ReturnsCases
  <2>2. node.val \in DOMAIN given /\ v = Checked(given[node.val])
    BY <1>1, <2>1
  <2>3. given[node.val] \in Int
    BY <1>3, <2>2, InputsAssumption
  <2> QED  BY <1>1, <1>6, <2>2, <2>3, CheckedFact, ValueInCases
<1>7. CASE node.op = "float"
  <2>1. v = Float
    BY <1>1, <1>2, <1>4, <1>7, ReturnsCases
  <2> QED  BY <1>1, <1>7, <2>1, ValueInCases DEF Unaries, Binaries
<1>8. CASE node.op \in Unaries
  <2>1. v \in Unary(node.op, x)
    BY <1>2, <1>4, <1>8, ReturnsCases
  <2>2. x \in Limited
    BY <1>2, <1>8
  <2> HIDE DEF x
  <2>3. CASE x.is = "int"
    <3>1. v = Checked(ApplyUnary(node.op, x.val)) /\ x.val \in Int /\ BitLength(x.val) <= MaxBits
      BY <2>1, <2>2, <2>3, LimitedFact DEF Unary
    <3>2. ApplyUnary(node.op, x.val) \in Int
      BY <3>1, ApplyUnaryBounded
    <3> QED  BY <1>1, <1>8, <2>3, <3>1, <3>2, CheckedFact, ValueInCases DEF x
  <2>4. CASE x.is # "int"
    <3>1. v = Float
      BY <1>1, <2>1, <2>4 DEF Unary
    <3> QED  BY <1>1, <1>8, <2>4, <3>1, ValueInCases DEF x
  <2> QED  BY <2>3, <2>4
<1>9. CASE node.op \in Binaries
  <2>1. v \in Binary(node.op, x, y)
    BY <1>2, <1>4, <1>9, ReturnsCases
  <2>2. x \in Limited /\ y \in Limited
    BY <1>2, <1>9
  <2> HIDE DEF x, y
  <2>3. CASE x.is = "int" /\ y.is = "int"
    <3>1. /\ v = BinaryInt(node.op, x.val, y.val)
          /\ x.val \in Int /\ BitLength(x.val) <= MaxBits
          /\ y.val \in Int /\ BitLength(y.val) <= MaxBits
      BY <2>1, <2>2, <2>3, LimitedFact DEF Binary
    <3>2. ~Refused(node.op, x.val, y.val)
      BY <1>1, <3>1 DEF BinaryInt
    <3>3. CASE GivesFloat(node.op, y.val)
      <4>1. v = Float
        BY <1>1, <3>1, <3>3 DEF BinaryInt
      <4> QED  BY <1>1, <1>9, <3>3, <4>1, ValueInCases DEF y
    <3>4. CASE ~GivesFloat(node.op, y.val)
      <4>1. v = Checked(Apply(node.op, x.val, y.val))
        BY <1>1, <3>1, <3>4 DEF BinaryInt
      <4>2. Apply(node.op, x.val, y.val) \in Int
        BY <3>1, <3>2, <3>4, ApplyBounded
      <4>3. v = IntValue(Apply(node.op, x.val, y.val)) /\ v \in Limited
        BY <1>1, <4>1, <4>2, CheckedFact
      <4> QED  BY <1>9, <2>3, <3>4, <4>3, ValueInCases DEF x, y
    <3> QED  BY <3>3, <3>4
  <2>4. CASE ~(x.is = "int" /\ y.is = "int")
    <3>1. v = Float
      BY <1>1, <2>1, <2>4 DEF Binary
    <3> QED  BY <1>1, <1>9, <2>4, <3>1, ValueInCases DEF x, y
  <2> QED  BY <2>3, <2>4
<1> QED  BY <1>2, <1>5, <1>6, <1>7, <1>8, <1>9, ReturnsCases

\* Only a name without a value cannot be taken.
LEMMA InvalidName ==
  ASSUME FormulaIInv, Running,
         NEW v \in Returns(expression[Len(results) + 1]), v.is = "invalid"
  PROVE  ~(Parameters \subseteq DOMAIN given)
<1> DEFINE node == expression[Len(results) + 1]
<1>1. Acceptable(node) /\ v \in Returns(node)
  BY OperandsReturned
<1> HIDE DEF node
<1>2. /\ Error.is # "invalid" /\ Float.is # "invalid"
      /\ \A n : IntValue(n).is # "invalid" /\ Checked(n).is # "invalid"
  BY DEF Error, Float, IntValue, Checked
<1>3. node.op \notin Unaries
  <2> SUFFICES ASSUME node.op \in Unaries PROVE FALSE
    OBVIOUS
  <2>1. v \in Unary(node.op, results[node.args[1]])
    BY <1>1, ReturnsCases
  <2> QED  BY <1>2, <2>1 DEF Unary
<1>4. node.op \notin Binaries
  <2> SUFFICES ASSUME node.op \in Binaries PROVE FALSE
    OBVIOUS
  <2>1. v \in Binary(node.op, results[node.args[1]], results[node.args[2]])
    BY <1>1, ReturnsCases
  <2> QED  BY <1>2, <2>1 DEF Binary, BinaryInt
<1>5. node.op \notin {"int", "float"}
  BY <1>1, <1>2, ReturnsCases DEF Error
<1>6. node.op = "name" /\ node.val \in Parameters
  BY <1>1, <1>3, <1>4, <1>5, ReturnsCases
<1>7. v = IF node.val \in DOMAIN given THEN Checked(given[node.val]) ELSE Invalid
  BY <1>1, <1>6, ReturnsCases
<1> QED  BY <1>2, <1>6, <1>7

LEMMA InitFormula == FormulaInit => FormulaIInv
<1> SUFFICES ASSUME FormulaInit PROVE FormulaIInv
  OBVIOUS
<1>1. expression \in Expressions /\ prepared = "no" /\ results = <<>> /\ outcome.is = "none"
  BY DEF FormulaInit
<1>2. results \in Seq(Limited) /\ Len(results) = 0
  BY <1>1
<1>3. Len(expression) \in Nat \ {0}
  BY <1>1, ExpressionsAssumption
<1> QED  BY <1>1, <1>2, <1>3 DEF FormulaIInv, Running

LEMMA PrepareKeeps ==
  ASSUME FormulaIInv, Prepare
  PROVE  FormulaIInv'
<1>1. UNCHANGED <<expression, given, results, outcome>> /\ prepared = "no"
  BY DEF Prepare
<1>2. outcome.is = "none"
  BY <1>1 DEF FormulaIInv
<1>3. (prepared = "accepted" => \A k \in 1..Len(expression) : Acceptable(expression[k]))'
  BY <1>1 DEF Prepare
<1> QED  BY <1>1, <1>2, <1>3 DEF FormulaIInv, Running

LEMMA ReadKeeps ==
  ASSUME FormulaIInv, NEW on \in Inputs, Read(on)
  PROVE  FormulaIInv'
<1>1. /\ UNCHANGED <<expression, prepared>> /\ prepared = "accepted"
      /\ given' = on /\ results' = <<>> /\ outcome'.is = "running"
  BY DEF Read
<1>2. results' \in Seq(Limited) /\ Len(results') = 0
  BY <1>1
<1>3. expression \in Expressions /\ Len(expression) \in Nat \ {0}
  BY ExpressionsAssumption DEF FormulaIInv
<1> QED  BY <1>1, <1>2, <1>3 DEF FormulaIInv, Running

LEMMA EvaluateNodeKeeps ==
  ASSUME FormulaIInv, EvaluateNode
  PROVE  FormulaIInv'
<1> DEFINE n == Len(results)
           k == n + 1
<1>1. PICK v \in Returns(expression[Len(results) + 1]) :
        IF v.is \in {"error", "invalid"}
        THEN results' = results /\ outcome' = v
        ELSE /\ results' = Append(results, v)
             /\ outcome' = IF k = Len(expression) THEN v ELSE outcome
  BY DEF EvaluateNode
<1>2. /\ Running /\ UNCHANGED <<expression, prepared, given>>
      /\ outcome.is = "running" /\ prepared = "accepted" /\ given \in Inputs
  BY DEF EvaluateNode, Running, FormulaIInv
<1>3. /\ expression \in Expressions /\ Len(expression) \in Nat \ {0}
      /\ results \in Seq(Limited) /\ n \in Nat /\ n < Len(expression) /\ k \in 1..Len(expression)
  BY <1>2, ExpressionsAssumption DEF FormulaIInv
<1>4. CASE v.is = "error"
  BY <1>1, <1>2, <1>3, <1>4 DEF FormulaIInv, Running
<1>5. CASE v.is = "invalid"
  <2>1. ~(Parameters \subseteq DOMAIN given)
    BY <1>2, <1>5, InvalidName
  <2> QED  BY <1>1, <1>2, <1>3, <1>5, <2>1 DEF FormulaIInv, Running
<1>6. CASE v.is \notin {"error", "invalid"}
  <2>1. v \in Limited /\ v = ValueIn(expression[k], given, results)
    BY <1>2, <1>6, ReturnsValue
  <2>2. /\ results' = Append(results, v) /\ results' \in Seq(Limited)
        /\ Len(results') = k /\ results'[k] = v
        /\ \A j \in 1..n : results'[j] = results[j]
    BY <1>1, <1>3, <1>6, <2>1
  <2>3. ASSUME NEW j \in 1..Len(results')
        PROVE  results'[j] = ValueIn(expression'[j], given', results')
    <3>1. j \in 1..Len(expression) /\ j - 1 <= n /\ (j \in 1..n \/ j = k)
      BY <1>3, <2>2
    <3>2. \A i \in 1..(j - 1) : results[i] = results'[i]
      BY <1>3, <2>2, <3>1
    <3>3. ValueIn(expression[j], given, results) = ValueIn(expression[j], given, results')
      BY <1>3, <3>1, <3>2, ValueInLocal
    <3>4. results'[j] = ValueIn(expression[j], given, results)
      BY <2>1, <2>2, <3>1 DEF FormulaIInv
    <3> QED  BY <1>2, <3>3, <3>4
  <2>4. CASE k = Len(expression)
    <3>1. outcome' = v /\ v.is \in {"int", "float"}
      <4>1. v.is = "int" \/ v = Float
        BY <2>1, LimitedFact
      <4> QED  BY <1>1, <1>6, <2>4, <4>1 DEF Float
    <3> QED  BY <1>2, <1>3, <2>2, <2>3, <2>4, <3>1 DEF FormulaIInv, Running
  <2>5. CASE k # Len(expression)
    <3>1. outcome' = outcome
      BY <1>1, <1>6, <2>5
    <3>2. k < Len(expression)
      BY <1>3, <2>5
    <3> QED  BY <1>2, <1>3, <2>2, <2>3, <3>1, <3>2 DEF FormulaIInv, Running
  <2> QED  BY <2>4, <2>5
<1> QED  BY <1>4, <1>5, <1>6

\* Every result of an evaluation so far is a float or an integer within the limit, and
\* is what the formula means without limits; evaluate fails on a node that it cannot
\* take only where a declared parameter has no value (pmt.py:799-835).
THEOREM FormulaInvariant == FormulaSpec => []FormulaIInv
<1>1. FormulaInit => FormulaIInv
  BY InitFormula
<1>2. FormulaIInv /\ [FormulaNext]_formulaVars => FormulaIInv'
  <2> SUFFICES ASSUME FormulaIInv, [FormulaNext]_formulaVars PROVE FormulaIInv'
    OBVIOUS
  <2>1. CASE Prepare
    BY <2>1, PrepareKeeps
  <2>2. CASE EvaluateNode
    BY <2>2, EvaluateNodeKeeps
  <2>3. CASE \E on \in Inputs : Read(on)
    BY <2>3, ReadKeeps
  <2>4. CASE UNCHANGED formulaVars
    BY <2>4 DEF formulaVars, FormulaIInv, Running, Acceptable
  <2> QED  BY <2>1, <2>2, <2>3, <2>4 DEF FormulaNext
<1> QED  BY <1>1, <1>2, PTL DEF FormulaSpec

\* No operation builds an integer of more than twice MaxBits bits, for every limit,
\* formula and input: what is refused is never computed, and what is computed has
\* operands that have been checked (pmt.py:809-828).
THEOREM BoundedWork == FormulaSpec => []WorkBounded
<1>1. FormulaIInv => WorkBounded
  <2> SUFFICES ASSUME FormulaIInv, Running
               PROVE  RawBits(expression[Len(results) + 1]) <= 2 * MaxBits
    BY DEF WorkBounded
  <2> DEFINE node == expression[Len(results) + 1]
             x == results[node.args[1]]
             y == results[node.args[2]]
  <2>1. /\ node.op \in Unaries => x \in Limited
        /\ node.op \in Binaries => x \in Limited /\ y \in Limited
    BY OperandsReturned
  <2> HIDE DEF node
  <2> SUFFICES RawBits(node) <= 2 * MaxBits
    BY DEF node
  <2>2. 0 <= 2 * MaxBits
    BY LimitsAssumption
  <2>3. CASE node.op \in Unaries /\ x.is = "int"
    <3>1. x.val \in Int /\ BitLength(x.val) <= MaxBits
      BY <2>1, <2>3, LimitedFact
    <3>2. RawBits(node) = BitLength(ApplyUnary(node.op, x.val))
      BY <2>3 DEF RawBits
    <3> QED  BY <3>1, <3>2, ApplyUnaryBounded
  <2>4. CASE node.op \in Binaries /\ x.is = "int" /\ y.is = "int"
    <3>1. /\ x.val \in Int /\ BitLength(x.val) <= MaxBits
          /\ y.val \in Int /\ BitLength(y.val) <= MaxBits
      BY <2>1, <2>4, LimitedFact
    <3>2. node.op \notin Unaries
      BY <2>4 DEF Unaries, Binaries
    <3>3. CASE Refused(node.op, x.val, y.val) \/ GivesFloat(node.op, y.val)
      BY <2>2, <2>4, <3>2, <3>3 DEF RawBits
    <3>4. CASE ~(Refused(node.op, x.val, y.val) \/ GivesFloat(node.op, y.val))
      <4>1. RawBits(node) = BitLength(Apply(node.op, x.val, y.val))
        BY <2>4, <3>2, <3>4 DEF RawBits
      <4> QED  BY <3>1, <3>4, <4>1, ApplyBounded
    <3> QED  BY <3>3, <3>4
  <2>5. CASE ~(\/ node.op \in Unaries /\ x.is = "int"
               \/ node.op \in Binaries /\ x.is = "int" /\ y.is = "int")
    <3>1. RawBits(node) = 0
      BY <2>5 DEF RawBits
    <3> QED  BY <2>2, <3>1
  <2> QED  BY <2>3, <2>4, <2>5
<1> QED  BY <1>1, FormulaInvariant, PTL

\* What the check at load time accepts can be evaluated, for every set of parameters
\* and every input that gives them values (pmt.py:776-791, 802-825).
THEOREM EvaluableAccepted == FormulaSpec => []AcceptedIsEvaluable
<1>1. FormulaIInv => AcceptedIsEvaluable
  BY DEF FormulaIInv, AcceptedIsEvaluable
<1> QED  BY <1>1, FormulaInvariant, PTL

\* When every node has been evaluated, the results are the one function that gives
\* every node its value.
LEMMA IdealResults ==
  ASSUME FormulaIInv, Len(results) = Len(expression)
  PROVE  \A k \in 1..Len(expression) : Ideal[k] = results[k]
<1> DEFINE N == Len(expression)
           Is(g) == g = [k \in 1..N |-> ValueIn(expression[k], given, g)]
           f == [k \in 1..N |-> results[k]]
           ideal == CHOOSE g : Is(g)
<1>1. /\ expression \in Expressions /\ N \in Nat
      /\ \A k \in 1..N : results[k] = ValueIn(expression[k], given, results)
  BY ExpressionsAssumption DEF FormulaIInv
<1> HIDE DEF N
<1>2. \A k \in 1..N : f[k] = results[k]
  OBVIOUS
<1>3. Is(f)
  <2>1. ASSUME NEW k \in 1..N
        PROVE  f[k] = ValueIn(expression[k], given, f)
    <3>1. \A j \in 1..(k - 1) : results[j] = f[j]
      BY <1>1, <2>1
    <3>2. ValueIn(expression[k], given, results) = ValueIn(expression[k], given, f)
      BY <1>1, <3>1, ValueInLocal DEF N
    <3> QED  BY <1>1, <1>2, <3>2
  <2> QED  BY <2>1
<1>4. Is(ideal)
  <2> HIDE DEF Is, f
  <2> QED  BY <1>3
<1>5. Ideal = ideal
  BY DEF Ideal, N
<1> HIDE DEF ideal
<1>6. \A k \in 1..N : ideal[k] = ValueIn(expression[k], given, ideal)
  BY <1>4
<1> HIDE DEF Is, f
<1> DEFINE T == {k \in 1..N : ideal[k] # results[k]}
<1>7. T = {}
  <2> SUFFICES ASSUME T # {} PROVE FALSE
    OBVIOUS
  <2>1. T \in SUBSET Nat
    BY <1>1
  <2>2. PICK k \in T : \A m \in T : k <= m
    <3> HIDE DEF T
    <3> QED  BY <2>1, LeastExists
  <2>3. k \in 1..N /\ ideal[k] # results[k]
    BY <2>2
  <2>4. \A j \in 1..(k - 1) : ideal[j] = results[j]
    <3> SUFFICES ASSUME NEW j \in 1..(k - 1), ideal[j] # results[j] PROVE FALSE
      OBVIOUS
    <3>1. j \in 1..N /\ ~(k <= j)
      BY <1>1, <2>3
    <3> QED  BY <2>2, <3>1
  <2>5. ValueIn(expression[k], given, ideal) = ValueIn(expression[k], given, results)
    <3>1. k \in 1..Len(expression) /\ expression \in Expressions
      BY <1>1, <2>3 DEF N
    <3> DEFINE e == expression
               g == results
    <3>2. \A j \in 1..(k - 1) : ideal[j] = g[j]
      BY <2>4
    <3>3. k \in 1..Len(e) /\ e \in Expressions
      BY <3>1
    <3> HIDE DEF T, g, e
    <3>4. ValueIn(e[k], given, ideal) = ValueIn(e[k], given, g)
      BY <3>2, <3>3, ValueInLocal
    <3> QED  BY <3>4 DEF e, g
  <2> QED  BY <1>1, <1>6, <2>3, <2>5
<1> QED  BY <1>5, <1>7 DEF N

\* An integer that an evaluation returns is within the limit and is the value of the
\* formula without limits, for every limit, formula and input: the limits refuse, and
\* never truncate (pmt.py:809-828).
THEOREM ExactIntegers == FormulaSpec => []IntegersExact
<1>1. FormulaIInv => IntegersExact
  <2> SUFFICES ASSUME FormulaIInv, outcome.is = "int"
               PROVE  BitLength(outcome.val) <= MaxBits /\ outcome = Ideal[Len(expression)]
    BY DEF IntegersExact
  <2>1. Len(results) = Len(expression) /\ outcome = results[Len(expression)]
    BY DEF FormulaIInv
  <2>2. Len(expression) \in 1..Len(expression) /\ results \in Seq(Limited)
    BY ExpressionsAssumption DEF FormulaIInv
  <2>3. outcome \in Limited
    BY <2>1, <2>2
  <2>4. outcome = Ideal[Len(expression)]
    BY <2>1, <2>2, IdealResults
  <2> QED  BY <2>3, <2>4, LimitedFact
<1> QED  BY <1>1, FormulaInvariant, PTL
=============================================================================
