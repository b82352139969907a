-------------------------- MODULE AlgorithmsProofs --------------------------
(***************************************************************************)
(* What MCAlgorithms checks of small inputs, for every input: texts,        *)
(* elements and lists of any length, addresses of any width, any numbers.   *)
(* Induction goes by the least counterexample.                              *)
(***************************************************************************)
EXTENDS Algorithms, FiniteSetTheorems, SequenceTheorems, WellFoundedInduction, TLAPS

(* Every set of numbers has a least one.                                    *)
LEMMA NatLeast ==
  ASSUME NEW T, T \subseteq Nat, T # {}
  PROVE  \E n \in T : \A m \in T : n <= m
<1>1. PICK n \in T : \A m \in T : ~(<<m, n>> \in OpToRel(<, Nat))
  BY NatLessThanWellFounded, WFMin, Zenon
<1>2. \A m \in T : ~(m < n)
  BY <1>1 DEF OpToRel
<1> QED BY <1>2

(* Min() gives it.                                                          *)
LEMMA MinIs ==
  ASSUME NEW T, T \subseteq Nat, T # {}
  PROVE  Min(T) \in T /\ \A n \in T : Min(T) <= n
<1>1. \E n \in T : \A m \in T : n <= m
  BY NatLeast
<1> QED BY <1>1 DEF Min

-----------------------------------------------------------------------------
(* Addresses. *)

(* A power of two counts the sets of positions below it, and one position   *)
(* more doubles them.                                                       *)
LEMMA Power ==
  ASSUME NEW i \in Nat
  PROVE  2^i \in Nat /\ 2^0 = 1 /\ 2^(i + 1) = 2 * 2^i
<1> DEFINE n == i + 1
           S == SUBSET (1..i)
           f == [s \in S |-> s \cup {n}]
           T == {f[s] : s \in S}
<1>1. /\ IsFiniteSet(1..i) /\ Cardinality(1..i) = i
      /\ IsFiniteSet(1..n) /\ Cardinality(1..n) = n
  BY FS_Interval
<1>2. IsFiniteSet(S) /\ Cardinality(S) = 2^i /\ Cardinality(SUBSET (1..n)) = 2^n
  BY <1>1, FS_SUBSET, Zenon
<1>3. \A s \in S : n \notin s /\ n \in f[s] /\ f[s] \ {n} = s
  OBVIOUS
<1>4. f \in Bijection(S, T)
  <2>1. f \in [S -> T] /\ f \in Surjection(S, T)
    BY DEF Surjection
  <2>2. \A s, t \in S : f[s] = f[t] => s = t
    BY <1>3, Zenon
  <2> HIDE DEF S, T, f
  <2> QED BY <2>1, <2>2 DEF Injection, IsInjective, Bijection
<1>5. IsFiniteSet(T) /\ Cardinality(T) = Cardinality(S)
  <2> HIDE DEF S, T, f
  <2> QED BY <1>2, <1>4, FS_Bijection DEF ExistsBijection
<1>6. S \cap T = {}
  <2> HIDE DEF S, f
  <2> QED BY <1>3
<1>7. S \cup T = SUBSET (1..n)
  <2>1. ASSUME NEW u \in SUBSET (1..n) PROVE u \in S \cup T
    <3>1. u \ {n} \in S /\ (n \in u => u = f[u \ {n}]) /\ (n \notin u => u = u \ {n})
      OBVIOUS
    <3> QED BY <3>1
  <2>2. 1..i \subseteq 1..n /\ n \in 1..n
    OBVIOUS
  <2>3. \A s \in S : s \subseteq 1..n /\ f[s] \subseteq 1..n
    BY <2>2
  <2> HIDE DEF S, f
  <2> QED BY <2>1, <2>3
<1>8. 2^i \in Nat
  BY <1>2, FS_CardinalityType
<1>9. 2^n = 2 * 2^i
  <2>1. Cardinality(S \cap T) = 0
    BY <1>6, FS_EmptySet
  <2> HIDE DEF S, T
  <2>2. Cardinality(S \cup T) = Cardinality(S) + Cardinality(T) - Cardinality(S \cap T)
    BY <1>2, <1>5, FS_Union
  <2>3. 2^n = Cardinality(S) + Cardinality(S)
    <3>1. Cardinality(S) \in Nat
      BY <1>2, <1>8
    <3>2. Cardinality(S \cup T) = Cardinality(S) + Cardinality(S)
      BY <1>5, <2>1, <2>2, <3>1
    <3> QED BY <1>2, <1>7, <3>2
  <2> QED BY <1>2, <1>8, <2>3
<1>10. 2^0 = 1
  <2>1. Cardinality(SUBSET {}) = 2^0
    BY FS_EmptySet, FS_SUBSET
  <2>2. SUBSET {} = {{}}
    OBVIOUS
  <2> QED BY <2>1, <2>2, FS_Singleton
<1> QED BY <1>8, <1>9, <1>10

(* The number in front of a bit is twice the number in front of the next    *)
(* one, and the bit.                                                        *)
LEMMA Halving ==
  ASSUME NEW a \in Nat, NEW i \in Nat
  PROVE  /\ a \div 2^i \in Nat
         /\ a \div 2^i = 2 * (a \div 2^(i + 1)) + ((a \div 2^i) % 2)
         /\ a \div 2^(i + 1) = (a \div 2^i) \div 2
<1>1. PICK p \in Nat : p = 2^i /\ 2 * p = 2^(i + 1) /\ p > 0
  <2>1. 2^i # 0
    <3> DEFINE S == SUBSET (1..i)
    <3>1. IsFiniteSet(1..i) /\ Cardinality(1..i) = i
      BY FS_Interval
    <3>2. IsFiniteSet(S) /\ Cardinality(S) = 2^i
      BY <3>1, FS_SUBSET, Zenon
    <3>3. S # {}
      OBVIOUS
    <3> QED BY <3>2, <3>3, FS_EmptySet
  <2> QED BY <2>1, Power
<1>2. PICK q \in Nat : q = a \div p /\ q * p <= a /\ a < q * p + p
  BY <1>1
<1>3. PICK h \in Nat : h = q \div 2 /\ q = 2 * h + (q % 2) /\ q % 2 \in {0, 1}
  OBVIOUS
<1>4. a \div (2 * p) = h
  BY <1>1, <1>2, <1>3
<1> QED BY <1>1, <1>2, <1>3, <1>4

(* Two addresses agree in the bits of the mask if and only if they have the *)
(* same prefix.                                                             *)
LEMMA MaskIsPrefix ==
  ASSUME NEW w \in Nat, NEW a \in 0..(2^w - 1), NEW b \in 0..(2^w - 1), NEW s \in 0..w
  PROVE  Bits(a, w) \cap Mask(w, s) = Bits(b, w) \cap Mask(w, s)
           <=> Leading(a, w, s) = Leading(b, w, s)
<1> DEFINE m == w - s
           Bit(x, i) == (x \div (2^i)) % 2
<1>1. m \in Nat /\ m <= w /\ a \in Nat /\ b \in Nat
  BY Power
<1>2. Bits(a, w) \cap Mask(w, s) = Bits(b, w) \cap Mask(w, s)
        <=> \A i \in m..(w - 1) : Bit(a, i) = 1 <=> Bit(b, i) = 1
  <2>1. \A i : i \in Mask(w, s) <=> i \in m..(w - 1)
    BY <1>1 DEF Mask
  <2>2. \A x, i : i \in m..(w - 1) => (i \in Bits(x, w) <=> Bit(x, i) = 1)
    BY <1>1 DEF Bits
  <2> HIDE DEF m, Bit
  <2> QED BY <2>1, <2>2
<1>3. ASSUME NEW x \in Nat, NEW i \in Nat
      PROVE  Bit(x, i) \in {0, 1} /\ x \div 2^i \in Nat
  BY Halving
<1>4. ASSUME \A i \in m..(w - 1) : Bit(a, i) = Bit(b, i)
      PROVE  a \div 2^m = b \div 2^m
  <2> DEFINE T == {d \in 0..s : a \div 2^(w - d) # b \div 2^(w - d)}
  <2>1. ASSUME NEW d \in T, \A e \in T : d <= e PROVE FALSE
    <3>1. CASE d = 0
      <4>1. a \div 2^w = 0 /\ b \div 2^w = 0
        <5>1. 2^w \in Nat /\ 2^w > 0
          BY Power
        <5> QED BY <5>1
      <4> QED BY <3>1, <4>1
    <3>2. CASE d # 0
      <4>1. PICK i \in m..(w - 1) : i = w - d /\ i \in Nat /\ i + 1 = w - (d - 1)
        BY <1>1, <3>2
      <4>2. a \div 2^(i + 1) = b \div 2^(i + 1)
        <5>1. d - 1 \in 0..s /\ d \in Nat
          BY <3>2
        <5>2. d - 1 \notin T
          <6> HIDE DEF T
          <6> QED BY <2>1, <5>1
        <5> QED BY <4>1, <5>1, <5>2
      <4>3. a \div 2^i = b \div 2^i
        <5>1. /\ a \div 2^i = 2 * (a \div 2^(i + 1)) + Bit(a, i)
              /\ b \div 2^i = 2 * (b \div 2^(i + 1)) + Bit(b, i)
          BY <1>1, <4>1, Halving
        <5> HIDE DEF Bit
        <5> QED BY <1>4, <4>2, <5>1
      <4> QED BY <4>1, <4>3
    <3> QED BY <3>1, <3>2
  <2>2. T = {}
    <3>1. T \subseteq Nat
      OBVIOUS
    <3> HIDE DEF T
    <3> QED BY <2>1, <3>1, NatLeast
  <2>3. s \in 0..s /\ w - s = m
    OBVIOUS
  <2> QED BY <2>2, <2>3
<1>5. ASSUME a \div 2^m = b \div 2^m
      PROVE  \A i \in m..(w - 1) : Bit(a, i) = Bit(b, i)
  <2> DEFINE T == {i \in m..(w - 1) : a \div 2^i # b \div 2^i}
  <2>1. ASSUME NEW i \in T, \A j \in T : i <= j PROVE FALSE
    <3>1. i # m
      BY <1>5
    <3>2. PICK j \in Nat : j + 1 = i /\ j \in m..(w - 1) /\ j \notin T
      <4>1. i - 1 \in Nat /\ i - 1 \in m..(w - 1) /\ i - 1 \notin T
        BY <1>1, <2>1, <3>1
      <4> QED BY <4>1
    <3>3. a \div 2^j = b \div 2^j
      BY <3>2
    <3>4. a \div 2^(j + 1) = b \div 2^(j + 1)
      <4>1. a \div 2^(j + 1) = (a \div 2^j) \div 2 /\ b \div 2^(j + 1) = (b \div 2^j) \div 2
        BY <1>1, Halving
      <4> QED BY <3>3, <4>1
    <3> QED BY <3>2, <3>4
  <2>2. T = {}
    <3>1. T \subseteq Nat
      BY <1>1
    <3> HIDE DEF T
    <3> QED BY <2>1, <3>1, NatLeast
  <2> QED BY <2>2
<1> QED
  <2>1. \A i \in m..(w - 1) : Bit(a, i) \in {0, 1} /\ Bit(b, i) \in {0, 1}
    BY <1>1, <1>3
  <2> HIDE DEF Bit
  <2>2. (\A i \in m..(w - 1) : Bit(a, i) = 1 <=> Bit(b, i) = 1)
          <=> \A i \in m..(w - 1) : Bit(a, i) = Bit(b, i)
    BY <2>1
  <2> QED BY <1>2, <1>4, <1>5, <2>2 DEF Leading

(* A block that can be read.                                                *)
ReadableBlock(block) == block.family \in Families /\ MaskSize(block) \in 0..Width[block.family]

(* Its number is one of its family.                                         *)
InFamily(block) == block.family \in Families => block.number \in 0..(2^Width[block.family] - 1)

(* The range that is made of a block contains whom the block covers.        *)
LEMMA RangeCovers ==
  ASSUME NEW block, InFamily(block)
  PROVE  LET range == ParseCIDRBlock(block)
         IN /\ range.thrown \in BOOLEAN
            /\ range.thrown <=> ~ReadableBlock(block)
            /\ \A peer \in Addresses :
                 ReadableBlock(block) => (RangeContains(range, peer) <=> Covers(block, peer))
<1> DEFINE range == ParseCIDRBlock(block)
<1>1. CASE ~ReadableBlock(block)
  <2>1. range = Thrown
    BY <1>1 DEF ParseCIDRBlock, IPRange, ReadableBlock
  <2> QED BY <1>1, <2>1 DEF Thrown
<1>2. CASE ReadableBlock(block)
  <2> DEFINE f == block.family
             size == MaskSize(block)
  <2>1. f \in Families /\ Width[f] \in Nat /\ size \in 0..Width[f] /\ block.number \in 0..(2^Width[f] - 1)
    BY <1>2, AddressAssumption DEF AddressAssumption, ReadableBlock, InFamily
  <2>2. range = [thrown |-> FALSE, family |-> f, mask |-> Mask(Width[f], size),
                 network |-> Bits(block.number, Width[f]) \cap Mask(Width[f], size)]
    BY <2>1 DEF ParseCIDRBlock, IPRange
  <2>3. ASSUME NEW peer \in Addresses
        PROVE  RangeContains(range, peer) <=> Covers(block, peer)
    <3>1. CASE peer.family # f
      BY <2>2, <3>1 DEF RangeContains, Covers
    <3>2. CASE peer.family = f
      <4>1. peer.number \in 0..(2^Width[f] - 1)
        BY <3>2 DEF Addresses
      <4>2. Bits(peer.number, Width[f]) \cap Mask(Width[f], size)
              = Bits(block.number, Width[f]) \cap Mask(Width[f], size)
              <=> Leading(peer.number, Width[f], size) = Leading(block.number, Width[f], size)
        BY <2>1, <4>1, MaskIsPrefix
      <4>3. RangeContains(range, peer)
              <=> Bits(peer.number, Width[f]) \cap Mask(Width[f], size)
                    = Bits(block.number, Width[f]) \cap Mask(Width[f], size)
        BY <2>2, <3>2 DEF RangeContains
      <4>4. Covers(block, peer)
              <=> Leading(block.number, Width[f], size) = Leading(peer.number, Width[f], size)
        BY <2>1, <3>2 DEF Covers
      <4> QED BY <4>2, <4>3, <4>4
    <3> QED BY <3>1, <3>2
  <2>4. range.thrown = FALSE
    BY <2>2
  <2>5. range.thrown \in BOOLEAN /\ (range.thrown <=> ~ReadableBlock(block))
    BY <1>2, <2>4
  <2> QED BY <2>3, <2>5, Zenon
<1> QED BY <1>1, <1>2

(* A range of all bits contains one address.                                *)
LEMMA OneAddress ==
  ASSUME NEW peer \in Addresses
  PROVE  RangeContains(IPRange(Loopback.family, Loopback.number, Width[Loopback.family]), peer)
           <=> peer = Loopback
<1> DEFINE f == Loopback.family
           w == Width[f]
<1>1. /\ f \in Families /\ w \in Nat /\ Loopback \in [family : {f}, number : 0..(2^w - 1)]
  BY AddressAssumption DEF AddressAssumption, Addresses
<1>2. IPRange(f, Loopback.number, w) =
        [thrown |-> FALSE, family |-> f, mask |-> Mask(w, w), network |-> Bits(Loopback.number, w) \cap Mask(w, w)]
  BY <1>1 DEF IPRange
<1>3. CASE peer.family # f
  BY <1>2, <1>3 DEF RangeContains
<1>4. CASE peer.family = f
  <2>1. peer \in [family : {f}, number : 0..(2^w - 1)]
    BY <1>4 DEF Addresses
  <2>2. Bits(peer.number, w) \cap Mask(w, w) = Bits(Loopback.number, w) \cap Mask(w, w)
          <=> Leading(peer.number, w, w) = Leading(Loopback.number, w, w)
    BY <1>1, <2>1, MaskIsPrefix
  <2>3. \A n \in 0..(2^w - 1) : Leading(n, w, w) = n
    <3>1. 2^(w - w) = 1
      <4>1. w - w = 0
        BY <1>1
      <4> QED BY <4>1, Power
    <3>2. \A n \in Nat : n \div 1 = n
      OBVIOUS
    <3> QED BY <1>1, <3>1, <3>2, Power DEF Leading
  <2>4. RangeContains(IPRange(f, Loopback.number, w), peer) <=> peer.number = Loopback.number
    <3>1. peer.number \in 0..(2^w - 1) /\ Loopback.number \in 0..(2^w - 1)
      BY <1>1, <2>1
    <3> QED BY <1>2, <1>4, <2>2, <2>3, <3>1 DEF RangeContains
  <2> QED BY <1>1, <2>1, <2>4
<1> QED BY <1>3, <1>4

(* For any list and any client.                                             *)
THEOREM ListSafe ==
  ASSUME NEW blocks, \A block \in ToSet(blocks) : InFamily(block), NEW peer \in Addresses
  PROVE  AdmitsTheListed(blocks, peer)
<1> DEFINE readable == {b \in ToSet(blocks) : \E p \in [family : Families, number : {b.number}] : Covers(b, p)}
           read == {r \in {ParseCIDRBlock(b) : b \in ToSet(blocks)} : ~r.thrown}
<1>1. \A b \in ToSet(blocks) : b \in readable <=> ReadableBlock(b)
  <2>1. ASSUME NEW b \in ToSet(blocks), ReadableBlock(b) PROVE b \in readable
    <3>1. [family |-> b.family, number |-> b.number] \in [family : Families, number : {b.number}]
      BY <2>1 DEF ReadableBlock
    <3>2. Covers(b, [family |-> b.family, number |-> b.number])
      BY <2>1 DEF ReadableBlock, Covers
    <3> QED BY <3>1, <3>2
  <2>2. ASSUME NEW b \in readable PROVE ReadableBlock(b)
    BY <2>2 DEF ReadableBlock, Covers
  <2> QED BY <2>1, <2>2
<1>2. \A b \in ToSet(blocks) : ParseCIDRBlock(b) \in read <=> b \in readable
  BY <1>1, RangeCovers
<1>3. \A b \in readable : RangeContains(ParseCIDRBlock(b), peer) <=> Covers(b, peer)
  BY <1>1, RangeCovers
<1>4. \A r \in read : \E b \in readable : r = ParseCIDRBlock(b)
  BY <1>2
<1>5. readable \subseteq ToSet(blocks)
  OBVIOUS
<1>6. Acl(blocks) = IF read = {} THEN {IPRange(Loopback.family, Loopback.number, Width[Loopback.family])} ELSE read
  BY DEF Acl
<1>7. AdmitsTheListed(blocks, peer) <=>
        (Admits(Acl(blocks), peer) <=>
           IF readable = {} THEN peer = Loopback ELSE \E b \in readable : Covers(b, peer))
  BY DEF AdmitsTheListed
<1> HIDE DEF readable, read
<1>8. CASE readable = {}
  <2>1. read = {}
    BY <1>4, <1>8
  <2> QED BY <1>6, <1>7, <1>8, <2>1, OneAddress DEF Admits
<1>9. CASE readable # {}
  <2>1. read # {} /\ Acl(blocks) = read
    BY <1>2, <1>5, <1>6, <1>9
  <2> QED BY <1>2, <1>3, <1>4, <1>5, <1>7, <1>9, <2>1 DEF Admits
<1> QED BY <1>8, <1>9

(* For any two numbers.                                                     *)
THEOREM PortSafe ==
  ASSUME NEW attribute \in Int, NEW environment \in Int
  PROVE  PortUsable(attribute, environment)
<1>1. USHRT_MAX \in Nat /\ USHRT_MAX > 1600
  BY SMT DEF USHRT_MAX
<1>2. ASSUME NEW i \in Int
      PROVE  UnsignedShort(i) \in 0..USHRT_MAX /\ (i \in 0..USHRT_MAX => UnsignedShort(i) = i)
  BY <1>1 DEF UnsignedShort
<1>3. UnsignedShort(attribute) \in 0..USHRT_MAX /\ UnsignedShort(environment) \in 0..USHRT_MAX
  BY <1>2
<1>4. Port(attribute, environment) \in 1..USHRT_MAX
  BY <1>1, <1>3 DEF Port
<1>5. attribute \in 1..USHRT_MAX => Port(attribute, environment) = attribute
  BY <1>1, <1>2 DEF Port
<1>6. attribute = 0 /\ environment \in 1..USHRT_MAX => Port(attribute, environment) = environment
  BY <1>1, <1>2 DEF Port
<1> QED BY <1>4, <1>5, <1>6 DEF PortUsable

-----------------------------------------------------------------------------
(* Property sets. *)

(* The sets of a chain that have a property.                                *)
Having(chain, name) == {i \in DOMAIN chain : name \in DOMAIN chain[i]}

(* The nearest set of a chain that has a property.                          *)
LEMMA HolderIs ==
  ASSUME NEW S, NEW chain \in Seq(S), NEW name
  PROVE  LET has == Having(chain, name)
         IN /\ has = {} => Holder(chain, name) = 0
            /\ has # {} => /\ Holder(chain, name) \in has
                          /\ \A i \in has : Holder(chain, name) <= i
                          /\ Holder(chain, name) # 0
<1> DEFINE has == Having(chain, name)
<1>1. DOMAIN chain = 1..Len(chain) /\ Len(chain) \in Nat
  BY LenProperties
<1>2. Holder(chain, name) = IF has # {} THEN Min(has) ELSE 0
  BY <1>1 DEF Having, Holder, SelectInSeq
<1>3. has \subseteq Nat /\ 0 \notin has
  BY <1>1 DEF Having
<1>4. IF has = {} THEN Holder(chain, name) = 0
      ELSE /\ Holder(chain, name) \in has
           /\ \A i \in has : Holder(chain, name) <= i
           /\ Holder(chain, name) # 0
  <2> HIDE DEF has
  <2> QED BY <1>2, <1>3, MinIs
<1> QED BY <1>4

(* All readers of a chain read the same text.                               *)
LEMMA TextIsSame ==
  ASSUME NEW chain, NEW name
  PROVE  SameText(chain, name)
<1>1. CASE Holder(chain, name) = 0
  BY <1>1, NumberAssumption
     DEF NumberAssumption, SameText, GetString, GetUnsignedInt, GetBool, GetInt, Found, NotFound
<1>2. CASE Holder(chain, name) # 0
  <2> DEFINE text == chain[Holder(chain, name)][name]
  <2>1. /\ GetString(chain, name) = Found(text)
        /\ GetBool(chain, name) = Found(text \in {"true", "1"})
        /\ GetInt(chain, name) = Found(IntOf[text])
    BY <1>2 DEF GetString, GetBool, GetInt
  <2>2. GetUnsignedInt(chain, name) = IF text \in DOMAIN UnsignedOf THEN Found(UnsignedOf[text]) ELSE NotFound(0)
    BY <2>1 DEF GetUnsignedInt, Found
  <2> HIDE DEF text
  <2>3. /\ GetString(chain, name).found /\ GetString(chain, name).value = text
        /\ GetBool(chain, name).found /\ GetBool(chain, name).value = (text \in {"true", "1"})
        /\ GetInt(chain, name).found /\ GetInt(chain, name).value = IntOf[text]
    BY <2>1 DEF Found
  <2>4. CASE text \in DOMAIN UnsignedOf
    <3>1. GetUnsignedInt(chain, name).found /\ GetUnsignedInt(chain, name).value = UnsignedOf[text]
      BY <2>2, <2>4 DEF Found
    <3> QED BY <2>1, <2>3, <2>4, <3>1, NumberAssumption DEF NumberAssumption, SameText, Found
  <2>5. CASE text \notin DOMAIN UnsignedOf
    <3>1. ~GetUnsignedInt(chain, name).found
      BY <2>2, <2>5 DEF NotFound
    <3> QED BY <2>1, <2>3, <2>5, <3>1 DEF SameText, Found
  <2> QED BY <2>4, <2>5
<1> QED BY <1>1, <1>2

(* getAll() asks the parent and puts its own on top: what comes out has     *)
(* every property of the chain, as the nearest set has it.                  *)
LEMMA AllIs ==
  ASSUME NEW S, NEW chain \in Seq(S)
  PROVE  /\ \A n : n \in DOMAIN GetAll(chain) <=> \E i \in DOMAIN chain : n \in DOMAIN chain[i]
         /\ \A n \in DOMAIN GetAll(chain) :
              GetAll(chain)[n] = chain[Min(Having(chain, n))][n]
<1> DEFINE D == DOMAIN chain
           N == Len(chain)
           in(u, n) == {i \in u : n \in DOMAIN chain[i]}
           names(u) == UNION {DOMAIN chain[i] : i \in u}
           nearest(u) == [n \in names(u) |-> chain[Min(in(u, n))][n]]
           IsFold(h) == h = [u \in SUBSET D |-> IF u = {} THEN <<>>
                                               ELSE Overwrite(h[u \ {Min(u)}], chain[Min(u)])]
           all == [u \in SUBSET D |-> IF u = {} THEN <<>> ELSE nearest(u)]
<1>1. D = 1..N /\ N \in Nat
  BY LenProperties
<1>2. GetAll(chain) = (CHOOSE h : IsFold(h))[D]
  BY DEF GetAll, FoldRight, MapThenFoldSet
<1>3. ASSUME NEW u \in SUBSET D, u # {}
      PROVE  /\ Min(u) \in u /\ u \ {Min(u)} \in SUBSET D
             /\ nearest(u) = Overwrite(all[u \ {Min(u)}], chain[Min(u)])
  <2> DEFINE m == Min(u)
             v == u \ {m}
  <2>1. u \subseteq Nat /\ m \in u /\ \A i \in u : m <= i
    BY <1>1, <1>3, MinIs
  <2>2. ASSUME NEW n \in DOMAIN chain[m] PROVE Min(in(u, n)) = m
    <3>1. m \in in(u, n) /\ in(u, n) \subseteq u
      BY <2>1, <2>2
    <3>2. Min(in(u, n)) \in u /\ Min(in(u, n)) <= m
      <4> HIDE DEF in
      <4> QED BY <2>1, <3>1, MinIs
    <3> HIDE DEF in, m
    <3> QED BY <2>1, <3>2
  <2>3. \A n : n \notin DOMAIN chain[m] => in(u, n) = in(v, n)
    OBVIOUS
  <2>4. DOMAIN all[v] = names(v) /\ \A n \in names(v) : all[v][n] = chain[Min(in(v, n))][n]
    <3>1. v \in SUBSET D
      OBVIOUS
    <3>2. CASE v = {}
      BY <3>1, <3>2
    <3>3. CASE v # {}
      <4>1. all[v] = nearest(v)
        BY <3>1, <3>3
      <4> HIDE DEF all, in, v
      <4> QED BY <4>1
    <3> QED BY <3>2, <3>3
  <2>5. names(u) = DOMAIN chain[m] \cup names(v)
    BY <2>1
  <2> HIDE DEF in, names, all, v, m
  <2>6. nearest(u) = [n \in DOMAIN chain[m] \cup DOMAIN all[v] |->
                        IF n \in DOMAIN chain[m] THEN chain[m][n] ELSE all[v][n]]
    BY <2>2, <2>3, <2>4, <2>5
  <2>7. nearest(u) = Overwrite(all[v], chain[m])
    BY <2>6 DEF Overwrite
  <2> QED BY <2>1, <2>7 DEF v, m
<1>4. IsFold(all)
  <2> HIDE DEF nearest
  <2> QED BY <1>3
<1>5. PICK h : h = (CHOOSE g : IsFold(g)) /\ IsFold(h)
  <2> HIDE DEF IsFold
  <2> QED BY <1>4
<1>6. ASSUME NEW u \in SUBSET D
      PROVE  h[u] = IF u = {} THEN <<>> ELSE Overwrite(h[u \ {Min(u)}], chain[Min(u)])
  BY <1>5
<1>7. ASSUME NEW u \in SUBSET D
      PROVE  all[u] = IF u = {} THEN <<>> ELSE Overwrite(all[u \ {Min(u)}], chain[Min(u)])
  BY <1>4
<1> HIDE DEF IsFold, all
<1>8. \A j \in 0..N : h[(N - j + 1)..N] = all[(N - j + 1)..N]
  <2> DEFINE T == {j \in 0..N : h[(N - j + 1)..N] # all[(N - j + 1)..N]}
  <2>1. ASSUME NEW j \in T, \A k \in T : j <= k PROVE FALSE
    <3> DEFINE u == (N - j + 1)..N
    <3>1. j \in 0..N /\ u \in SUBSET D /\ h[u] # all[u]
      BY <1>1
    <3>2. CASE j = 0
      <4>1. u = {}
        BY <1>1, <3>2
      <4> QED BY <1>6, <1>7, <3>1, <4>1
    <3>3. CASE j # 0
      <4> DEFINE k == j - 1
                 v == (N - k + 1)..N
      <4>1. k \in 0..N /\ k \notin T
        <5>1. k \in 0..N /\ ~(j <= k)
          BY <1>1, <3>1, <3>3
        <5> HIDE DEF T, k
        <5> QED BY <2>1, <5>1
      <4>2. h[v] = all[v]
        BY <4>1
      <4>3. N - j + 1 \in u /\ u \ {N - j + 1} = v
        BY <1>1, <3>1, <3>3
      <4>4. Min(u) = N - j + 1
        <5>1. u \subseteq Nat /\ \A i \in u : N - j + 1 <= i
          BY <1>1, <3>1
        <5>2. Min(u) \in u /\ Min(u) <= N - j + 1
          <6> HIDE DEF u
          <6>1. u # {}
            BY <4>3
          <6> QED BY <4>3, <5>1, <6>1, MinIs
        <5> QED BY <1>1, <3>1, <5>2
      <4>5. u # {}
        BY <4>3
      <4> HIDE DEF u, v, k
      <4> QED BY <1>6, <1>7, <3>1, <4>2, <4>3, <4>4, <4>5
    <3> QED BY <3>2, <3>3
  <2>2. T = {}
    <3>1. T \subseteq Nat
      OBVIOUS
    <3> HIDE DEF T
    <3> QED BY <2>1, <3>1, NatLeast
  <2> QED BY <2>2
<1>9. h[D] = all[D]
  <2>1. N \in 0..N /\ N - N + 1 = 1
    BY <1>1
  <2> QED BY <1>1, <1>8, <2>1
<1>10. all[D] = nearest(D)
  <2>1. CASE D = {}
    BY <2>1 DEF all
  <2>2. CASE D # {}
    BY <2>2 DEF all
  <2> QED BY <2>1, <2>2
<1>11. GetAll(chain) = nearest(D)
  BY <1>2, <1>5, <1>9, <1>10
<1> QED
  <2>1. \A n : n \in names(D) <=> \E i \in D : n \in DOMAIN chain[i]
    OBVIOUS
  <2>2. \A n : in(D, n) = Having(chain, n)
    BY DEF Having
  <2> HIDE DEF names, in
  <2> QED BY <1>11, <2>1, <2>2

(* For any elements, however many.                                          *)
THEOREM NearestSafe ==
  ASSUME NEW S, NEW elements \in Seq(S)
  PROVE  NearestCounts(elements)
<1> DEFINE Says(i, n) == IF n \in DOMAIN elements[i] THEN elements[i][n] \notin {Absent, ""} ELSE FALSE
           names == UNION {DOMAIN elements[i] : i \in DOMAIN elements}
           Given(n) == {i \in DOMAIN elements : Says(i, n)}
<1> PICK chain : chain = [i \in DOMAIN elements |-> Load(elements[i])]
  OBVIOUS
<1> DEFINE all == UNION {DOMAIN chain[i] : i \in DOMAIN chain}
           has(n) == Having(chain, n)
<1>1. /\ DOMAIN chain = DOMAIN elements
      /\ \A i \in DOMAIN elements :
           /\ DOMAIN chain[i] = {n \in DOMAIN elements[i] : elements[i][n] \notin {Absent, ""}}
           /\ \A n \in DOMAIN chain[i] : chain[i][n] = elements[i][n]
  BY DEF Load
<1> PICK Sets : chain \in Seq(Sets)
  <2>1. elements \in [1..Len(elements) -> S] /\ DOMAIN elements = 1..Len(elements) /\ Len(elements) \in Nat
    BY LenProperties
  <2>2. chain \in Seq({Load(e) : e \in S})
    BY <2>1, IsASeq
  <2> QED BY <2>2
<1>2. /\ \A n : n \in DOMAIN GetAll(chain) <=> n \in all
      /\ \A n \in all : GetAll(chain)[n] = chain[Min(has(n))][n]
  <2>1. \A n : n \in DOMAIN GetAll(chain) <=> n \in all
    BY AllIs
  <2>2. \A n \in DOMAIN GetAll(chain) : GetAll(chain)[n] = chain[Min(has(n))][n]
    BY AllIs
  <2> HIDE DEF all, has
  <2> QED BY <2>1, <2>2
<1>3. ASSUME NEW n PROVE has(n) = Given(n)
  <2>1. \A i \in DOMAIN elements : n \in DOMAIN chain[i] <=> Says(i, n)
    BY <1>1
  <2> HIDE DEF Says
  <2> QED BY <1>1, <2>1 DEF Having
<1>4. ASSUME NEW n
      PROVE  /\ has(n) = {} => Holder(chain, n) = 0
             /\ has(n) # {} => /\ Holder(chain, n) \in has(n)
                              /\ \A i \in has(n) : Holder(chain, n) <= i
                              /\ Holder(chain, n) # 0
  BY <1>1, HolderIs
<1>5. ASSUME NEW n PROVE has(n) \subseteq Nat
  <2>1. DOMAIN chain = 1..Len(chain) /\ Len(chain) \in Nat
    BY <1>1, LenProperties
  <2> QED BY <2>1 DEF Having
<1>6. all = {n \in names : Given(n) # {}}
  <2>1. \A n : n \in all <=> has(n) # {}
    BY DEF Having
  <2>2. \A n : Given(n) # {} => n \in names
    OBVIOUS
  <2> HIDE DEF all, has, names, Given
  <2> QED BY <1>3, <2>1, <2>2
<1>7. ASSUME NEW n \in names, NEW i \in Given(n), \A j \in Given(n) : i <= j
      PROVE  GetString(chain, n).value = elements[i][n] /\ GetAll(chain)[n] = elements[i][n]
  <2>1. i \in has(n) /\ has(n) # {} /\ \A j \in has(n) : i <= j
    BY <1>3, <1>7
  <2>2. chain[i][n] = elements[i][n] /\ n \in all
    <3>1. i \in DOMAIN chain /\ n \in DOMAIN chain[i]
      BY <2>1 DEF Having
    <3> QED BY <1>1, <3>1
  <2>3. Holder(chain, n) \in has(n) /\ Holder(chain, n) # 0 /\ Holder(chain, n) <= i
    BY <1>4, <2>1
  <2>4. Min(has(n)) \in has(n) /\ Min(has(n)) <= i
    BY <1>5, <2>1, MinIs
  <2> HIDE DEF has, all, names, Given
  <2>5. Holder(chain, n) = i /\ Min(has(n)) = i
    BY <1>5, <2>1, <2>3, <2>4
  <2> QED BY <1>2, <2>2, <2>3, <2>5 DEF GetString, Found
<1>8. ASSUME NEW n PROVE GetString(chain, n).found <=> Given(n) # {}
  <2> HIDE DEF has, Given
  <2> QED BY <1>3, <1>4 DEF GetString, Found, NotFound
<1>9. DOMAIN GetAll(chain) = {n \in names : Given(n) # {}}
  BY <1>2, <1>6
<1> QED
  <2>1. NearestCounts(elements) <=>
          /\ DOMAIN GetAll(chain) = {n \in names : Given(n) # {}}
          /\ \A n \in names :
               /\ GetString(chain, n).found <=> Given(n) # {}
               /\ \A i \in Given(n) :
                    (\A j \in Given(n) : i <= j) =>
                      GetString(chain, n).value = elements[i][n] /\ GetAll(chain)[n] = elements[i][n]
    BY DEF NearestCounts
  <2> HIDE DEF names, Given
  <2> QED BY <1>7, <1>8, <1>9, <2>1

(* For any elements, parameter and places to look in.                       *)
THEOREM OverrideSafe ==
  ASSUME NEW S, NEW elements \in Seq(S), NEW chain, chain = [i \in DOMAIN elements |-> Load(elements[i])],
         NEW name, NEW parameter, NEW from
  PROVE  RequestOverrides(chain, name, parameter, from)
<1> DEFINE text == HandlerString(chain, name, parameter, from)
           number == HandlerUnsignedInt(chain, name, parameter, from)
           bool == HandlerBool(chain, name, parameter, from)
           int == HandlerInt(chain, name, parameter, from)
<1>1. GetString(chain, name).found => GetString(chain, name).value # ""
  <2>1. \A i \in Having(chain, name) : chain[i][name] # ""
    BY DEF Having, Load
  <2>2. Holder(chain, name) # 0 => Holder(chain, name) \in Having(chain, name)
    <3>1. elements \in [1..Len(elements) -> S] /\ DOMAIN elements = 1..Len(elements) /\ Len(elements) \in Nat
      BY LenProperties
    <3>2. chain \in Seq({Load(e) : e \in S})
      BY <3>1, IsASeq
    <3> QED BY <3>2, HolderIs
  <2> QED BY <2>1, <2>2 DEF GetString, Found, NotFound
<1>2. SameText(chain, name)
  BY TextIsSame
<1>3. CASE Asked(parameter, from)
  <2>1. text = Found(parameter) /\ bool = Found(parameter \in BeginsTrue) /\ int = Found(IntOf[parameter])
    BY <1>3 DEF HandlerString, HandlerBool, HandlerInt
  <2>2. number = IF parameter \in DOMAIN UnsignedOf THEN Found(UnsignedOf[parameter]) ELSE NotFound(0)
    BY <1>3 DEF HandlerUnsignedInt
  <2>3. /\ text.found /\ text.value = parameter /\ bool.found /\ int.found /\ int.value = IntOf[parameter]
        /\ number.found <=> parameter \in DOMAIN UnsignedOf
        /\ number.found => number.value = UnsignedOf[parameter]
    <3> HIDE DEF text, number, bool, int
    <3> QED BY <2>1, <2>2 DEF Found, NotFound
  <2>4. "request" \in from /\ parameter # ""
    BY <1>3 DEF Asked
  <2>5. number.found /\ number.value <= INT_MAX => number.value = int.value
    <3> HIDE DEF text, number, bool, int
    <3> QED BY <2>3, NumberAssumption DEF NumberAssumption
  <2> QED BY <1>3, <2>3, <2>4, <2>5 DEF RequestOverrides
<1>4. CASE ~Asked(parameter, from) /\ "fixed" \in from
  <2>1. /\ text = GetString(chain, name) /\ number = GetUnsignedInt(chain, name)
        /\ bool = GetBool(chain, name) /\ int = GetInt(chain, name)
    BY <1>4 DEF HandlerString, HandlerBool, HandlerInt, HandlerUnsignedInt
  <2> HIDE DEF text, number, bool, int
  <2> QED BY <1>1, <1>2, <1>4, <2>1 DEF RequestOverrides, SameText, text, number, bool, int
<1>5. CASE ~Asked(parameter, from) /\ "fixed" \notin from
  <2>1. text.found = FALSE /\ number.found = FALSE /\ bool.found = FALSE /\ int.found = FALSE
    BY <1>5 DEF HandlerString, HandlerBool, HandlerInt, HandlerUnsignedInt, NotFound
  <2> QED BY <1>5, <2>1 DEF RequestOverrides
<1> QED BY <1>3, <1>4, <1>5

-----------------------------------------------------------------------------
(* Parameters. *)

(* How many of a set of numbers are below one of them: 0 for the least, and *)
(* one more for the next.                                                   *)
Below(T, e) == {f \in T : f < e}

LEMMA RankGrows ==
  ASSUME NEW T, T \subseteq Nat, IsFiniteSet(T), NEW e \in T
  PROVE  /\ IsFiniteSet(Below(T, e)) /\ Cardinality(Below(T, e)) \in Nat
         /\ Cardinality(Below(T, e)) < Cardinality(T)
         /\ \A n \in T : e < n => Cardinality(Below(T, e)) < Cardinality(Below(T, n))
         /\ (\A f \in T : e <= f) => Cardinality(Below(T, e)) = 0
         /\ \A n \in T : e < n /\ (\A f \in T : f <= e \/ n <= f) =>
              Cardinality(Below(T, n)) = Cardinality(Below(T, e)) + 1
         /\ (\A f \in T : f <= e) => Cardinality(T) = Cardinality(Below(T, e)) + 1
<1>1. \A n : Below(T, n) \subseteq T /\ IsFiniteSet(Below(T, n)) /\ Cardinality(Below(T, n)) \in Nat
  <2>1. \A n : Below(T, n) \subseteq T
    BY DEF Below
  <2> QED BY <2>1, FS_Subset, FS_CardinalityType
<1> DEFINE more == Below(T, e) \cup {e}
<1>8. \A f \in T : f \in Nat
  OBVIOUS
<1>2. IsFiniteSet(more) /\ Cardinality(more) = Cardinality(Below(T, e)) + 1
  <2>1. e \notin Below(T, e)
    BY DEF Below
  <2> QED BY <1>1, <2>1, FS_AddElement
<1>3. more \subseteq T /\ Cardinality(T) \in Nat /\ Cardinality(more) <= Cardinality(T)
  <2>1. more \subseteq T
    BY <1>1
  <2> QED BY <2>1, FS_Subset, FS_CardinalityType
<1>4. ASSUME NEW n \in T, e < n PROVE Cardinality(more) <= Cardinality(Below(T, n))
  <2>1. more \subseteq Below(T, n)
    <3>1. \A f \in T : f < e => f < n
      BY <1>4, <1>8
    <3> QED BY <1>4, <3>1 DEF Below
  <2> QED BY <1>1, <2>1, FS_Subset
<1>5. ASSUME \A f \in T : e <= f PROVE Cardinality(Below(T, e)) = 0
  <2>1. Below(T, e) = {}
    <3>1. \A f \in T : ~(f < e)
      BY <1>5, <1>8
    <3> QED BY <3>1 DEF Below
  <2> QED BY <2>1, FS_EmptySet
<1>6. ASSUME NEW n \in T, e < n, \A f \in T : f <= e \/ n <= f PROVE Below(T, n) = more
  <2>1. \A f \in T : f < n <=> f < e \/ f = e
    BY <1>6, <1>8
  <2> QED BY <2>1 DEF Below
<1>7. ASSUME \A f \in T : f <= e PROVE T = more
  <2>1. \A f \in T : f < e \/ f = e
    BY <1>7, <1>8
  <2> QED BY <2>1 DEF Below
<1> HIDE DEF more
<1> QED BY <1>1, <1>2, <1>3, <1>4, <1>5, <1>6, <1>7

(* So every number below the size of the set is the rank of one, which      *)
(* CHOOSE finds.                                                            *)
LEMMA RankExists ==
  ASSUME NEW T, T \subseteq Nat, IsFiniteSet(T), NEW k \in 1..Cardinality(T)
  PROVE  \E e \in T : Cardinality(Below(T, e)) = k - 1
<1> DEFINE Bad == {j \in 1..Cardinality(T) : ~ \E e \in T : Cardinality(Below(T, e)) = j - 1}
<1>1. Cardinality(T) \in Nat
  BY FS_CardinalityType
<1>4. \A j \in Bad : j \in Nat /\ \A e \in T : Cardinality(Below(T, e)) # j - 1
  BY <1>1
<1>2. ASSUME NEW j \in Bad, \A i \in Bad : j <= i PROVE FALSE
  <2>1. CASE j = 1
    <3>1. T # {}
      BY <1>1, FS_EmptySet
    <3>2. Min(T) \in T /\ \A f \in T : Min(T) <= f
      BY <3>1, MinIs
    <3>3. Cardinality(Below(T, Min(T))) = 0
      BY <3>2, RankGrows
    <3>4. j - 1 = 0
      BY <2>1
    <3> QED BY <1>4, <3>2, <3>3, <3>4
  <2>2. CASE j # 1
    <3>1. j - 1 \in 1..Cardinality(T) /\ j - 1 \notin Bad
      <4>1. j - 1 \in 1..Cardinality(T) /\ ~(j <= j - 1)
        BY <1>1, <2>2
      <4> HIDE DEF Bad
      <4> QED BY <1>2, <4>1
    <3>2. PICK e \in T : Cardinality(Below(T, e)) = j - 2
      <4>1. j - 1 - 1 = j - 2
        BY <1>1
      <4> QED BY <3>1, <4>1
    <3> DEFINE above == {f \in T : e < f}
    <3>3. above # {}
      <4>1. SUFFICES ASSUME above = {} PROVE FALSE
        OBVIOUS
      <4>2. \A f \in T : f <= e
        BY <4>1
      <4>3. Cardinality(T) = Cardinality(Below(T, e)) + 1
        BY <4>2, RankGrows
      <4> QED BY <1>1, <3>2, <4>3
    <3>4. Min(above) \in above /\ \A f \in above : Min(above) <= f
      <4>1. above \subseteq Nat
        OBVIOUS
      <4> HIDE DEF above
      <4> QED BY <3>3, <4>1, MinIs
    <3>5. \A f \in T : f <= e \/ Min(above) <= f
      BY <3>4
    <3>6. Min(above) \in T /\ e < Min(above)
      BY <3>4
    <3> HIDE DEF above
    <3>7. Cardinality(Below(T, Min(above))) = Cardinality(Below(T, e)) + 1
      BY <3>5, <3>6, RankGrows
    <3>8. j - 2 + 1 = j - 1
      BY <1>1
    <3> QED BY <1>4, <3>2, <3>6, <3>7, <3>8
  <2> QED BY <2>1, <2>2
<1>3. Bad = {}
  <2>1. Bad \subseteq Nat
    BY <1>1
  <2> HIDE DEF Bad
  <2> QED BY <1>2, <2>1, NatLeast
<1> QED BY <1>3

-----------------------------------------------------------------------------
(* Where the parts of a text end, one after the other: the first before all *)
(* others, nothing between two, nothing behind the last.                    *)
LEMMA EndsAre ==
  ASSUME NEW S, NEW text \in Seq(S)
  PROVE  /\ Ends(text) \subseteq 1..(Len(text) + 1)
         /\ IsFiniteSet(Ends(text)) /\ Cardinality(Ends(text)) \in Nat
         /\ \A k \in 1..Cardinality(Ends(text)) :
              /\ EndOf(text, k) \in Ends(text)
              /\ k = 1 => \A e \in Ends(text) : EndOf(text, k) <= e
              /\ k = Cardinality(Ends(text)) => \A e \in Ends(text) : e <= EndOf(text, k)
              /\ k > 1 => /\ EndOf(text, k - 1) < EndOf(text, k)
                          /\ \A e \in Ends(text) : e <= EndOf(text, k - 1) \/ EndOf(text, k) <= e
<1> DEFINE T == Ends(text)
           m == Cardinality(T)
           Rank(e) == Cardinality(Below(T, e))
<1>1. T \subseteq 1..(Len(text) + 1) /\ Len(text) \in Nat
  BY LenProperties DEF Ends
<1>2. IsFiniteSet(T) /\ m \in Nat /\ T \subseteq Nat
  <2>1. IsFiniteSet(1..(Len(text) + 1))
    BY <1>1, FS_Interval
  <2> QED BY <1>1, <2>1, FS_Subset, FS_CardinalityType
<1>3. ASSUME NEW k \in 1..m PROVE EndOf(text, k) \in T /\ Rank(EndOf(text, k)) = k - 1
  <2>1. EndOf(text, k) = CHOOSE e \in T : Rank(e) = k - 1
    BY DEF EndOf, Below
  <2>2. \E e \in T : Rank(e) = k - 1
    BY <1>2, RankExists
  <2> HIDE DEF T, Rank
  <2> QED BY <2>1, <2>2
<1>4. ASSUME NEW e \in T, NEW n \in T
      PROVE  /\ Rank(e) \in 0..(m - 1) /\ e \in Nat /\ n \in Nat
             /\ e < n => Rank(e) < Rank(n)
             /\ Rank(e) = Rank(n) => e = n
             /\ Rank(e) < Rank(n) => e < n
  <2>1. Rank(e) \in 0..(m - 1) /\ e \in Nat /\ n \in Nat /\ Rank(n) \in Nat
    BY <1>2, RankGrows
  <2>2. (e < n => Rank(e) < Rank(n)) /\ (n < e => Rank(n) < Rank(e))
    BY <1>2, RankGrows
  <2> HIDE DEF T, Rank, m
  <2> QED BY <1>2, <2>1, <2>2
<1> HIDE DEF T, Rank, m
<1>8. \A e \in T : e \in Nat
  BY <1>2
<1>5. ASSUME NEW k \in 1..m, k = 1, NEW e \in T PROVE EndOf(text, k) <= e
  <2>1. Rank(EndOf(text, k)) = 0 /\ EndOf(text, k) \in T
    BY <1>3, <1>5
  <2>2. ~(e < EndOf(text, k))
    <3>1. Rank(e) >= 0
      BY <1>2, <1>4
    <3> QED BY <1>4, <2>1, <3>1
  <2> QED BY <1>8, <2>1, <2>2
<1>6. ASSUME NEW k \in 1..m, k = m, NEW e \in T PROVE e <= EndOf(text, k)
  <2>1. Rank(EndOf(text, k)) = m - 1 /\ EndOf(text, k) \in T
    BY <1>3, <1>6
  <2>2. ~(EndOf(text, k) < e)
    <3>1. Rank(e) <= m - 1 /\ Rank(e) \in Int
      BY <1>2, <1>4
    <3>2. EndOf(text, k) < e => m - 1 < Rank(e)
      BY <1>4, <2>1
    <3> QED BY <1>2, <3>1, <3>2
  <2> QED BY <1>8, <2>1, <2>2
<1>7. ASSUME NEW k \in 1..m, k > 1
      PROVE  /\ EndOf(text, k - 1) < EndOf(text, k)
             /\ \A e \in T : e <= EndOf(text, k - 1) \/ EndOf(text, k) <= e
  <2> DEFINE a == EndOf(text, k - 1)
             b == EndOf(text, k)
  <2>1. /\ a \in T /\ Rank(a) = k - 2 /\ b \in T /\ Rank(b) = k - 1
    <3>1. k - 1 \in 1..m /\ k - 1 - 1 = k - 2
      BY <1>2, <1>7
    <3> QED BY <1>3, <3>1
  <2> HIDE DEF a, b
  <2>2. a < b
    BY <1>2, <1>4, <2>1
  <2>3. \A e \in T : ~(a < e /\ e < b)
    <3>1. ASSUME NEW e \in T, a < e, e < b PROVE FALSE
      <4>1. Rank(a) < Rank(e) /\ Rank(e) < Rank(b) /\ Rank(e) \in Int
        BY <1>2, <1>4, <2>1, <3>1
      <4> QED BY <2>1, <4>1
    <3> QED BY <3>1
  <2> QED BY <1>8, <2>1, <2>2, <2>3 DEF a, b
<1> QED BY <1>1, <1>2, <1>3, <1>5, <1>6, <1>7 DEF T, m

-----------------------------------------------------------------------------
(* The words from every position on are what the parser's loop makes them:  *)
(* there is such a function, for it is defined from the end of the text.    *)
LEMMA WordsAre ==
  ASSUME NEW S, NEW text \in Seq(S)
  PROVE  \E from \in [1..(Len(text) + 1) -> Seq(Seq(S))] :
           /\ Words(text) = from[1] /\ from[Len(text) + 1] = <<>>
           /\ \A i \in 1..Len(text) :
                /\ End(text, i) \in i..Len(text)
                /\ from[i] = <<Word(text, i)>> \o from[End(text, i) + 1]
<1> DEFINE N == Len(text)
           I == 1..(N + 1)
           Loop(f) == f = [i \in I |-> IF i > N THEN <<>> ELSE <<Word(text, i)>> \o f[End(text, i) + 1]]
           Right(f, j) == \A i \in j..(N + 1) :
                            f[i] = IF i > N THEN <<>> ELSE <<Word(text, i)>> \o f[End(text, i) + 1]
           F == [I -> Seq(Seq(S))]
<1>1. N \in Nat /\ text \in [1..N -> S]
  BY LenProperties
<1>2. ASSUME NEW i \in 1..N
      PROVE  End(text, i) \in i..N /\ Word(text, i) \in Seq(S)
  <2> DEFINE T == {N} \cup {j \in i..N : text[j] \in {"&", Byte255}}
  <2>1. T \subseteq Nat /\ N \in T /\ T \subseteq i..N
    BY <1>1
  <2>2. End(text, i) = Min(T)
    BY DEF End
  <2> HIDE DEF T
  <2>3. End(text, i) \in i..N
    BY <2>1, <2>2, MinIs
  <2>4. \A e \in (i - 1)..N : SubSeq(text, i, e) \in Seq(S)
    <3>1. ASSUME NEW e \in (i - 1)..N PROVE SubSeq(text, i, e) \in Seq(S)
      <4>1. i \in Int /\ e \in Int /\ \A j \in i..e : text[j] \in S
        BY <1>1
      <4> QED BY <4>1, SubSeqProperties, Zenon
    <3> QED BY <3>1
  <2>5. End(text, i) \in (i - 1)..N /\ End(text, i) - 1 \in (i - 1)..N
    BY <1>1, <2>3
  <2> QED BY <2>3, <2>4, <2>5 DEF Word
<1>3. \A k \in 0..N : \E f \in F : Right(f, N + 1 - k)
  <2> DEFINE Bad == {k \in 0..N : ~ \E f \in F : Right(f, N + 1 - k)}
  <2>1. ASSUME NEW k \in Bad, \A j \in Bad : k <= j PROVE FALSE
    <3>1. k \in 0..N /\ ~ \E f \in F : Right(f, N + 1 - k)
      OBVIOUS
    <3>2. CASE k = 0
      <4> DEFINE f == [i \in I |-> <<>>]
      <4>1. f \in F
        OBVIOUS
      <4>2. Right(f, N + 1 - 0)
        BY <1>1
      <4> HIDE DEF f, F, Right
      <4> QED BY <3>1, <3>2, <4>1, <4>2
    <3>3. CASE k # 0
      <4>0. PICK i \in 1..N : i = N + 1 - k
        BY <1>1, <3>3
      <4>1. k - 1 \in 0..N /\ ~(k <= k - 1) /\ i + 1 = N + 1 - (k - 1)
        BY <1>1, <3>3, <4>0
      <4>2. PICK f \in F : Right(f, i + 1)
        <5>1. k - 1 \notin Bad
          <6> HIDE DEF Bad
          <6> QED BY <2>1, <4>1
        <5> HIDE DEF F, Right
        <5> QED BY <4>1, <5>1
      <4> DEFINE g == [f EXCEPT ![i] = <<Word(text, i)>> \o f[End(text, i) + 1]]
      <4>3. End(text, i) + 1 \in (i + 1)..(N + 1) /\ End(text, i) + 1 \in I
        <5>1. End(text, i) \in i..N
          BY <1>2
        <5> QED BY <1>1, <5>1
      <4>4. g \in F
        <5>1. f[End(text, i) + 1] \in Seq(Seq(S)) /\ <<Word(text, i)>> \in Seq(Seq(S))
          BY <1>2, <4>1, <4>3
        <5>2. <<Word(text, i)>> \o f[End(text, i) + 1] \in Seq(Seq(S))
          BY <5>1, ConcatProperties
        <5> QED BY <5>2
      <4>5. Right(g, i)
        <5> SUFFICES ASSUME NEW j \in i..(N + 1)
                     PROVE  g[j] = IF j > N THEN <<>> ELSE <<Word(text, j)>> \o g[End(text, j) + 1]
          OBVIOUS
        <5>1. CASE j = i
          <6>1. g[i] = <<Word(text, i)>> \o f[End(text, i) + 1] /\ ~(i > N)
            BY <1>1, <4>1
          <6>2. g[End(text, i) + 1] = f[End(text, i) + 1]
            BY <1>1, <4>1, <4>3
          <6> HIDE DEF g
          <6> QED BY <5>1, <6>1, <6>2
        <5>2. CASE j # i
          <6>1. j \in (i + 1)..(N + 1) /\ j \in I
            BY <1>1, <4>1, <5>2
          <6>2. g[j] = f[j]
            BY <5>2, <6>1
          <6>3. j <= N => g[End(text, j) + 1] = f[End(text, j) + 1]
            <7>1. j <= N => End(text, j) + 1 \in I /\ End(text, j) + 1 # i
              <8> SUFFICES ASSUME j <= N PROVE End(text, j) + 1 \in I /\ End(text, j) + 1 # i
                OBVIOUS
              <8>1. j \in 1..N
                BY <1>1, <6>1
              <8>2. End(text, j) \in j..N
                BY <1>2, <8>1
              <8> QED BY <1>1, <6>1, <8>1, <8>2
            <7> QED BY <7>1
          <6>4. j > N \/ j <= N
            BY <1>1, <6>1
          <6> HIDE DEF g
          <6> QED BY <4>2, <6>1, <6>2, <6>3, <6>4
        <5> QED BY <5>1, <5>2
      <4> HIDE DEF g, F, Right
      <4> QED BY <3>1, <4>0, <4>4, <4>5
    <3> HIDE DEF Right, F
    <3> QED BY <3>2, <3>3
  <2>2. Bad = {}
    <3>1. Bad \subseteq Nat
      OBVIOUS
    <3> HIDE DEF Bad
    <3> QED BY <2>1, <3>1, NatLeast
  <2> HIDE DEF F, Right
  <2> QED BY <2>2
<1>4. PICK f \in F : Loop(f)
  <2>1. PICK f \in F : Right(f, 1)
    <3>1. N \in 0..N /\ N + 1 - N = 1
      BY <1>1
    <3> HIDE DEF F, Right
    <3> QED BY <1>3, <3>1
  <2>2. Loop(f)
    BY <2>1
  <2> QED BY <2>2
<1>5. PICK g : Words(text) = g[1] /\ Loop(g)
  <2>1. Words(text) = (CHOOSE h : Loop(h))[1]
    BY DEF Words
  <2> HIDE DEF Loop
  <2> QED BY <1>4, <2>1
<1>6. g \in F
  <2> DEFINE Bad == {k \in 0..N : g[N + 1 - k] \notin Seq(Seq(S))}
  <2>1. ASSUME NEW k \in Bad, \A j \in Bad : k <= j PROVE FALSE
    <3>1. PICK i \in I : i = N + 1 - k /\ k \in 0..N
      BY <1>1
    <3>2. g[i] \notin Seq(Seq(S)) /\ g[i] = IF i > N THEN <<>> ELSE <<Word(text, i)>> \o g[End(text, i) + 1]
      BY <1>5, <3>1
    <3>3. CASE i > N
      BY <3>2, <3>3
    <3>4. CASE i <= N
      <4>1. i \in 1..N /\ End(text, i) \in i..N /\ Word(text, i) \in Seq(S)
        BY <1>1, <1>2, <3>1, <3>4
      <4>2. PICK j \in 0..N : N + 1 - j = End(text, i) + 1 /\ ~(k <= j)
        <5>1. N - End(text, i) \in 0..N
          BY <1>1, <4>1
        <5> QED BY <1>1, <3>1, <4>1, <5>1
      <4>3. g[End(text, i) + 1] \in Seq(Seq(S))
        <5>1. j \notin Bad
          <6> HIDE DEF Bad
          <6> QED BY <2>1, <4>2
        <5> QED BY <4>2, <5>1
      <4>4. <<Word(text, i)>> \o g[End(text, i) + 1] \in Seq(Seq(S))
        <5>1. <<Word(text, i)>> \in Seq(Seq(S))
          BY <4>1
        <5> QED BY <4>3, <5>1, ConcatProperties
      <4>5. ~(i > N)
        BY <1>1, <4>1
      <4> QED BY <3>2, <4>4, <4>5
    <3>5. i > N \/ i <= N
      BY <1>1, <3>1
    <3> QED BY <3>3, <3>4, <3>5
  <2>2. Bad = {}
    <3>1. Bad \subseteq Nat
      OBVIOUS
    <3> HIDE DEF Bad
    <3> QED BY <2>1, <3>1, NatLeast
  <2>3. \A i \in I : N + 1 - i \in 0..N /\ N + 1 - (N + 1 - i) = i
    BY <1>1
  <2>4. \A i \in I : g[i] \in Seq(Seq(S))
    BY <2>2, <2>3
  <2>5. DOMAIN g = I /\ g = [i \in I |-> g[i]]
    BY <1>5
  <2> HIDE DEF I
  <2> QED BY <2>4, <2>5
<1> QED
  <2>1. \A i \in 1..N : i \in I /\ ~(i > N)
    BY <1>1
  <2>2. N + 1 \in 1..(N + 1) /\ N + 1 > N
    BY <1>1
  <2> QED BY <1>2, <1>5, <1>6, <2>1, <2>2

(* Where the parts of a text begin, and behind the last one the text's end. *)
StartOf(text, k) ==
  IF k = Cardinality(Ends(text)) + 1 THEN Len(text) + 1
  ELSE IF k = 1 THEN 1 ELSE EndOf(text, k - 1) + 1

(* A part has no '&', and one is in front of it if it is not the first.     *)
LEMMA PartsAre ==
  ASSUME NEW S, NEW text \in Seq(S)
  PROVE  /\ \A e \in 1..Len(text) : e \in Ends(text) <=> text[e] = "&"
         /\ Len(text) + 1 \in Ends(text) <=> Len(text) > 0 /\ text[Len(text)] # "&"
         /\ Ends(text) \subseteq 1..(Len(text) + 1)
         /\ \A k \in 1..Cardinality(Ends(text)) :
              /\ EndOf(text, k) \in Ends(text)
              /\ StartOf(text, k) \in 1..Len(text) /\ StartOf(text, k) <= EndOf(text, k)
              /\ \A e \in Ends(text) : e < StartOf(text, k) \/ EndOf(text, k) <= e
              /\ k = Cardinality(Ends(text)) => \A e \in Ends(text) : e <= EndOf(text, k)
              /\ Part(text, k) = SubSeq(text, StartOf(text, k), EndOf(text, k) - 1)
              /\ k > 1 => text[StartOf(text, k) - 1] = "&"
<1> DEFINE N == Len(text)
           m == Cardinality(Ends(text))
           Start(k) == IF k = m + 1 THEN N + 1 ELSE IF k = 1 THEN 1 ELSE EndOf(text, k - 1) + 1
<1>1. N \in Nat /\ text \in [1..N -> S] /\ DOMAIN text = 1..N /\ m \in Nat
  BY LenProperties, EndsAre
<1>2. \A k : Start(k) = StartOf(text, k)
  BY DEF StartOf
<1>3. /\ \A e \in 1..N : e \in Ends(text) <=> text[e] = "&"
      /\ N + 1 \in Ends(text) <=> N > 0 /\ text[N] # "&"
      /\ Ends(text) \subseteq 1..(N + 1)
  <2>1. \A e : e \in Ends(text) <=>
                 (e \in 1..N /\ text[e] = "&") \/ (e = N + 1 /\ N > 0 /\ text[N] # "&")
    <3>1. (text = <<>> <=> N = 0) /\ Last(text) = text[N]
      BY <1>1 DEF Last
    <3>2. Ends(text) = {i \in 1..N : text[i] = "&"} \cup (IF N = 0 \/ text[N] = "&" THEN {} ELSE {N + 1})
      BY <1>1, <3>1 DEF Ends
    <3> HIDE DEF m, N
    <3>3. N = 0 \/ (N # 0 /\ N > 0)
      BY <1>1
    <3>4. CASE N = 0
      BY <3>2, <3>4
    <3>5. CASE N > 0 /\ N # 0 /\ text[N] = "&"
      BY <3>2, <3>5
    <3>6. CASE N > 0 /\ N # 0 /\ text[N] # "&"
      BY <3>2, <3>6
    <3> QED BY <3>3, <3>4, <3>5, <3>6
  <2>2. \A e \in 1..N : e # N + 1 /\ e \in 1..(N + 1)
    BY <1>1
  <2>3. N + 1 \notin 1..N /\ N + 1 \in 1..(N + 1)
    BY <1>1
  <2> HIDE DEF m, N
  <2>4. \A e \in 1..N : e \in Ends(text) <=> text[e] = "&"
    BY <2>1, <2>2
  <2>5. N + 1 \in Ends(text) <=> N > 0 /\ text[N] # "&"
    BY <2>1, <2>3
  <2>6. Ends(text) \subseteq 1..(N + 1)
    BY <2>1, <2>2, <2>3
  <2> QED BY <2>4, <2>5, <2>6
<1>4. ASSUME NEW k \in 1..m
      PROVE  /\ EndOf(text, k) \in Ends(text) /\ Start(k) \in 1..N /\ Start(k) <= EndOf(text, k)
             /\ \A e \in Ends(text) : e < Start(k) \/ EndOf(text, k) <= e
             /\ k = m => \A e \in Ends(text) : e <= EndOf(text, k)
             /\ k > 1 => text[Start(k) - 1] = "&"
  <2>1. /\ EndOf(text, k) \in Ends(text)
        /\ k = m => \A e \in Ends(text) : e <= EndOf(text, k)
    BY EndsAre
  <2>2. CASE k = 1
    <3>1. Start(k) = 1
      BY <1>1, <2>2
    <3>2. \A e \in Ends(text) : EndOf(text, k) <= e
      BY <2>2, EndsAre
    <3>3. 1 <= EndOf(text, k) /\ N > 0
      BY <1>1, <1>3, <2>1
    <3>4. ~(k > 1)
      BY <2>2
    <3> QED BY <1>1, <2>1, <3>1, <3>2, <3>3, <3>4
  <2>3. CASE k # 1
    <3> DEFINE a == EndOf(text, k - 1)
               b == EndOf(text, k)
    <3>1. Start(k) = a + 1
      BY <1>1, <2>3
    <3>2. a < b /\ \A e \in Ends(text) : e <= a \/ b <= e
      BY <1>1, <2>3, EndsAre
    <3>3. a \in Ends(text)
      <4>1. k - 1 \in 1..m
        BY <1>1, <2>3
      <4> QED BY <4>1, EndsAre
    <3> HIDE DEF a, b, m, Start
    <3>4. a \in 1..N /\ text[a] = "&" /\ b \in 1..(N + 1)
      BY <1>1, <1>3, <2>1, <3>2, <3>3 DEF b
    <3>5. a # N
      <4>1. b \in Ends(text) /\ (b \in 1..N \/ b = N + 1)
        BY <1>1, <2>1, <3>4 DEF b
      <4>2. a = N => b = N + 1 /\ text[N] = "&"
        BY <1>1, <3>2, <3>4, <4>1
      <4> QED BY <1>3, <4>1, <4>2
    <3>6. Start(k) \in 1..N /\ Start(k) <= b
      <4>1. a + 1 \in 1..N /\ a + 1 <= b
        <5>1. a < b /\ a \in Nat /\ b \in Nat /\ a >= 1 /\ a <= N
          BY <3>2, <3>4
        <5> HIDE DEF N
        <5> QED BY <1>1, <3>5, <5>1
      <4> QED BY <3>1, <4>1
    <3>7. \A e \in Ends(text) : e < Start(k) \/ b <= e
      BY <1>1, <1>3, <3>1, <3>2, <3>4
    <3>8. text[Start(k) - 1] = "&"
      <4>1. a + 1 - 1 = a
        BY <3>4
      <4> QED BY <3>1, <3>4, <4>1
    <3> QED BY <2>1, <3>6, <3>7, <3>8 DEF b
  <2> QED BY <2>2, <2>3
<1>5. ASSUME NEW k \in 1..m
      PROVE  Part(text, k) = SubSeq(text, Start(k), EndOf(text, k) - 1)
  <2>1. Start(k) = IF k = 1 THEN 1 ELSE EndOf(text, k - 1) + 1
    BY <1>1
  <2> QED BY <2>1 DEF Part
<1> HIDE DEF Start
<1> QED BY <1>2, <1>3, <1>4, <1>5

(* Where no character is taken for EOF, the words are the parts.            *)
LEMMA WordsAreParts ==
  ASSUME NEW S, NEW text \in Seq(S), \A i \in DOMAIN text : text[i] # Byte255
  PROVE  /\ DOMAIN Words(text) = 1..Cardinality(Ends(text))
         /\ \A k \in 1..Cardinality(Ends(text)) : Words(text)[k] = Part(text, k)
<1> DEFINE N == Len(text)
           m == Cardinality(Ends(text))
           Start(k) == StartOf(text, k)
<1>1. N \in Nat /\ text \in [1..N -> S] /\ DOMAIN text = 1..N /\ m \in Nat
  BY LenProperties, EndsAre
<1>2. PICK from \in [1..(N + 1) -> Seq(Seq(S))] :
        /\ Words(text) = from[1] /\ from[N + 1] = <<>>
        /\ \A i \in 1..N :
             End(text, i) \in i..N /\ from[i] = <<Word(text, i)>> \o from[End(text, i) + 1]
  BY WordsAre
<1>3. /\ \A e \in 1..N : e \in Ends(text) <=> text[e] = "&"
      /\ N + 1 \in Ends(text) <=> N > 0 /\ text[N] # "&"
      /\ Ends(text) \subseteq 1..(N + 1)
  BY PartsAre
<1>4. ASSUME NEW k \in 1..m
      PROVE  /\ EndOf(text, k) \in Ends(text) /\ Start(k) \in 1..N /\ Start(k) <= EndOf(text, k)
             /\ \A e \in Ends(text) : e < Start(k) \/ EndOf(text, k) <= e
             /\ k = m => \A e \in Ends(text) : e <= EndOf(text, k)
             /\ Part(text, k) = SubSeq(text, Start(k), EndOf(text, k) - 1)
  BY PartsAre
<1>5. ASSUME NEW k \in 1..m
      PROVE  Word(text, Start(k)) = Part(text, k) /\ End(text, Start(k)) + 1 = Start(k + 1)
  <2> DEFINE i == Start(k)
             b == EndOf(text, k)
             T == {N} \cup {j \in i..N : text[j] \in {"&", Byte255}}
  <2>1. i \in 1..N /\ b \in 1..(N + 1) /\ i <= b /\ b \in Ends(text)
    BY <1>3, <1>4
  <2>2. \A j \in i..N : text[j] \in {"&", Byte255} <=> j \in Ends(text)
    <3>1. \A j \in i..N : j \in 1..N /\ j \in DOMAIN text
      BY <1>1, <2>1
    <3> HIDE DEF i
    <3> QED BY <1>3, <3>1
  <2>3. Part(text, k) = SubSeq(text, i, b - 1)
    BY <1>4
  <2>4. k = m \/ k + 1 \in 2..m
    BY <1>1
  <2>5. End(text, i) = Min(T)
    BY DEF End
  <2>6. T \subseteq Nat /\ N \in T /\ T \subseteq i..N
    BY <1>1, <2>1
  <2>7. CASE b <= N
    <3>1. text[b] = "&" /\ b \in T
      BY <1>1, <1>3, <2>1, <2>7
    <3>2. \A j \in T : b <= j
      <4>1. \A j \in i..N : j \in Ends(text) => b <= j
        BY <1>1, <1>4, <2>1
      <4> QED BY <1>1, <2>2, <2>7, <4>1
    <3>3. Min(T) = b
      <4> HIDE DEF T, b
      <4>1. Min(T) \in T /\ Min(T) <= b
        BY <2>6, <3>1, MinIs
      <4>2. Min(T) \in Nat /\ b \in Nat /\ b <= Min(T)
        <5>1. b \in Nat
          BY <2>1
        <5> QED BY <2>6, <3>2, <4>1, <5>1
      <4> HIDE DEF N
      <4> QED BY <4>1, <4>2
    <3>4. Word(text, i) = SubSeq(text, i, b - 1)
      <4> HIDE DEF T, b, i
      <4> QED BY <2>5, <3>1, <3>3 DEF Word
    <3>5. b + 1 = Start(k + 1)
      <4>1. CASE k = m
        <5>1. b = N
          <6>1. N + 1 \notin Ends(text)
            BY <1>1, <1>4, <2>1, <2>7, <4>1
          <6>2. text[N] = "&" /\ N \in Ends(text)
            BY <1>1, <1>3, <2>1, <6>1
          <6>3. N <= b
            BY <1>4, <4>1, <6>2
          <6> QED BY <1>1, <2>1, <2>7, <6>3
        <5> QED BY <4>1, <5>1 DEF StartOf
      <4>2. CASE k + 1 \in 2..m
        BY <1>1, <4>2 DEF StartOf
      <4> QED BY <2>4, <4>1, <4>2
    <3> HIDE DEF i, b, T, Start
    <3> QED BY <2>3, <2>5, <3>3, <3>4, <3>5 DEF i
  <2>8. CASE b = N + 1
    <3>1. N > 0 /\ text[N] # "&"
      BY <1>3, <2>1, <2>8
    <3>2. T = {N}
      <4>1. \A j \in i..N : j \notin Ends(text)
        <5>1. \A e \in Ends(text) : e < i \/ b <= e
          BY <1>4
        <5> HIDE DEF i, b, N
        <5> QED BY <1>1, <2>1, <2>8, <5>1
      <4> QED BY <2>2, <4>1
    <3>3. Min(T) = N
      <4> HIDE DEF T
      <4> QED BY <2>6, <3>2, MinIs
    <3>4. Word(text, i) = SubSeq(text, i, b - 1)
      <4>1. b - 1 = N
        BY <1>1, <2>8
      <4> QED BY <2>5, <3>1, <3>3, <4>1 DEF Word
    <3>5. k = m
      <4>1. CASE k + 1 \in 2..m
        <5>1. Start(k + 1) = b + 1 /\ Start(k + 1) \in 1..N
          <6>1. k + 1 \in 1..m
            BY <1>1, <4>1
          <6>2. Start(k + 1) \in 1..N
            BY <1>4, <6>1
          <6>3. Start(k + 1) = b + 1
            BY <1>1, <4>1 DEF StartOf
          <6> QED BY <6>2, <6>3
        <5> QED BY <1>1, <2>8, <5>1
      <4> QED BY <2>4, <4>1
    <3>6. Start(k + 1) = N + 1
      BY <3>5 DEF StartOf
    <3> HIDE DEF i, b, T, Start
    <3> QED BY <2>3, <2>5, <3>3, <3>4, <3>6 DEF i
  <2>9. b <= N \/ b = N + 1
    <3> HIDE DEF b
    <3> QED BY <1>1, <2>1
  <2> QED BY <2>7, <2>8, <2>9
<1> HIDE DEF Start
<1>6. ASSUME NEW k \in 1..m
      PROVE  /\ Start(k) \in 1..N /\ Part(text, k) \in Seq(S) /\ Start(k + 1) \in 1..(N + 1)
             /\ from[Start(k)] = <<Part(text, k)>> \o from[Start(k + 1)]
  <2>1. Start(k) \in 1..N
    BY <1>4
  <2>2. End(text, Start(k)) \in Start(k)..N /\ from[Start(k)] = <<Word(text, Start(k))>> \o from[End(text, Start(k)) + 1]
    BY <1>2, <2>1
  <2>3. Start(k + 1) \in 1..(N + 1)
    BY <1>1, <1>5, <2>1, <2>2
  <2>4. Part(text, k) \in Seq(S)
    <3> DEFINE b == EndOf(text, k) - 1
    <3>1. Part(text, k) = SubSeq(text, Start(k), b)
      BY <1>4
    <3>2. Start(k) \in Int /\ b \in Int /\ \A j \in Start(k)..b : text[j] \in S
      <4>1. EndOf(text, k) \in 1..(N + 1)
        BY <1>3, <1>4
      <4> QED BY <1>1, <2>1, <4>1
    <3> HIDE DEF b
    <3> QED BY <3>1, <3>2, SubSeqProperties
  <2> QED BY <1>5, <2>1, <2>2, <2>3, <2>4
<1>7. \A j \in 0..m : /\ Start(m + 1 - j) \in 1..(N + 1)
                      /\ Len(from[Start(m + 1 - j)]) = j
                      /\ \A x \in 1..j : from[Start(m + 1 - j)][x] = Part(text, m - j + x)
  <2> DEFINE Good(j) == /\ Start(m + 1 - j) \in 1..(N + 1)
                        /\ Len(from[Start(m + 1 - j)]) = j
                        /\ \A x \in 1..j : from[Start(m + 1 - j)][x] = Part(text, m - j + x)
             Bad == {j \in 0..m : ~Good(j)}
  <2>1. ASSUME NEW j \in Bad, \A i \in Bad : j <= i PROVE FALSE
    <3>1. j \in 0..m /\ ~Good(j)
      OBVIOUS
    <3>2. CASE j = 0
      <4>1. Start(m + 1 - 0) = N + 1 /\ N + 1 \in 1..(N + 1)
        BY <1>1 DEF Start, StartOf
      <4>2. Good(0)
        BY <1>1, <1>2, <4>1
      <4> HIDE DEF Good
      <4> QED BY <3>1, <3>2, <4>2
    <3>3. CASE j # 0
      <4>1. PICK k \in 1..m : k = m + 1 - j
        BY <1>1, <3>1, <3>3
      <4>2. k + 1 = m + 1 - (j - 1) /\ j - 1 \in 0..m /\ ~(j <= j - 1)
        BY <1>1, <3>1, <3>3, <4>1
      <4>3. Good(j - 1)
        <5>1. j - 1 \notin Bad
          <6> HIDE DEF Bad
          <6> QED BY <2>1, <4>2
        <5> HIDE DEF Good
        <5> QED BY <4>2, <5>1
      <4> DEFINE rest == from[Start(k + 1)]
      <4>4. /\ Start(k) \in 1..(N + 1) /\ rest \in Seq(Seq(S)) /\ <<Part(text, k)>> \in Seq(Seq(S))
            /\ from[Start(k)] = <<Part(text, k)>> \o rest
        <5>1. Start(k) \in 1..N /\ Start(k + 1) \in 1..(N + 1) /\ Part(text, k) \in Seq(S)
          BY <1>6
        <5>2. rest \in Seq(Seq(S))
          BY <1>2, <5>1
        <5>3. Start(k) \in 1..(N + 1) /\ <<Part(text, k)>> \in Seq(Seq(S))
          BY <1>1, <5>1
        <5>4. from[Start(k)] = <<Part(text, k)>> \o rest
          BY <1>6
        <5> HIDE DEF rest
        <5> QED BY <5>2, <5>3, <5>4
      <4>5. Len(rest) = j - 1 /\ \A x \in 1..(j - 1) : rest[x] = Part(text, m - (j - 1) + x)
        BY <4>2, <4>3
      <4> HIDE DEF rest, Good
      <4>6. /\ Len(from[Start(k)]) = 1 + Len(rest)
            /\ \A x \in 1..(1 + Len(rest)) :
                 from[Start(k)][x] = IF x <= 1 THEN <<Part(text, k)>>[x] ELSE rest[x - 1]
        <5>1. Len(<<Part(text, k)>>) = 1
          OBVIOUS
        <5> QED BY <4>4, <5>1, ConcatProperties
      <4>7. ASSUME NEW x \in 1..j PROVE from[Start(k)][x] = Part(text, m - j + x)
        <5>1. CASE x = 1
          <6>1. m - j + 1 = k /\ 1 \in 1..(1 + Len(rest)) /\ 1 <= 1
            BY <1>1, <3>1, <4>1, <4>5
          <6>2. from[Start(k)][1] = <<Part(text, k)>>[1]
            BY <4>6, <6>1
          <6> QED BY <5>1, <6>1, <6>2
        <5>2. CASE x # 1
          <6>1. x - 1 \in 1..(j - 1) /\ x \in 1..(1 + Len(rest)) /\ ~(x <= 1) /\ m - (j - 1) + (x - 1) = m - j + x
            BY <1>1, <3>1, <4>5, <5>2
          <6>2. from[Start(k)][x] = rest[x - 1]
            BY <4>6, <6>1
          <6> QED BY <4>5, <6>1, <6>2
        <5> QED BY <5>1, <5>2
      <4>8. Len(from[Start(k)]) = j
        BY <1>1, <3>1, <4>5, <4>6
      <4>9. Good(j)
        BY <4>1, <4>4, <4>7, <4>8 DEF Good
      <4> QED BY <3>1, <4>9
    <3> QED BY <3>2, <3>3
  <2>2. Bad = {}
    <3>1. Bad \subseteq Nat
      OBVIOUS
    <3> HIDE DEF Bad
    <3> QED BY <2>1, <3>1, NatLeast
  <2> HIDE DEF Good
  <2>3. \A j \in 0..m : Good(j)
    BY <2>2
  <2> QED BY <2>3 DEF Good
<1>8. Start(1) = 1
  <2>1. CASE m = 0
    <3>1. Ends(text) = {}
      BY <2>1, EndsAre, FS_EmptySet
    <3>2. N = 0
      BY <1>1, <1>3, <3>1
    <3> QED BY <2>1, <3>2 DEF Start, StartOf
  <2>2. CASE m # 0
    BY <1>1, <2>2 DEF Start, StartOf
  <2> QED BY <2>1, <2>2
<1> QED
  <2>1. m \in 0..m /\ m + 1 - m = 1
    BY <1>1
  <2>2. Len(from[1]) = m /\ \A x \in 1..m : from[1][x] = Part(text, m - m + x)
    BY <1>7, <1>8, <2>1
  <2>3. \A x \in 1..m : m - m + x = x
    BY <1>1
  <2>4. from[1] \in Seq(Seq(S))
    BY <1>1, <1>2
  <2>5. DOMAIN from[1] = 1..m
    BY <2>2, <2>4, LenProperties
  <2> QED BY <1>2, <2>2, <2>3, <2>5

(* What a character means is '=' if it is one or an escape of one, and NUL  *)
(* only if it is one or an escape of one.                                   *)
LEMMA MeaningIs ==
  ASSUME NEW c
  PROVE  /\ c = "=" => Meaning(c) = "="
         /\ Meaning(c) = "=" => c = "=" \/ (c \in DOMAIN Escapes /\ Escapes[c] = "=")
         /\ Meaning(c) = Nul => c = Nul \/ (c \in DOMAIN Escapes /\ Escapes[c] = Nul)
         /\ Meaning(c) = IF c = "+" THEN " " ELSE IF c \in DOMAIN Escapes THEN Escapes[c] ELSE c
<1>1. Meaning(c) = IF c = "+" THEN " " ELSE IF c \in DOMAIN Escapes THEN Escapes[c] ELSE c
  BY DEF Meaning
<1>2. "=" \notin DOMAIN Escapes /\ Nul # " " /\ "=" # "+" /\ " " # "="
  BY EscapeAssumption DEF EscapeAssumption
<1> QED BY <1>1, <1>2

(* A piece of what characters mean is what the piece means.                 *)
LEMMA PieceMeant ==
  ASSUME NEW S, NEW p \in Seq(S), NEW x \in 1..(Len(p) + 1), NEW y \in 0..Len(p)
  PROVE  SubSeq(Meant(p), x, y) = Meant(SubSeq(p, x, y))
<1> DEFINE R == {Meaning(c) : c \in S}
<1>1. Len(p) \in Nat /\ p \in [1..Len(p) -> S] /\ DOMAIN p = 1..Len(p)
  BY LenProperties
<1>2. x \in Int /\ y \in Int /\ \A i \in x..y : i \in 1..Len(p) /\ p[i] \in S /\ Meant(p)[i] \in R
  BY <1>1 DEF Meant
<1>3. /\ SubSeq(p, x, y) \in Seq(S)
      /\ Len(SubSeq(p, x, y)) = IF x <= y THEN y - x + 1 ELSE 0
      /\ \A i \in 1..(y - x + 1) : SubSeq(p, x, y)[i] = p[x + i - 1]
  BY <1>2, SubSeqProperties
<1> HIDE DEF R
<1>4. /\ SubSeq(Meant(p), x, y) \in Seq(R)
      /\ Len(SubSeq(Meant(p), x, y)) = IF x <= y THEN y - x + 1 ELSE 0
      /\ \A i \in 1..(y - x + 1) : SubSeq(Meant(p), x, y)[i] = Meant(p)[x + i - 1]
  BY <1>2, SubSeqProperties
<1>5. PICK n \in Nat : /\ n = Len(SubSeq(p, x, y)) /\ n = Len(SubSeq(Meant(p), x, y))
                       /\ \A i \in 1..n : i \in 1..(y - x + 1) /\ x + i - 1 \in x..y
  <2>1. PICK n \in Nat : n = IF x <= y THEN y - x + 1 ELSE 0
    <3>1. x <= y => y - x + 1 \in Nat
      BY <1>1
    <3> QED BY <3>1
  <2>2. \A i \in 1..n : i \in 1..(y - x + 1) /\ x + i - 1 \in x..y
    BY <1>1, <2>1
  <2> QED BY <1>3, <1>4, <2>1, <2>2
<1>6. /\ DOMAIN SubSeq(p, x, y) = 1..n /\ DOMAIN SubSeq(Meant(p), x, y) = 1..n
      /\ SubSeq(Meant(p), x, y) = [i \in 1..n |-> SubSeq(Meant(p), x, y)[i]]
  BY <1>3, <1>4, <1>5, LenProperties
<1>7. \A i \in 1..n : SubSeq(Meant(p), x, y)[i] = Meaning(SubSeq(p, x, y)[i])
  <2>1. \A j \in x..y : Meant(p)[j] = Meaning(p[j])
    BY <1>1, <1>2 DEF Meant
  <2> QED BY <1>3, <1>4, <1>5, <2>1
<1> QED BY <1>6, <1>7 DEF Meant

(* Cut at the first '=' after decoding, as if it had been cut before, if    *)
(* every escape of an '=' comes behind one.                                 *)
LEMMA CutMeant ==
  ASSUME NEW S, NEW p \in Seq(S),
         \A i \in 1..Len(p) : p[i] \in DOMAIN Escapes /\ Escapes[p[i]] = "=" =>
                                \E j \in 1..(i - 1) : p[j] = "="
  PROVE  SplitAtEquals(Meant(p)) = Pair(p)
<1> DEFINE L == Len(p)
           A == {L + 1} \cup {i \in DOMAIN p : p[i] = "="}
           B == {L + 1} \cup {i \in DOMAIN Meant(p) : Meant(p)[i] = "="}
<1>1. L \in Nat /\ p \in [1..L -> S] /\ DOMAIN p = 1..L /\ DOMAIN Meant(p) = 1..L
  BY LenProperties DEF Meant
<1>2. Meant(p) \in Seq({Meaning(c) : c \in S}) /\ Len(Meant(p)) = L
  <2>1. Meant(p) \in Seq({Meaning(c) : c \in S})
    <3>1. Meant(p) \in [1..L -> {Meaning(c) : c \in S}]
      BY <1>1 DEF Meant
    <3> QED BY <1>1, <3>1, IsASeq
  <2> QED BY <1>1, <2>1, LenProperties
<1>3. \A i \in 1..L : Meant(p)[i] = Meaning(p[i])
  BY <1>1 DEF Meant
<1>4. A \subseteq 1..(L + 1) /\ B \subseteq 1..(L + 1) /\ A # {} /\ B # {} /\ A \subseteq Nat /\ B \subseteq Nat
  BY <1>1
<1>5. A \subseteq B
  <2>1. \A i \in 1..L : p[i] = "=" => Meant(p)[i] = "="
    BY <1>3, MeaningIs
  <2> QED BY <1>1, <2>1
<1>6. \A i \in B : \E j \in A : j <= i
  <2>1. ASSUME NEW i \in 1..L, Meant(p)[i] = "=" PROVE \E j \in 1..L : p[j] = "=" /\ j <= i
    <3>1. CASE p[i] = "="
      BY <1>1, <3>1
    <3>2. CASE p[i] \in DOMAIN Escapes /\ Escapes[p[i]] = "="
      BY <1>1, <3>2
    <3> QED BY <1>3, <2>1, <3>1, <3>2, MeaningIs
  <2>2. \A i \in B : i = L + 1 \/ (i \in 1..L /\ Meant(p)[i] = "=")
    BY <1>1
  <2>3. L + 1 \in A /\ L + 1 <= L + 1 /\ \A j \in 1..L : p[j] = "=" => j \in A
    BY <1>1
  <2> HIDE DEF A, B, L
  <2> QED BY <2>1, <2>2, <2>3
<1>7. Min(A) = Min(B) /\ Min(A) \in 1..(L + 1)
  <2> HIDE DEF A, B, L
  <2>1. /\ Min(A) \in A /\ (\A i \in A : Min(A) <= i) /\ Min(A) \in 1..(L + 1)
        /\ Min(B) \in B /\ (\A i \in B : Min(B) <= i) /\ Min(B) \in 1..(L + 1)
    BY <1>4, MinIs
  <2>2. PICK j \in A : j <= Min(B)
    BY <1>6, <2>1
  <2>3. Min(A) <= j /\ Min(B) <= Min(A) /\ j \in 1..(L + 1)
    BY <1>4, <1>5, <2>1
  <2> QED BY <2>1, <2>2, <2>3
<1>8. SplitAtEquals(p) = [name |-> SubSeq(p, 1, Min(A) - 1), value |-> SubSeq(p, Min(A) + 1, L)]
  BY DEF SplitAtEquals
<1>9. SplitAtEquals(Meant(p)) = [name |-> SubSeq(Meant(p), 1, Min(B) - 1), value |-> SubSeq(Meant(p), Min(B) + 1, L)]
  BY <1>2 DEF SplitAtEquals
<1> HIDE DEF A, B
<1>10. SubSeq(Meant(p), 1, Min(A) - 1) = Meant(SubSeq(p, 1, Min(A) - 1))
  <2>1. 1 \in 1..(Len(p) + 1) /\ Min(A) - 1 \in 0..Len(p)
    BY <1>1, <1>7
  <2> QED BY <2>1, PieceMeant
<1>11. SubSeq(Meant(p), Min(A) + 1, L) = Meant(SubSeq(p, Min(A) + 1, L))
  <2>1. CASE Min(A) = L + 1
    <3>1. L < Min(A) + 1 /\ Min(A) + 1 \in Int /\ L \in Int
      BY <1>1, <2>1
    <3>2. SubSeq(Meant(p), Min(A) + 1, L) = <<>> /\ SubSeq(p, Min(A) + 1, L) = <<>>
      BY <3>1, SubSeqEmpty
    <3>3. Meant(<<>>) = <<>>
      BY DEF Meant
    <3> QED BY <3>2, <3>3
  <2>2. CASE Min(A) # L + 1
    <3>1. Min(A) + 1 \in 1..(Len(p) + 1) /\ L \in 0..Len(p)
      BY <1>1, <1>7, <2>2
    <3> QED BY <3>1, PieceMeant
  <2> QED BY <2>1, <2>2
<1> HIDE DEF L
<1> QED
  <2>1. Pair(p) = [name |-> Meant(SubSeq(p, 1, Min(A) - 1)), value |-> Meant(SubSeq(p, Min(A) + 1, L))]
    BY <1>8 DEF Pair
  <2> QED BY <1>7, <1>9, <1>10, <1>11, <2>1

(* A part that is unambiguous is read as its encoding defines it.           *)
LEMMA PartIsPair ==
  ASSUME NEW S, NEW text \in Seq(S), Unambiguous(text), \A i \in DOMAIN text : text[i] # Nul,
         NEW k \in 1..Cardinality(Ends(text))
  PROVE  SplitAtEquals(CString(Decoded(Part(text, k)))) = Pair(Part(text, k))
<1> DEFINE N == Len(text)
           p == Part(text, k)
<1>1. N \in Nat /\ text \in [1..N -> S] /\ DOMAIN text = 1..N
  BY LenProperties
<1>2. PICK a \in 1..N, b \in 0..N :
        /\ a - 1 <= b /\ p = SubSeq(text, a, b)
        /\ \A j \in a..b : text[j] # "&"
        /\ a = 1 \/ text[a - 1] = "&"
  <2> DEFINE e == EndOf(text, k)
             a == StartOf(text, k)
  <2>1. /\ e \in Ends(text) /\ a \in 1..N /\ a <= e
        /\ \A j \in Ends(text) : j < a \/ e <= j
        /\ p = SubSeq(text, a, e - 1)
        /\ k > 1 => text[a - 1] = "&"
    BY PartsAre
  <2>2. k = 1 => a = 1
    <3>1. Cardinality(Ends(text)) \in Nat
      BY EndsAre
    <3> QED BY <3>1 DEF StartOf
  <2>3. k = 1 \/ k > 1
    <3>1. Cardinality(Ends(text)) \in Nat
      BY EndsAre
    <3> QED BY <3>1
  <2>4. e \in 1..(N + 1) /\ \A j \in 1..N : j \in Ends(text) <=> text[j] = "&"
    BY <2>1, PartsAre
  <2> HIDE DEF e, a, p, N
  <2>5. e - 1 \in 0..N /\ a - 1 <= e - 1 /\ \A j \in a..(e - 1) : j \in 1..N /\ ~(j < a) /\ ~(e <= j)
    BY <1>1, <2>1, <2>4
  <2>6. \A j \in a..(e - 1) : text[j] # "&"
    BY <2>1, <2>4, <2>5
  <2> QED BY <2>1, <2>2, <2>3, <2>5, <2>6
<1> DEFINE L == b - a + 1
<1>3. /\ p \in Seq(S) /\ Len(p) = L /\ L \in Nat /\ DOMAIN p = 1..L
      /\ \A i \in 1..L : a + i - 1 \in a..b /\ a + i - 1 \in 1..N /\ p[i] = text[a + i - 1]
  <2>1. a \in Int /\ b \in Int /\ \A j \in a..b : text[j] \in S
    BY <1>1
  <2>2. /\ SubSeq(text, a, b) \in Seq(S)
        /\ Len(SubSeq(text, a, b)) = IF a <= b THEN b - a + 1 ELSE 0
        /\ \A i \in 1..(b - a + 1) : SubSeq(text, a, b)[i] = text[a + i - 1]
    BY <2>1, SubSeqProperties
  <2> HIDE DEF p, N
  <2>3. L \in Nat /\ (IF a <= b THEN b - a + 1 ELSE 0) = L
    BY <1>1, <1>2
  <2>4. \A i \in 1..L : a + i - 1 \in a..b /\ a + i - 1 \in 1..N
    BY <1>1
  <2>5. p \in Seq(S) /\ Len(p) = L
    BY <1>2, <2>2, <2>3
  <2>6. DOMAIN p = 1..L
    BY <2>5, LenProperties
  <2> QED BY <1>2, <2>2, <2>3, <2>4, <2>5, <2>6
<1> HIDE DEF p, L, N
<1>4. Decoded(p) = Meant(p)
  BY MeaningIs DEF Decoded, Meant
<1>5. CString(Meant(p)) = Meant(p)
  <2>1. \A i \in 1..L : Meant(p)[i] # Nul
    <3>1. \A i \in 1..L : p[i] # Nul /\ (p[i] \in DOMAIN Escapes => Escapes[p[i]] # Nul)
      BY <1>1, <1>3 DEF Unambiguous
    <3>2. \A i \in 1..L : Meant(p)[i] = Meaning(p[i])
      BY <1>3 DEF Meant
    <3> QED BY <3>1, <3>2, MeaningIs
  <2>2. Meant(p) \in Seq({Meaning(c) : c \in S}) /\ Len(Meant(p)) = L /\ DOMAIN Meant(p) = 1..L
    <3>1. Meant(p) \in [1..L -> {Meaning(c) : c \in S}]
      BY <1>3, ElementOfSeq DEF Meant
    <3>2. Meant(p) \in Seq({Meaning(c) : c \in S})
      BY <1>3, <3>1, IsASeq
    <3> QED BY <1>3, <3>1, <3>2, LenProperties
  <2>3. {Len(Meant(p)) + 1} \cup {i \in DOMAIN Meant(p) : Meant(p)[i] = Nul} = {L + 1}
    BY <2>1, <2>2
  <2>4. Min({L + 1}) - 1 = L
    <3>1. {L + 1} \subseteq Nat /\ {L + 1} # {}
      BY <1>3
    <3>2. Min({L + 1}) = L + 1
      BY <3>1, MinIs
    <3> QED BY <1>3, <3>2
  <2>5. CString(Meant(p)) = SubSeq(Meant(p), 1, L)
    BY <2>3, <2>4 DEF CString
  <2> QED BY <2>2, <2>5, SubSeqFull
<1>6. ASSUME NEW i \in 1..Len(p), p[i] \in DOMAIN Escapes, Escapes[p[i]] = "="
      PROVE  \E j \in 1..(i - 1) : p[j] = "="
  <2>1. a + i - 1 \in 1..N /\ p[i] = text[a + i - 1] /\ i \in 1..L
    BY <1>3
  <2>2. PICK j \in 1..(a + i - 1 - 1) : text[j] = "=" /\ \A n \in j..(a + i - 1) : text[n] # "&"
    BY <1>1, <1>6, <2>1 DEF Unambiguous
  <2>3. a <= j
    <3>1. j < a => a - 1 \in j..(a + i - 1) /\ a # 1
      BY <1>3, <2>1
    <3>2. ~(j < a)
      BY <1>2, <2>2, <3>1
    <3> QED BY <3>2
  <2>4. PICK n \in 1..(i - 1) : n = j - a + 1
    BY <1>3, <2>1, <2>3
  <2>5. n \in 1..L /\ a + n - 1 = j
    BY <1>3, <2>1, <2>4
  <2> QED BY <1>3, <2>2, <2>5
<1>7. SplitAtEquals(Meant(p)) = Pair(p)
  BY <1>3, <1>6, CutMeant
<1> QED BY <1>4, <1>5, <1>7 DEF p

(* For any text without a NUL, which none has: it is a C string.            *)
THEOREM ParseSafe ==
  ASSUME NEW S, NEW text \in Seq(S), Nul \notin ToSet(text)
  PROVE  ParsedAsDefined(text)
<1> SUFFICES ASSUME Unambiguous(text) PROVE Parse(text) = Standard(text)
  BY DEF ParsedAsDefined
<1> DEFINE m == Cardinality(Ends(text))
<1>1. \A i \in DOMAIN text : text[i] # Byte255 /\ text[i] # Nul
  BY DEF Unambiguous, ToSet
<1>2. DOMAIN Words(text) = 1..m /\ \A k \in 1..m : Words(text)[k] = Part(text, k)
  BY <1>1, WordsAreParts
<1>3. \A k \in 1..m : SplitAtEquals(CString(Decoded(Part(text, k)))) = Pair(Part(text, k))
  BY <1>1, PartIsPair
<1> HIDE DEF m
<1>4. Standard(text) = [k \in 1..m |-> Pair(Part(text, k))]
  BY DEF Standard, m
<1>5. Parse(text) = [k \in 1..m |-> SplitAtEquals(CString(Decoded(Words(text)[k])))]
  BY <1>2 DEF Parse
<1> QED BY <1>2, <1>3, <1>4, <1>5

(* What is parsed is a list of parameters.                                  *)
LEMMA ParseIsList ==
  ASSUME NEW S, NEW text \in Seq(S)
  PROVE  \E R : Parse(text) \in Seq(R)
<1> DEFINE Read(w) == SplitAtEquals(CString(Decoded(w)))
           R == {Read(w) : w \in Seq(S)}
<1>1. Words(text) \in Seq(Seq(S))
  <2>1. PICK from \in [1..(Len(text) + 1) -> Seq(Seq(S))] : Words(text) = from[1]
    BY WordsAre
  <2>2. 1 \in 1..(Len(text) + 1)
    BY LenProperties
  <2> QED BY <2>1, <2>2
<1>2. Len(Words(text)) \in Nat /\ DOMAIN Words(text) = 1..Len(Words(text))
      /\ \A i \in DOMAIN Words(text) : Words(text)[i] \in Seq(S)
  BY <1>1, LenProperties, ElementOfSeq
<1>3. Parse(text) = [i \in 1..Len(Words(text)) |-> Read(Words(text)[i])]
  BY <1>2 DEF Parse
<1> HIDE DEF Read
<1>4. Parse(text) \in Seq(R)
  <2>1. \A i \in 1..Len(Words(text)) : Read(Words(text)[i]) \in R
    BY <1>2
  <2> QED BY <1>2, <1>3, <2>1
<1> QED BY <1>4

(* Of the parameters of a query and of a form behind them, the first of a   *)
(* name is the query's first, or the form's if the query has none.          *)
THEOREM FirstIsOfQuery ==
  ASSUME NEW S, NEW r, r.query \in Seq(S), r.body \in Seq(S)
  PROVE  QueryBeforeForm(r)
<1> DEFINE P == Parse(r.query)
           F == IF r.method = "POST" /\ r.form THEN Parse(r.body) ELSE <<>>
           Has(pairs, n) == {i \in DOMAIN pairs : pairs[i].name = n}
           FirstOf(pairs, n) == IF \E i \in DOMAIN pairs : pairs[i].name = n
                                  THEN pairs[SelectInSeq(pairs, LAMBDA p : p.name = n)].value ELSE Missing
<1>1. PICK Q : P \in Seq(Q)
  BY ParseIsList
<1>2. PICK B : Parse(r.body) \in Seq(B)
  BY ParseIsList
<1>3. PICK R : P \in Seq(R) /\ F \in Seq(R)
  <2>1. P \in Seq(Q \cup B) /\ Parse(r.body) \in Seq(Q \cup B) /\ <<>> \in Seq(Q \cup B)
    BY <1>1, <1>2
  <2> HIDE DEF P
  <2> QED BY <2>1
<1>4. Parameters(r) = P \o F
  BY DEF Parameters
<1>5. ASSUME NEW T, NEW pairs \in Seq(T), NEW n
      PROVE  /\ Has(pairs, n) \subseteq Nat /\ (Has(pairs, n) = {} <=> ~ \E i \in DOMAIN pairs : pairs[i].name = n)
             /\ FirstOf(pairs, n) = IF Has(pairs, n) = {} THEN Missing ELSE pairs[Min(Has(pairs, n))].value
  <2>1. DOMAIN pairs = 1..Len(pairs) /\ Len(pairs) \in Nat
    BY LenProperties
  <2>2. SelectInSeq(pairs, LAMBDA p : p.name = n) = IF Has(pairs, n) # {} THEN Min(Has(pairs, n)) ELSE 0
    BY <2>1 DEF SelectInSeq
  <2> QED BY <2>1, <2>2
<1> HIDE DEF P, F
<1>6. /\ P \o F \in Seq(R) /\ DOMAIN (P \o F) = 1..(Len(P) + Len(F)) /\ Len(P) \in Nat /\ Len(F) \in Nat
      /\ DOMAIN P = 1..Len(P) /\ DOMAIN F = 1..Len(F)
      /\ \A i \in 1..Len(P) : (P \o F)[i] = P[i] /\ i \in 1..(Len(P) + Len(F))
      /\ \A i \in 1..Len(F) : (P \o F)[Len(P) + i] = F[i] /\ Len(P) + i \in 1..(Len(P) + Len(F))
      /\ \A i \in 1..(Len(P) + Len(F)) : i \in 1..Len(P) \/ (i - Len(P) \in 1..Len(F) /\ i = Len(P) + (i - Len(P)))
  <2>1. Len(P) \in Nat /\ Len(F) \in Nat /\ DOMAIN P = 1..Len(P) /\ DOMAIN F = 1..Len(F)
    BY <1>3, LenProperties
  <2>2. /\ P \o F \in Seq(R) /\ Len(P \o F) = Len(P) + Len(F)
        /\ \A i \in 1..(Len(P) + Len(F)) : (P \o F)[i] = IF i <= Len(P) THEN P[i] ELSE F[i - Len(P)]
    BY <1>3, ConcatProperties
  <2>3. DOMAIN (P \o F) = 1..(Len(P) + Len(F))
    BY <2>2, LenProperties
  <2>4. \A i \in 1..Len(P) : (P \o F)[i] = P[i] /\ i \in 1..(Len(P) + Len(F))
    BY <2>1, <2>2
  <2>5. ASSUME NEW i \in 1..Len(F)
        PROVE  (P \o F)[Len(P) + i] = F[i] /\ Len(P) + i \in 1..(Len(P) + Len(F))
    <3>1. Len(P) + i \in 1..(Len(P) + Len(F)) /\ ~(Len(P) + i <= Len(P)) /\ Len(P) + i - Len(P) = i
      BY <2>1
    <3> QED BY <2>2, <3>1
  <2>6. \A i \in 1..(Len(P) + Len(F)) : i \in 1..Len(P) \/ (i - Len(P) \in 1..Len(F) /\ i = Len(P) + (i - Len(P)))
    BY <2>1
  <2> QED BY <2>1, <2>2, <2>3, <2>4, <2>5, <2>6
<1>7. ASSUME NEW n
      PROVE  GetParameter(r, n) =
               IF \E p \in ToSet(P) : p.name = n THEN FirstOf(P, n) ELSE FirstOf(F, n)
  <2> DEFINE A == Has(P, n)
             B1 == Has(F, n)
             C == Has(P \o F, n)
  <2>1. GetParameter(r, n) = IF C = {} THEN Missing ELSE (P \o F)[Min(C)].value
    BY <1>4 DEF GetParameter, GetParameters
  <2>2. (\E p \in ToSet(P) : p.name = n) <=> A # {}
    BY DEF ToSet
  <2>3. /\ FirstOf(P, n) = IF A = {} THEN Missing ELSE P[Min(A)].value
        /\ FirstOf(F, n) = IF B1 = {} THEN Missing ELSE F[Min(B1)].value
        /\ A \subseteq Nat /\ B1 \subseteq Nat /\ C \subseteq Nat
    <3>1. FirstOf(P, n) = (IF A = {} THEN Missing ELSE P[Min(A)].value) /\ A \subseteq Nat
      BY <1>3, <1>5
    <3>2. FirstOf(F, n) = (IF B1 = {} THEN Missing ELSE F[Min(B1)].value) /\ B1 \subseteq Nat
      BY <1>3, <1>5
    <3>3. C \subseteq Nat
      BY <1>6
    <3> HIDE DEF A, B1, C, FirstOf
    <3> QED BY <3>1, <3>2, <3>3
  <2>4. \A i \in 1..Len(P) : i \in A <=> i \in C
    BY <1>6
  <2>5. \A i \in 1..Len(F) : i \in B1 <=> Len(P) + i \in C
    BY <1>6
  <2>6. A \subseteq 1..Len(P) /\ B1 \subseteq 1..Len(F) /\ C \subseteq 1..(Len(P) + Len(F))
    BY <1>6
  <2> HIDE DEF A, B1, C, FirstOf
  <2>7. CASE A # {}
    <3>1. Min(A) \in A /\ (\A i \in A : Min(A) <= i) /\ Min(A) \in 1..Len(P)
      BY <2>3, <2>6, <2>7, MinIs
    <3>2. C # {} /\ Min(A) \in C
      BY <2>4, <3>1
    <3>3. Min(C) \in C /\ Min(C) <= Min(A) /\ Min(C) \in Nat
      BY <2>3, <3>2, MinIs
    <3>4. Min(C) \in 1..Len(P)
      BY <1>6, <2>6, <3>1, <3>3
    <3>5. Min(C) = Min(A)
      <4>1. Min(A) <= Min(C)
        BY <2>4, <3>1, <3>3, <3>4
      <4> QED BY <3>1, <3>3, <3>4, <4>1
    <3> QED BY <1>6, <2>1, <2>2, <2>3, <2>7, <3>1, <3>2, <3>5
  <2>8. CASE A = {} /\ B1 # {}
    <3>1. Min(B1) \in B1 /\ (\A i \in B1 : Min(B1) <= i) /\ Min(B1) \in 1..Len(F)
      BY <2>3, <2>6, <2>8, MinIs
    <3>2. C # {} /\ Len(P) + Min(B1) \in C
      BY <2>5, <3>1
    <3>3. Min(C) \in C /\ Min(C) <= Len(P) + Min(B1) /\ Min(C) \in Nat
      BY <2>3, <3>2, MinIs
    <3>4. Min(C) - Len(P) \in 1..Len(F) /\ Min(C) = Len(P) + (Min(C) - Len(P))
      <4>1. Min(C) \notin 1..Len(P)
        BY <2>4, <2>8, <3>3
      <4>2. Min(C) \in 1..(Len(P) + Len(F))
        BY <2>6, <3>3
      <4> QED BY <1>6, <4>1, <4>2
    <3>5. Min(C) = Len(P) + Min(B1)
      <4>1. Min(C) - Len(P) \in B1
        BY <2>5, <3>3, <3>4
      <4>2. Min(B1) <= Min(C) - Len(P)
        BY <3>1, <4>1
      <4> QED BY <1>6, <3>1, <3>3, <4>2
    <3> QED BY <1>6, <2>1, <2>2, <2>3, <2>8, <3>1, <3>2, <3>5
  <2>9. CASE A = {} /\ B1 = {}
    <3>1. C = {}
      <4>1. SUFFICES ASSUME NEW i \in C PROVE FALSE
        OBVIOUS
      <4>2. i \in 1..Len(P) \/ (i - Len(P) \in 1..Len(F) /\ i = Len(P) + (i - Len(P)))
        BY <1>6, <2>6
      <4> QED BY <2>4, <2>5, <2>9, <4>2
    <3> QED BY <2>1, <2>2, <2>3, <2>9, <3>1
  <2> QED BY <2>7, <2>8, <2>9
<1> QED BY <1>7 DEF QueryBeforeForm, P, F

-----------------------------------------------------------------------------
(* The properties of the runs. *)

(* Any text without a NUL is parsed as its encoding defines it, and the     *)
(* parameters of any query hide those of any form (CGIParser.cpp:102-130).  *)
THEOREM ParametersSafe ==
  ASSUME input.kind = "text" => \E S : input.text \in Seq(S) /\ Nul \notin ToSet(input.text),
         input.kind = "request" => \E S : input.query \in Seq(S) /\ input.body \in Seq(S)
  PROVE  ParametersRead
<1>1. input.kind = "text" => ParsedAsDefined(input.text)
  BY ParseSafe
<1>2. input.kind = "request" => QueryBeforeForm(input)
  BY FirstIsOfQuery
<1> QED BY <1>1, <1>2 DEF ParametersRead

(* The list of a listener and its port, whatever they are: the blocks are   *)
(* of addresses, and so is the peer (TCPListener.cpp:114-120, 280).         *)
THEOREM ListedSafe ==
  ASSUME input.kind = "acl" =>
           (\A block \in ToSet(input.blocks) : InFamily(block)) /\ input.peer \in Addresses,
         input.kind = "port" => input.attribute \in Int /\ input.environment \in Int
  PROVE  ListedAdmitted
BY ListSafe, PortSafe DEF ListedAdmitted

(* Any elements of any property sets, and any parameter of a request        *)
(* (DOMPropertySet.cpp:172-265, AbstractHandler.cpp:137-219).               *)
THEOREM PropertiesSafe ==
  ASSUME input.kind \in {"elements", "property"} => \E S : input.elements \in Seq(S)
  PROVE  PropertiesRead
<1>1. input.kind = "elements" => NearestCounts(input.elements)
  BY NearestSafe
<1>2. input.kind = "property" => SameText(Chain, "p") /\ RequestOverrides(Chain, "p", input.parameter, input.from)
  BY OverrideSafe, TextIsSame DEF Chain
<1> QED BY <1>1, <1>2 DEF PropertiesRead
=============================================================================
