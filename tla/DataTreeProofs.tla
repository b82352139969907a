--------------------------- MODULE DataTreeProofs ---------------------------
(***************************************************************************)
(* Proofs about DataTree for any finite memory: after every sequence of    *)
(* calls the nodes are trees (WellFormed), and they implement an           *)
(* OrderedForest, call by call.                                            *)
(***************************************************************************)
EXTENDS DataTree, FiniteSetTheorems, SequenceTheorems, TLAPS

(***************************************************************************)
(* The inductive invariant: what holds of the links, without the sequences *)
(* they stand for.                                                         *)
(***************************************************************************)
HeapType(h) ==
  h \in [Nodes -> [type : Types, name : Names \cup {NoName}, parent : Links,
                   next : Links, prev : Links, first : Links, last : Links,
                   current : Links, count : Nat]]

Members(h, p) == {n \in Nodes : h[n].parent = p}

(* The links of a member to its siblings are mutual, and it is the first or *)
(* the last if it has none before or behind it.                            *)
Siblings(h) ==
  \A n \in Nodes :
    /\ h[n].next # Null => h[h[n].next].prev = n /\ h[h[n].next].parent = h[n].parent
    /\ h[n].prev # Null => h[h[n].prev].next = n /\ h[h[n].prev].parent = h[n].parent
    /\ h[n].parent = Null => h[n].next = Null /\ h[n].prev = Null
    /\ h[n].parent # Null =>
         /\ h[h[n].parent].type \in Containers
         /\ h[n].prev = Null <=> h[h[n].parent].first = n
         /\ h[n].next = Null <=> h[h[n].parent].last = n
         /\ h[n].type # "free"

(* What a node knows of its members is right.                              *)
Lists(h) ==
  \A p \in Nodes :
    /\ h[p].first # Null => h[h[p].first].parent = p
    /\ h[p].last # Null => h[h[p].last].parent = p
    /\ h[p].current # Null => h[h[p].current].parent = p
    /\ h[p].first = Null <=> h[p].last = Null

Counted(h) == \A p \in Nodes : h[p].count = Cardinality(Members(h, p))

(* Whoever follows the links f gets to an end: no set of nodes is closed.  *)
Ending(f) == \A T \in SUBSET Nodes : T # {} => \E n \in T : f[n] \notin T

NextOf(h) == [n \in Nodes |-> h[n].next]
PrevOf(h) == [n \in Nodes |-> h[n].prev]
ParentOf(h) == [n \in Nodes |-> h[n].parent]

Acyclic(h) == Ending(NextOf(h)) /\ Ending(PrevOf(h)) /\ Ending(ParentOf(h))

Named(h) ==
  \A n \in Nodes : h[n].parent # Null /\ h[h[n].parent].type = "struct" =>
    /\ h[n].name # NoName
    /\ \A m \in Nodes : h[m].parent = h[n].parent /\ h[m].name = h[n].name => m = n

Good(h) == HeapType(h) /\ Siblings(h) /\ Lists(h) /\ Counted(h) /\ Acyclic(h) /\ Named(h)

IInv == Good(heap) /\ result \in Links

(***************************************************************************)
(* The sequences of members.                                               *)
(***************************************************************************)

(* A nonempty set of numbers has a least element.                           *)
LEMMA Least ==
  ASSUME NEW T \in SUBSET Nat, T # {}
  PROVE  \E i \in T : \A j \in T : i <= j
<1>1. PICK i \in T : \A j \in T : <<j, i>> \notin OpToRel(<, Nat)
  BY NatLessThanWellFounded, WFMin, Zenon
<1>2. \A j \in T : ~(j < i)
  BY <1>1, Zenon DEF OpToRel
<1> QED BY <1>2

(* Each link of a heap leads to a node or nowhere.                          *)
LEMMA FieldTypes ==
  ASSUME NEW h, HeapType(h), NEW n \in Nodes
  PROVE  /\ h[n].type \in Types /\ h[n].name \in Names \cup {NoName} /\ h[n].count \in Nat
         /\ h[n].parent \in Links /\ h[n].next \in Links /\ h[n].prev \in Links
         /\ h[n].first \in Links /\ h[n].last \in Links /\ h[n].current \in Links
  BY DEF HeapType

(* s is the way from n to the end of its list.                             *)
Way(h, n, s) ==
  /\ s \in Seq(Nodes) /\ s # <<>> /\ s[1] = n
  /\ \A i \in 1..Len(s) : h[s[i]].next = IF i < Len(s) THEN s[i + 1] ELSE Null

(* A node with nothing behind it is its own way.                           *)
LEMMA OneStepWay ==
  ASSUME NEW h, NEW n \in Nodes, h[n].next = Null
  PROVE  Way(h, n, <<n>>)
  BY DEF Way

(* Who goes on from n to m goes the way of m.                               *)
LEMMA LongerWay ==
  ASSUME NEW h, NEW n \in Nodes, NEW m \in Nodes, h[n].next = m, NEW s, Way(h, m, s)
  PROVE  Way(h, n, <<n>> \o s)
<1>1. /\ s \in Seq(Nodes) /\ s # <<>> /\ s[1] = m
      /\ \A i \in 1..Len(s) : h[s[i]].next = IF i < Len(s) THEN s[i + 1] ELSE Null
  BY DEF Way
<1>2. <<n>> \in Seq(Nodes) /\ Len(<<n>>) = 1 /\ <<n>>[1] = n
  OBVIOUS
<1> DEFINE t == <<n>> \o s
<1>3. /\ t \in Seq(Nodes) /\ Len(t) = 1 + Len(s)
      /\ \A i \in 1..(1 + Len(s)) : t[i] = IF i <= 1 THEN <<n>>[i] ELSE s[i - 1]
  BY <1>1, <1>2, ConcatProperties
<1>4. Len(s) \in Nat \ {0}
  BY <1>1, EmptySeq
<1> HIDE DEF t
<1>5. t[1] = n /\ \A i \in 1..Len(s) : t[i + 1] = s[i]
  <2>1. t[1] = n
    BY <1>2, <1>3, <1>4
  <2>2. ASSUME NEW i \in 1..Len(s) PROVE t[i + 1] = s[i]
    <3>1. i + 1 \in 1..(1 + Len(s)) /\ ~(i + 1 <= 1) /\ (i + 1) - 1 = i
      BY <1>4
    <3> QED BY <3>1, <1>3
  <2> QED BY <2>1, <2>2
<1>6. t # <<>>
  BY <1>3, <1>4, EmptySeq
<1>7. ASSUME NEW i \in 1..Len(t)
      PROVE  h[t[i]].next = IF i < Len(t) THEN t[i + 1] ELSE Null
  <2>1. CASE i = 1
    BY <2>1, <1>1, <1>3, <1>4, <1>5
  <2>2. CASE i # 1
    <3>1. i - 1 \in 1..Len(s) /\ (i - 1) + 1 = i
      BY <2>2, <1>3, <1>4
    <3>2. t[i] = s[i - 1]
      BY <3>1, <1>5
    <3>3. h[s[i - 1]].next = IF i - 1 < Len(s) THEN s[(i - 1) + 1] ELSE Null
      BY <3>1, <1>1
    <3>4. CASE i - 1 < Len(s)
      <4>1. i \in 1..Len(s) /\ i < Len(t)
        BY <3>4, <3>1, <1>3, <1>4
      <4> QED BY <4>1, <3>1, <3>2, <3>3, <3>4, <1>5
    <3>5. CASE ~(i - 1 < Len(s))
      <4>1. ~(i < Len(t))
        BY <3>5, <3>1, <1>3, <1>4
      <4> QED BY <4>1, <3>2, <3>3, <3>5
    <3> QED BY <3>4, <3>5
  <2> QED BY <2>1, <2>2
<1> QED BY <1>3, <1>5, <1>6, <1>7 DEF Way, t

(* The way from a node is as long as it is, and leads where it leads.       *)
LEMMA WayWithin ==
  ASSUME NEW h, NEW n, NEW s, NEW t, Way(h, n, s), Way(h, n, t)
  PROVE  \A i \in 1..Len(s) : i \in 1..Len(t) /\ s[i] = t[i]
<1>1. /\ s \in Seq(Nodes) /\ s # <<>> /\ s[1] = n
      /\ \A i \in 1..Len(s) : h[s[i]].next = IF i < Len(s) THEN s[i + 1] ELSE Null
      /\ t \in Seq(Nodes) /\ t # <<>> /\ t[1] = n
      /\ \A i \in 1..Len(t) : h[t[i]].next = IF i < Len(t) THEN t[i + 1] ELSE Null
  BY DEF Way
<1>2. Len(s) \in Nat \ {0} /\ Len(t) \in Nat \ {0}
  BY <1>1, EmptySeq
<1> DEFINE T == {i \in 1..Len(s) : ~(i \in 1..Len(t) /\ s[i] = t[i])}
<1>3. SUFFICES ASSUME T # {} PROVE FALSE
  OBVIOUS
<1>4. T \in SUBSET Nat
  BY <1>2
<1>5. PICK i \in T : \A j \in T : i <= j
  <2> HIDE DEF T
  <2> QED BY <1>3, <1>4, Least
<1>6. i # 1
  BY <1>1, <1>2, <1>5
<1>7. i \in Nat /\ i - 1 \in 1..Len(s) /\ i - 1 < Len(s) /\ (i - 1) + 1 = i
  BY <1>2, <1>5, <1>6
<1>8. i - 1 \notin T
  <2> HIDE DEF T
  <2> QED BY <1>5, <1>7
<1>9. i - 1 \in 1..Len(t) /\ s[i - 1] = t[i - 1]
  BY <1>7, <1>8
<1>10. h[t[i - 1]].next = s[i]
  BY <1>1, <1>7, <1>9
<1>11. s[i] \in Nodes
  BY <1>1, <1>5, ElementOfSeq
<1>12. i - 1 < Len(t)
  BY <1>1, <1>9, <1>10, <1>11, DataTreeAssumption DEF DataTreeAssumption
<1>13. h[t[i - 1]].next = t[i]
  BY <1>1, <1>7, <1>9, <1>12
<1>14. i \in 1..Len(t)
  BY <1>2, <1>7, <1>12
<1> QED BY <1>5, <1>10, <1>13, <1>14

(* There is one way from a node at most.                                   *)
LEMMA OneWay ==
  ASSUME NEW h, NEW n, NEW s, NEW t, Way(h, n, s), Way(h, n, t)
  PROVE  s = t
<1>1. s \in Seq(Nodes) /\ t \in Seq(Nodes)
  BY DEF Way
<1>2. Len(s) \in Nat /\ Len(t) \in Nat
  BY <1>1, LenProperties
<1>3. \A i \in 1..Len(s) : i \in 1..Len(t) /\ s[i] = t[i]
  BY WayWithin
<1>4. \A i \in 1..Len(t) : i \in 1..Len(s)
  BY WayWithin
<1>5. Len(s) = Len(t)
  BY <1>2, <1>3, <1>4
<1> QED BY <1>1, <1>3, <1>5, SeqEqual

(* Every list has an end.                                                  *)
LEMMA EveryWay ==
  ASSUME NEW h, HeapType(h), Ending(NextOf(h)), NEW n \in Nodes
  PROVE  \E s : Way(h, n, s)
<1> DEFINE T == {m \in Nodes : ~ \E s : Way(h, m, s)}
<1>1. SUFFICES ASSUME T # {} PROVE FALSE
  OBVIOUS
<1>2. PICK m \in T : NextOf(h)[m] \notin T
  <2>1. T \in SUBSET Nodes
    OBVIOUS
  <2> HIDE DEF T
  <2> QED BY <1>1, <2>1 DEF Ending
<1>3. h[m].next \in Links /\ h[m].next \notin T
  BY <1>2, FieldTypes DEF NextOf
<1>4. CASE h[m].next = Null
  BY <1>4, OneStepWay
<1>5. CASE h[m].next \in Nodes
  <2>1. PICK s : Way(h, h[m].next, s)
    BY <1>3, <1>5
  <2> QED BY <1>5, <2>1, LongerWay
<1> QED BY <1>3, <1>4, <1>5 DEF Links

(* There is a function that goes from link to link to the end.             *)
LEMMA WalkExists ==
  ASSUME NEW h, HeapType(h), Ending(NextOf(h))
  PROVE  \E f : f = [n \in Links |-> IF n = Null THEN <<>> ELSE <<n>> \o f[h[n].next]]
<1> DEFINE way(n) == CHOOSE s : Way(h, n, s)
           f == [n \in Links |-> IF n = Null THEN <<>> ELSE way(n)]
<1>1. \A n \in Nodes : Way(h, n, way(n))
  <2> TAKE n \in Nodes
  <2>1. \E s : Way(h, n, s)
    BY EveryWay
  <2> QED BY <2>1, Zenon
<1>2. ASSUME NEW n \in Links
      PROVE  f[n] = IF n = Null THEN <<>> ELSE <<n>> \o f[h[n].next]
  <2>1. CASE n = Null
    BY <2>1, Zenon
  <2>2. CASE n # Null
    <3>1. n \in Nodes /\ h[n].next \in Links
      BY <2>2, FieldTypes DEF Links
    <3>2. Way(h, n, way(n)) /\ f[n] = way(n)
      BY <2>2, <3>1, <1>1
    <3>3. Way(h, n, <<n>> \o f[h[n].next])
      <4>1. CASE h[n].next = Null
        <5>1. f[h[n].next] = <<>>
          BY <3>1, <4>1
        <5>2. <<n>> \o <<>> = <<n>>
          <6>1. <<n>> \in Seq(Nodes)
            BY <3>1
          <6> QED BY <6>1, ConcatEmptySeq
        <5>3. Way(h, n, <<n>>)
          BY <3>1, <4>1, OneStepWay
        <5> QED BY <5>1, <5>2, <5>3, Zenon
      <4>2. CASE h[n].next # Null
        <5>1. h[n].next \in Nodes
          BY <3>1, <4>2 DEF Links
        <5>2. f[h[n].next] = way(h[n].next)
          BY <3>1, <4>2
        <5>3. Way(h, h[n].next, f[h[n].next])
          BY <5>1, <5>2, <1>1
        <5> HIDE DEF f, way
        <5> QED BY <3>1, <5>1, <5>3, LongerWay
      <4> QED BY <4>1, <4>2
    <3> HIDE DEF f, way
    <3>4. f[n] = <<n>> \o f[h[n].next]
      BY <3>2, <3>3, OneWay
    <3> QED BY <2>2, <3>4
  <2> QED BY <2>1, <2>2
<1>3. f = [n \in Links |-> f[n]]
  OBVIOUS
<1> HIDE DEF f
<1>4. f = [n \in Links |-> IF n = Null THEN <<>> ELSE <<n>> \o f[h[n].next]]
  BY <1>2, <1>3, Zenon
<1> QED BY <1>4

(* So Walk is what its recursive definition says.                          *)
LEMMA WalkUnfolds ==
  ASSUME NEW h, HeapType(h), Ending(NextOf(h))
  PROVE  Walk(h) = [n \in Links |-> IF n = Null THEN <<>> ELSE <<n>> \o Walk(h)[h[n].next]]
  BY WalkExists, Zenon DEF Walk

(* Walk gives the way from each node.                                       *)
LEMMA WalkIsWay ==
  ASSUME NEW h, HeapType(h), Ending(NextOf(h))
  PROVE  Walk(h)[Null] = <<>> /\ \A n \in Nodes : Way(h, n, Walk(h)[n])
<1> DEFINE w == Walk(h)
           T == {n \in Nodes : ~ Way(h, n, w[n])}
<1>1. w = [n \in Links |-> IF n = Null THEN <<>> ELSE <<n>> \o w[h[n].next]]
  BY WalkUnfolds, Zenon
<1> HIDE DEF w
<1>2. w[Null] = <<>>
  BY <1>1, Zenon DEF Links
<1>3. ASSUME T # {} PROVE FALSE
  <2>1. PICK n \in T : NextOf(h)[n] \notin T
    <3>1. T \in SUBSET Nodes
      OBVIOUS
    <3> HIDE DEF T
    <3> QED BY <1>3, <3>1 DEF Ending
  <2>2. n \in Nodes /\ h[n].next \in Links /\ h[n].next \notin T
    BY <2>1, FieldTypes DEF NextOf
  <2>3. n # Null
    BY <2>2, DataTreeAssumption DEF DataTreeAssumption
  <2>4. w[n] = <<n>> \o w[h[n].next]
    BY <1>1, <2>2, <2>3, Zenon DEF Links
  <2>5. CASE h[n].next = Null
    <3>1. <<n>> \o <<>> = <<n>>
      <4>1. <<n>> \in Seq(Nodes)
        BY <2>2
      <4> QED BY <4>1, ConcatEmptySeq
    <3>2. Way(h, n, <<n>>)
      BY <2>2, <2>5, OneStepWay
    <3>3. w[n] = <<n>>
      BY <1>2, <2>4, <2>5, <3>1, Zenon
    <3> QED BY <2>1, <3>2, <3>3
  <2>6. CASE h[n].next \in Nodes
    <3>1. Way(h, h[n].next, w[h[n].next])
      BY <2>2, <2>6
    <3>2. Way(h, n, w[n])
      BY <2>2, <2>4, <2>6, <3>1, LongerWay
    <3> QED BY <2>1, <3>2
  <2> QED BY <2>2, <2>5, <2>6 DEF Links
<1> QED BY <1>2, <1>3 DEF w

(* The elements of a sequence.                                             *)
Elements(s) == {s[i] : i \in DOMAIN s}

(* The chain of a node is the way from its first member.                   *)
LEMMA ChainIsWay ==
  ASSUME NEW h, Good(h), NEW p \in Nodes
  PROVE  /\ h[p].first = Null => Chain(h, p) = <<>>
         /\ h[p].first # Null => h[p].first \in Nodes /\ Way(h, h[p].first, Chain(h, p))
  BY WalkIsWay, FieldTypes DEF Good, Acyclic, Chain, Links

(* On the way from the first member there are members, each behind the one *)
(* before it.                                                              *)
LEMMA ChainLinks ==
  ASSUME NEW h, Good(h), NEW p \in Nodes, NEW s, h[p].first # Null, Way(h, h[p].first, s)
  PROVE  \A i \in 1..Len(s) : /\ h[s[i]].parent = p
                              /\ h[s[i]].prev = IF i = 1 THEN Null ELSE s[i - 1]
<1>1. /\ s \in Seq(Nodes) /\ s # <<>> /\ s[1] = h[p].first
      /\ \A i \in 1..Len(s) : h[s[i]].next = IF i < Len(s) THEN s[i + 1] ELSE Null
  BY DEF Way
<1>2. Len(s) \in Nat \ {0} /\ \A i \in 1..Len(s) : s[i] \in Nodes
  BY <1>1, EmptySeq, ElementOfSeq
<1>3. Null \notin Nodes /\ p # Null
  BY DataTreeAssumption DEF DataTreeAssumption
<1>4. h[s[1]].parent = p /\ h[s[1]].prev = Null
  <2>1. h[s[1]].parent = p
    BY <1>1 DEF Good, Lists
  <2> QED BY <1>1, <1>2, <1>3, <2>1 DEF Good, Siblings
<1>5. \A i \in 1..Len(s) : i # 1 =>
         /\ i - 1 \in 1..Len(s)
         /\ h[s[i - 1]].next = s[i]
         /\ h[s[i]].prev = s[i - 1] /\ h[s[i]].parent = h[s[i - 1]].parent
  <2> TAKE i \in 1..Len(s)
  <2> HAVE i # 1
  <2>1. i - 1 \in 1..Len(s) /\ i - 1 < Len(s) /\ (i - 1) + 1 = i
    BY <1>2
  <2>2. h[s[i - 1]].next = s[i]
    BY <1>1, <2>1
  <2> QED BY <1>2, <1>3, <2>1, <2>2 DEF Good, Siblings
<1> DEFINE T == {i \in 1..Len(s) : h[s[i]].parent # p}
<1>6. ASSUME T # {} PROVE FALSE
  <2>1. T \in SUBSET Nat
    BY <1>2
  <2>2. PICK i \in T : \A j \in T : i <= j
    <3> HIDE DEF T
    <3> QED BY <1>6, <2>1, Least
  <2>3. i # 1
    BY <1>4, <2>2
  <2>4. i - 1 \in T
    BY <1>5, <2>2, <2>3
  <2>5. i \in Nat /\ i <= i - 1
    <3> HIDE DEF T
    <3> QED BY <2>1, <2>2, <2>4
  <2> QED BY <2>5
<1> QED BY <1>4, <1>5, <1>6

(* There are no others, and each is there once.                            *)
LEMMA ChainMembers ==
  ASSUME NEW h, Good(h), NEW p \in Nodes, NEW s, h[p].first # Null, Way(h, h[p].first, s)
  PROVE  /\ Elements(s) = Members(h, p)
         /\ \A i, j \in 1..Len(s) : s[i] = s[j] => i = j
         /\ h[p].last = s[Len(s)]
<1>1. /\ s \in Seq(Nodes) /\ s # <<>> /\ s[1] = h[p].first
      /\ \A i \in 1..Len(s) : h[s[i]].next = IF i < Len(s) THEN s[i + 1] ELSE Null
  BY DEF Way
<1>2. /\ Len(s) \in Nat \ {0} /\ DOMAIN s = 1..Len(s)
      /\ \A i \in 1..Len(s) : s[i] \in Nodes
  BY <1>1, EmptySeq, ElementOfSeq, LenProperties
<1>3. Null \notin Nodes /\ p # Null
  BY DataTreeAssumption DEF DataTreeAssumption
<1>4. \A i \in 1..Len(s) : /\ h[s[i]].parent = p
                           /\ h[s[i]].prev = IF i = 1 THEN Null ELSE s[i - 1]
  BY ChainLinks
<1>5. Elements(s) \subseteq Members(h, p)
  BY <1>2, <1>4 DEF Elements, Members
<1> DEFINE T == Members(h, p) \ Elements(s)
<1>6. ASSUME T # {} PROVE FALSE
  <2>1. T \in SUBSET Nodes
    BY DEF Members
  <2>2. PICK n \in T : PrevOf(h)[n] \notin T
    <3> HIDE DEF T
    <3> QED BY <1>6, <2>1 DEF Good, Acyclic, Ending
  <2>3. n \in Nodes /\ h[n].parent = p /\ n \notin Elements(s) /\ h[n].prev \notin T
    BY <2>1, <2>2 DEF Members, PrevOf
  <2>4. CASE h[n].prev = Null
    <3>1. h[p].first = n
      BY <1>3, <2>3, <2>4 DEF Good, Siblings
    <3> QED BY <1>1, <1>2, <2>3, <3>1 DEF Elements
  <2>5. CASE h[n].prev \in Nodes
    <3>1. h[h[n].prev].next = n /\ h[h[n].prev].parent = p
      BY <1>3, <2>3, <2>5 DEF Good, Siblings
    <3>2. h[n].prev \in Elements(s)
      BY <2>3, <2>5, <3>1 DEF Members
    <3>3. PICK i \in 1..Len(s) : s[i] = h[n].prev
      BY <1>2, <3>2 DEF Elements
    <3>4. i < Len(s) /\ s[i + 1] = n
      BY <1>1, <1>3, <2>3, <3>1, <3>3
    <3>5. i + 1 \in 1..Len(s)
      BY <1>2, <3>3, <3>4
    <3> QED BY <1>2, <2>3, <3>4, <3>5 DEF Elements
  <2>6. h[n].prev \in Links
    BY <2>3, FieldTypes DEF Good
  <2> QED BY <2>4, <2>5, <2>6 DEF Links
<1> DEFINE D == {i \in 1..Len(s) : \E j \in 1..Len(s) : i < j /\ s[i] = s[j]}
<1>7. ASSUME D # {} PROVE FALSE
  <2>1. D \in SUBSET Nat
    BY <1>2
  <2>2. PICK i \in D : \A k \in D : i <= k
    <3> HIDE DEF D
    <3> QED BY <1>7, <2>1, Least
  <2>3. PICK j \in 1..Len(s) : i < j /\ s[i] = s[j]
    BY <2>2
  <2>4. i \in 1..Len(s) /\ j # 1 /\ j - 1 \in 1..Len(s) /\ s[j - 1] \in Nodes
    <3>1. i \in 1..Len(s)
      BY <2>2
    <3>2. j # 1 /\ j - 1 \in 1..Len(s)
      BY <1>2, <2>3, <3>1
    <3> QED BY <1>2, <3>1, <3>2
  <2>5. i # 1 /\ s[i - 1] = s[j - 1]
    BY <1>3, <1>4, <2>3, <2>4
  <2>6. i - 1 \in 1..Len(s) /\ i - 1 < j - 1
    BY <1>2, <2>3, <2>4, <2>5
  <2>7. i - 1 \in D
    BY <2>4, <2>5, <2>6
  <2>8. i \in Nat /\ i <= i - 1
    <3> HIDE DEF D
    <3> QED BY <2>1, <2>2, <2>7
  <2> QED BY <2>8
<1>8. \A i, j \in 1..Len(s) : s[i] = s[j] => i = j
  <2> TAKE i, j \in 1..Len(s)
  <2>1. i \notin D /\ j \notin D
    BY <1>7
  <2>2. ~(i < j) => i = j \/ j < i
    BY <1>2
  <2> QED BY <2>1, <2>2
<1>9. h[p].last = s[Len(s)]
  <2>1. Len(s) \in 1..Len(s) /\ ~(Len(s) < Len(s))
    BY <1>2
  <2>2. h[s[Len(s)]].next = Null /\ h[s[Len(s)]].parent = p
    BY <1>1, <1>4, <2>1
  <2> QED BY <1>2, <1>3, <2>1, <2>2 DEF Good, Siblings
<1> QED BY <1>5, <1>6, <1>8, <1>9

(* A node without a first member has none.                                 *)
LEMMA NoMembers ==
  ASSUME NEW h, Good(h), NEW p \in Nodes, h[p].first = Null
  PROVE  Members(h, p) = {}
<1> DEFINE T == Members(h, p)
<1>1. ASSUME T # {} PROVE FALSE
  <2>1. T \in SUBSET Nodes
    BY DEF Members
  <2>2. PICK n \in T : PrevOf(h)[n] \notin T
    <3> HIDE DEF T
    <3> QED BY <1>1, <2>1 DEF Good, Acyclic, Ending
  <2>3. /\ n \in Nodes /\ h[n].parent = p /\ h[n].prev \notin T /\ h[n].prev \in Links
        /\ n # Null /\ p # Null
    BY <2>1, <2>2, FieldTypes, DataTreeAssumption DEF Members, PrevOf, Good, DataTreeAssumption
  <2>4. h[n].prev # Null
    BY <2>3 DEF Good, Siblings
  <2>5. h[n].prev \in Nodes /\ h[h[n].prev].parent = p
    BY <2>3, <2>4 DEF Good, Siblings, Links
  <2> QED BY <2>3, <2>5 DEF Members
<1> QED BY <1>1

(* The members of p in their order: each once, with the links to match.    *)
LEMMA ChainFacts ==
  ASSUME NEW h, Good(h), NEW p \in Nodes
  PROVE  LET s == Chain(h, p) IN
         /\ s \in Seq(Nodes)
         /\ Elements(s) = Members(h, p)
         /\ Len(s) = Cardinality(Members(h, p))
         /\ \A i, j \in 1..Len(s) : s[i] = s[j] => i = j
         /\ \A i \in 1..Len(s) : h[s[i]].prev = IF i = 1 THEN Null ELSE s[i - 1]
         /\ h[p].last = IF s = <<>> THEN Null ELSE s[Len(s)]
<1> DEFINE s == Chain(h, p)
<1>1. CASE h[p].first = Null
  <2>1. s = <<>>
    BY <1>1, ChainIsWay
  <2>2. /\ <<>> \in Seq(Nodes) /\ Len(<<>>) = 0 /\ DOMAIN <<>> = {}
    BY EmptySeq
  <2>3. Elements(<<>>) = {}
    BY <2>2 DEF Elements
  <2>4. Cardinality(Members(h, p)) = 0 /\ Members(h, p) = {}
    BY <1>1, NoMembers, FS_EmptySet
  <2>5. h[p].last = Null
    BY <1>1 DEF Good, Lists
  <2>6. 1..0 = {}
    OBVIOUS
  <2> HIDE DEF s
  <2>7. s \in Seq(Nodes) /\ Elements(s) = Members(h, p) /\ Len(s) = Cardinality(Members(h, p))
    BY <2>1, <2>2, <2>3, <2>4, Zenon
  <2>8. 1..Len(s) = {}
    BY <2>1, <2>2, <2>6, Zenon
  <2> QED BY <2>1, <2>5, <2>7, <2>8, Zenon DEF s
<1>2. CASE h[p].first # Null
  <2>1. Way(h, h[p].first, s)
    BY <1>2, ChainIsWay
  <2> HIDE DEF s
  <2>2. s \in Seq(Nodes) /\ s # <<>>
    BY <2>1 DEF Way
  <2>3. /\ Elements(s) = Members(h, p)
        /\ \A i, j \in 1..Len(s) : s[i] = s[j] => i = j
        /\ h[p].last = s[Len(s)]
    BY <1>2, <2>1, ChainMembers
  <2>4. \A i \in 1..Len(s) : h[s[i]].prev = IF i = 1 THEN Null ELSE s[i - 1]
    BY <1>2, <2>1, ChainLinks
  <2>5. Len(s) = Cardinality(Members(h, p))
    <3>1. Len(s) \in Nat /\ DOMAIN s = 1..Len(s) /\ s \in [1..Len(s) -> Nodes]
      BY <2>2, LenProperties
    <3>2. s \in [1..Len(s) -> Elements(s)]
      BY <3>1 DEF Elements
    <3>3. s \in Bijection(1..Len(s), Elements(s))
      BY <2>3, <3>1, <3>2 DEF Bijection, Injection, Surjection, IsInjective, Elements
    <3>4. ExistsBijection(1..Len(s), Elements(s))
      BY <3>3 DEF ExistsBijection
    <3> QED BY <2>3, <3>1, <3>4, FS_CountingElements
  <2> QED BY <2>2, <2>3, <2>4, <2>5 DEF s
<1> QED BY <1>1, <1>2

(***************************************************************************)
(* What is below a node.                                                   *)
(***************************************************************************)

(* The links of R do not lead out of it.                                   *)
Closed(h, R) == \A m \in R : {h[m].first, h[m].next} \subseteq R \cup {Null}

(* Reach is the least closed set that holds where it starts.               *)
LEMMA ReachFacts ==
  ASSUME NEW h, HeapType(h), NEW n \in Links
  PROVE  /\ Reach(h, {n}) \in SUBSET Nodes /\ {n} \ {Null} \subseteq Reach(h, {n})
         /\ Closed(h, Reach(h, {n}))
         /\ \A R \in SUBSET Nodes : Closed(h, R) /\ n \in R \cup {Null} => Reach(h, {n}) \subseteq R
<1> DEFINE LinkedTo(R) == {h[m].first : m \in R} \cup {h[m].next : m \in R}
           Q == Reach(h, {n})
<1>1. Q = {m \in Nodes : \A R \in SUBSET Nodes : {n} \cup LinkedTo(R) \subseteq R \cup {Null} => m \in R}
  BY DEF Reach
<1>2. ASSUME NEW R \in SUBSET Nodes
      PROVE  {n} \cup LinkedTo(R) \subseteq R \cup {Null} <=> Closed(h, R) /\ n \in R \cup {Null}
  BY DEF Closed
<1> HIDE DEF LinkedTo, Q
<1>3. Q = {m \in Nodes : \A R \in SUBSET Nodes : Closed(h, R) /\ n \in R \cup {Null} => m \in R}
  BY <1>1, <1>2
<1>4. Q \in SUBSET Nodes
  BY <1>3
<1>5. {n} \ {Null} \subseteq Q
  BY <1>3 DEF Links
<1>6. ASSUME NEW m \in Q, NEW k \in {h[m].first, h[m].next}
      PROVE  k \in Q \cup {Null}
  <2>1. k \in Links
    BY <1>4, <1>6, FieldTypes
  <2>2. ASSUME NEW R \in SUBSET Nodes, Closed(h, R), n \in R \cup {Null}, k # Null PROVE k \in R
    <3>1. m \in R
      BY <1>3, <2>2
    <3> QED BY <1>6, <2>2, <3>1 DEF Closed
  <2> QED BY <1>3, <2>1, <2>2 DEF Links
<1>7. Closed(h, Q)
  BY <1>6 DEF Closed
<1>8. \A R \in SUBSET Nodes : Closed(h, R) /\ n \in R \cup {Null} => Q \subseteq R
  BY <1>3
<1> QED BY <1>4, <1>5, <1>7, <1>8 DEF Q

(* The nodes below c are those whose parents are c or below it; c is not.   *)
LEMMA ReachIsBelow ==
  ASSUME NEW h, Good(h), NEW c \in Nodes
  PROVE  LET Q == Reach(h, {h[c].first}) IN
         /\ Q \in SUBSET Nodes /\ c \notin Q
         /\ \A m \in Nodes : m \in Q <=> h[m].parent \in Q \cup {c}
<1> DEFINE Q == Reach(h, {h[c].first})
<1>1. /\ Q \in SUBSET Nodes /\ {h[c].first} \ {Null} \subseteq Q /\ Closed(h, Q)
      /\ \A R \in SUBSET Nodes : Closed(h, R) /\ h[c].first \in R \cup {Null} => Q \subseteq R
  <2>1. HeapType(h) /\ h[c].first \in Links
    BY FieldTypes DEF Good
  <2> QED BY <2>1, ReachFacts
<1> HIDE DEF Q
<1>2. Null \notin Nodes /\ c # Null
  BY DataTreeAssumption DEF DataTreeAssumption
<1>3. \A m \in Q : h[m].parent \in Q \cup {c}
  <2> DEFINE R == {m \in Q : h[m].parent \in Q \cup {c}}
  <2>1. h[c].first \in R \cup {Null}
    BY <1>1, <1>2 DEF Good, Lists
  <2>2. ASSUME NEW m \in R PROVE h[m].first \in R \cup {Null} /\ h[m].next \in R \cup {Null}
    <3>1. m \in Q /\ m \in Nodes /\ h[m].parent \in Q \cup {c}
      BY <1>1, <2>2
    <3>2. h[m].first \in Q \cup {Null} /\ h[m].next \in Q \cup {Null}
      BY <1>1, <3>1 DEF Closed
    <3>3. h[m].first # Null => h[h[m].first].parent = m
      BY <3>1 DEF Good, Lists
    <3>4. h[m].next # Null => h[h[m].next].parent = h[m].parent
      BY <3>1 DEF Good, Siblings
    <3> QED BY <3>1, <3>2, <3>3, <3>4
  <2>3. R \in SUBSET Nodes /\ Closed(h, R)
    BY <1>1, <2>2 DEF Closed
  <2>4. Q \subseteq R
    <3> HIDE DEF R
    <3> QED BY <1>1, <2>1, <2>3
  <2> QED BY <2>4
<1>4. c \notin Q
  <2>1. ASSUME c \in Q PROVE FALSE
    <3>1. PICK m \in Q : ParentOf(h)[m] \notin Q
      BY <1>1, <2>1 DEF Good, Acyclic, Ending
    <3> QED BY <1>1, <1>3, <2>1, <3>1 DEF ParentOf
  <2> QED BY <2>1
<1>5. ASSUME NEW p \in Q \cup {c} PROVE Members(h, p) \subseteq Q
  <2> DEFINE T == Members(h, p) \ Q
  <2>1. T \in SUBSET Nodes
    BY DEF Members
  <2>2. ASSUME T # {} PROVE FALSE
    <3>1. PICK n \in T : PrevOf(h)[n] \notin T
      <4> HIDE DEF T
      <4> QED BY <2>1, <2>2 DEF Good, Acyclic, Ending
    <3>2. /\ n \in Nodes /\ h[n].parent = p /\ n \notin Q /\ h[n].prev \notin T
          /\ h[n].prev \in Links /\ n # Null /\ p # Null /\ p \in Nodes
      BY <1>1, <1>2, <3>1, FieldTypes DEF Members, PrevOf, Good
    <3>3. CASE h[n].prev = Null
      <4>1. h[p].first = n
        BY <3>2, <3>3 DEF Good, Siblings
      <4> QED BY <1>1, <3>2, <4>1 DEF Closed
    <3>4. CASE h[n].prev \in Nodes
      <4>1. h[h[n].prev].next = n /\ h[h[n].prev].parent = p
        BY <1>2, <3>2, <3>4 DEF Good, Siblings
      <4>2. h[n].prev \in Q
        BY <3>2, <3>4, <4>1 DEF Members
      <4> QED BY <1>1, <3>2, <4>1, <4>2 DEF Closed
    <3> QED BY <3>2, <3>3, <3>4 DEF Links
  <2> QED BY <2>2
<1>6. \A m \in Nodes : h[m].parent \in Q \cup {c} => m \in Q
  BY <1>5 DEF Members
<1> QED BY <1>1, <1>3, <1>4, <1>6 DEF Q

(* A subtree has the members of its nodes and, but for its root, the parents. *)
LEMMA SubtreeFacts ==
  ASSUME NEW h, Good(h), NEW c \in Nodes
  PROVE  LET S == Subtree(h, c) IN
         /\ S \in SUBSET Nodes /\ c \in S /\ h[c].parent \notin S
         /\ \A m \in Nodes : h[m].parent \in S => m \in S
         /\ \A m \in S : m = c \/ h[m].parent \in S
<1> DEFINE Q == Reach(h, {h[c].first})
<1>1. /\ Q \in SUBSET Nodes /\ c \notin Q
      /\ \A m \in Nodes : m \in Q <=> h[m].parent \in Q \cup {c}
  BY ReachIsBelow
<1>2. Subtree(h, c) = {c} \cup Q
  BY DEF Subtree
<1> HIDE DEF Q
<1> QED BY <1>1, <1>2

(* When links to parents are only taken away, nothing new gets below c.     *)
LEMMA SubtreeShrinks ==
  ASSUME NEW h, Good(h), NEW g, Good(g), NEW c \in Nodes,
         \A m \in Nodes : g[m].parent \in {h[m].parent, Null}
  PROVE  Subtree(g, c) \subseteq Subtree(h, c)
<1> DEFINE S == Subtree(h, c)
           U == Subtree(g, c)
           T == U \ S
<1>1. /\ S \in SUBSET Nodes /\ c \in S
      /\ \A m \in Nodes : h[m].parent \in S => m \in S
  BY SubtreeFacts
<1>2. U \in SUBSET Nodes /\ \A m \in U : m = c \/ g[m].parent \in U
  BY SubtreeFacts
<1> HIDE DEF S, U
<1>3. ASSUME T # {} PROVE FALSE
  <2>1. T \in SUBSET Nodes
    BY <1>2
  <2>2. PICK n \in T : ParentOf(g)[n] \notin T
    <3> HIDE DEF T
    <3> QED BY <1>3, <2>1 DEF Good, Acyclic, Ending
  <2>3. n \in U /\ n \notin S /\ n \in Nodes /\ g[n].parent \notin T
    BY <2>1, <2>2 DEF ParentOf
  <2>4. g[n].parent \in U
    BY <1>1, <1>2, <2>3
  <2>5. g[n].parent = h[n].parent
    BY <1>2, <2>3, <2>4, DataTreeAssumption DEF DataTreeAssumption
  <2> QED BY <1>1, <2>3, <2>4, <2>5
<1> QED BY <1>3 DEF S, U

(***************************************************************************)
(* What the invariant says is that the nodes are trees.                    *)
(***************************************************************************)
LEMMA GoodIsWellFormed == IInv => WellFormed
<1> SUFFICES ASSUME IInv PROVE WellFormed
  OBVIOUS
<1>1. TypeOK
  BY DEF IInv, Good, HeapType, TypeOK
<1>2. Good(heap) /\ Null \notin Nodes
  BY DataTreeAssumption DEF IInv, DataTreeAssumption
<1>3. ASSUME NEW p \in Nodes, NEW s, s = Chain(heap, p)
      PROVE  /\ {s[i] : i \in DOMAIN s} = {n \in Live(heap) : heap[n].parent = p}
             /\ Len(s) = heap[p].count
             /\ \A i \in DOMAIN s : heap[s[i]].prev = IF i = 1 THEN Null ELSE s[i - 1]
             /\ heap[p].last = IF s = <<>> THEN Null ELSE s[Len(s)]
             /\ heap[p].current \in {Null} \cup {s[i] : i \in DOMAIN s}
             /\ p \notin Reach(heap, {heap[p].first})
             /\ s # <<>> => heap[p].type \in Containers
  <2>1. /\ s \in Seq(Nodes)
        /\ Elements(s) = Members(heap, p)
        /\ Len(s) = Cardinality(Members(heap, p))
        /\ \A i \in 1..Len(s) : heap[s[i]].prev = IF i = 1 THEN Null ELSE s[i - 1]
        /\ heap[p].last = IF s = <<>> THEN Null ELSE s[Len(s)]
    BY <1>2, <1>3, ChainFacts
  <2>2. DOMAIN s = 1..Len(s)
    BY <2>1, LenProperties
  <2>3. Members(heap, p) = {n \in Live(heap) : heap[n].parent = p}
    <3>1. \A n \in Nodes : heap[n].parent = p => heap[n].type # "free"
      BY <1>2 DEF Good, Siblings
    <3> QED BY <3>1 DEF Members, Live
  <2>4. {s[i] : i \in DOMAIN s} = Members(heap, p)
    BY <2>1 DEF Elements
  <2>5. Len(s) = heap[p].count
    BY <1>2, <2>1 DEF Good, Counted
  <2>6. heap[p].current \in {Null} \cup Members(heap, p)
    BY <1>2, FieldTypes DEF Good, Lists, Members, Links
  <2>7. p \notin Reach(heap, {heap[p].first})
    BY <1>2, ReachIsBelow
  <2>8. ASSUME s # <<>> PROVE heap[p].type \in Containers
    <3>1. Len(s) \in Nat \ {0}
      BY <2>1, <2>8, EmptySeq
    <3>2. s[1] \in Members(heap, p)
      BY <2>2, <2>4, <3>1
    <3> QED BY <1>2, <3>2 DEF Members, Good, Siblings
  <2> QED BY <2>1, <2>2, <2>3, <2>4, <2>5, <2>6, <2>7, <2>8
<1>4. LinksAgree
  BY <1>3, Zenon DEF LinksAgree
<1>5. ASSUME NEW p \in Nodes, heap[p].type = "struct", NEW s, s = Chain(heap, p),
             NEW i \in DOMAIN s, NEW j \in DOMAIN s
      PROVE  heap[s[i]].name # NoName /\ (heap[s[i]].name = heap[s[j]].name => i = j)
  <2>1. /\ s \in Seq(Nodes) /\ Elements(s) = Members(heap, p)
        /\ \A k, l \in 1..Len(s) : s[k] = s[l] => k = l
    BY <1>2, <1>5, ChainFacts
  <2>2. DOMAIN s = 1..Len(s)
    BY <2>1, LenProperties
  <2>3. s[i] \in Members(heap, p) /\ s[j] \in Members(heap, p)
    BY <2>1 DEF Elements
  <2>4. /\ heap[s[i]].name # NoName
        /\ heap[s[i]].name = heap[s[j]].name => s[i] = s[j]
    BY <1>2, <1>5, <2>3 DEF Members, Good, Named
  <2> QED BY <2>1, <2>2, <2>4
<1>6. NamesUnique
  <2> SUFFICES ASSUME NEW p \in Nodes, heap[p].type = "struct",
                      NEW i \in DOMAIN Chain(heap, p), NEW j \in DOMAIN Chain(heap, p)
               PROVE  /\ heap[Chain(heap, p)[i]].name # NoName
                      /\ heap[Chain(heap, p)[i]].name = heap[Chain(heap, p)[j]].name => i = j
    BY Zenon DEF NamesUnique
  <2>1. PICK s : s = Chain(heap, p)
    OBVIOUS
  <2>2. i \in DOMAIN s /\ j \in DOMAIN s
    BY <2>1
  <2>3. heap[s[i]].name # NoName /\ (heap[s[i]].name = heap[s[j]].name => i = j)
    BY <1>5, <2>1, <2>2
  <2> QED BY <2>1, <2>3
<1> QED BY <1>1, <1>4, <1>6 DEF WellFormed

(***************************************************************************)
(* Changes of links after which whoever follows them still gets to an end.  *)
(***************************************************************************)

(* Some links are taken away, or lead past c to where c led.                *)
LEMMA SkippingEnds ==
  ASSUME NEW f \in [Nodes -> Links], Ending(f), NEW g \in [Nodes -> Links], NEW c \in Nodes,
         \A n \in Nodes : \/ g[n] \in {f[n], Null}
                          \/ f[n] = c /\ g[n] = f[c]
  PROVE  Ending(g)
<1>1. SUFFICES ASSUME NEW T \in SUBSET Nodes, T # {}, \A n \in T : g[n] \in T PROVE FALSE
  BY DEF Ending
<1>2. Null \notin T
  BY DataTreeAssumption DEF DataTreeAssumption
<1>3. \A n \in T : f[n] \in T \/ (f[n] = c /\ f[c] \in T)
  BY <1>1, <1>2
<1>4. CASE \A n \in T : f[n] \in T
  BY <1>1, <1>4 DEF Ending
<1>5. CASE \E n \in T : f[n] \notin T
  <2>1. T \cup {c} \in SUBSET Nodes /\ \A n \in T \cup {c} : f[n] \in T \cup {c}
    BY <1>3, <1>5
  <2> QED BY <2>1 DEF Ending
<1> QED BY <1>4, <1>5

(* Links are led over c, to which none led before.                          *)
LEMMA SplicingEnds ==
  ASSUME NEW f \in [Nodes -> Links], Ending(f), NEW g \in [Nodes -> Links], NEW c \in Nodes,
         g[c] # c,
         \A n \in Nodes \ {c} : /\ f[n] # c
                                /\ \/ g[n] = f[n]
                                   \/ g[n] = c /\ g[c] \in {f[n], Null}
  PROVE  Ending(g)
<1>1. SUFFICES ASSUME NEW T \in SUBSET Nodes, T # {}, \A n \in T : g[n] \in T PROVE FALSE
  BY DEF Ending
<1>2. Null \notin T
  BY DataTreeAssumption DEF DataTreeAssumption
<1>3. T \ {c} \in SUBSET Nodes /\ T \ {c} # {}
  BY <1>1
<1>4. \A n \in T \ {c} : f[n] \in T \ {c}
  BY <1>1, <1>2
<1> QED BY <1>3, <1>4 DEF Ending

(* p is not below c.                                                       *)
Apart(h, p, c) ==
  \E S \in SUBSET Nodes : /\ c \in S /\ p \notin S
                          /\ \A n \in Nodes : h[n].parent \in S => n \in S

(* c gets the parent p, which is not below it.                             *)
LEMMA GraftingEnds ==
  ASSUME NEW h, HeapType(h), Ending(ParentOf(h)), NEW g \in [Nodes -> Links],
         NEW c \in Nodes, NEW p \in Nodes, Apart(h, p, c),
         \A n \in Nodes \ {c} : g[n] = h[n].parent, g[c] = p
  PROVE  Ending(g)
<1>1. SUFFICES ASSUME NEW T \in SUBSET Nodes, T # {}, \A n \in T : g[n] \in T PROVE FALSE
  BY DEF Ending
<1>2. PICK S \in SUBSET Nodes : /\ c \in S /\ p \notin S
                                /\ \A n \in Nodes : h[n].parent \in S => n \in S
  BY DEF Apart
<1>3. CASE c \notin T
  <2>1. \A n \in T : ParentOf(h)[n] \in T
    BY <1>1, <1>3 DEF ParentOf
  <2> QED BY <1>1, <2>1 DEF Ending
<1>4. CASE c \in T
  <2>1. p \in T \ S
    BY <1>1, <1>2, <1>4
  <2>2. \A n \in T \ S : ParentOf(h)[n] \in T \ S
    BY <1>1, <1>2 DEF ParentOf
  <2>3. T \ S \in SUBSET Nodes
    OBVIOUS
  <2> QED BY <2>1, <2>2, <2>3 DEF Ending
<1> QED BY <1>3, <1>4

(* The links as functions.                                                 *)
LEMMA LinkFunctions ==
  ASSUME NEW h, HeapType(h)
  PROVE  /\ NextOf(h) \in [Nodes -> Links] /\ PrevOf(h) \in [Nodes -> Links]
         /\ ParentOf(h) \in [Nodes -> Links]
         /\ \A n \in Nodes : /\ NextOf(h)[n] = h[n].next /\ PrevOf(h)[n] = h[n].prev
                             /\ ParentOf(h)[n] = h[n].parent
  BY FieldTypes DEF NextOf, PrevOf, ParentOf

(* The members of a node can be counted.                                   *)
LEMMA MembersFinite ==
  ASSUME NEW h, NEW p
  PROVE  /\ Members(h, p) \in SUBSET Nodes /\ IsFiniteSet(Members(h, p))
         /\ Cardinality(Members(h, p)) \in Nat
<1>1. Members(h, p) \in SUBSET Nodes
  BY DEF Members
<1>2. IsFiniteSet(Nodes)
  BY DataTreeAssumption DEF DataTreeAssumption
<1>3. IsFiniteSet(Members(h, p))
  BY <1>1, <1>2, FS_Subset
<1> QED BY <1>1, <1>3, FS_CardinalityType

(***************************************************************************)
(* remove(): Unlink.                                                       *)
(***************************************************************************)

(* Two heaps agree on what no link is about.                                *)
SameData(h, g) == \A n \in Nodes : g[n].type = h[n].type /\ g[n].name = h[n].name

(* What remove() writes, field by field.                                   *)
LEMMA UnlinkFields ==
  ASSUME NEW h, HeapType(h), NEW c \in Nodes, h[c].parent # Null, NEW g, g = Unlink(h, c)
  PROVE  /\ SameData(h, g)
         /\ \A n \in Nodes :
              /\ g[n].parent = IF n = c THEN Null ELSE h[n].parent
              /\ g[n].next = IF n = c THEN Null
                             ELSE IF n = h[c].prev THEN h[c].next ELSE h[n].next
              /\ g[n].prev = IF n = c THEN Null
                             ELSE IF n = h[c].next THEN h[c].prev ELSE h[n].prev
              /\ g[n].first = IF n = h[c].parent /\ h[n].first = c THEN h[c].next ELSE h[n].first
              /\ g[n].last = IF n = h[c].parent /\ h[n].last = c THEN h[c].prev ELSE h[n].last
              /\ g[n].current = IF n = h[c].parent /\ h[n].current = c THEN h[c].prev
                                ELSE h[n].current
              /\ g[n].count = IF n = h[c].parent THEN h[n].count - 1 ELSE h[n].count
         /\ (h[h[c].parent].count > 0 => HeapType(g))
<1> DEFINE e(n) == [h[n] EXCEPT
          !.parent = IF n = c THEN Null ELSE @,
          !.next = IF n = c THEN Null ELSE IF n = h[c].prev THEN h[c].next ELSE @,
          !.prev = IF n = c THEN Null ELSE IF n = h[c].next THEN h[c].prev ELSE @,
          !.first = IF n = h[c].parent /\ @ = c THEN h[c].next ELSE @,
          !.last = IF n = h[c].parent /\ @ = c THEN h[c].prev ELSE @,
          !.current = IF n = h[c].parent /\ @ = c THEN h[c].prev ELSE @,
          !.count = IF n = h[c].parent THEN @ - 1 ELSE @]
<1>1. g = [n \in Nodes |-> e(n)]
  BY Zenon DEF Unlink
<1>2. ASSUME NEW n \in Nodes
      PROVE  /\ e(n).type = h[n].type /\ e(n).name = h[n].name
             /\ e(n).parent = IF n = c THEN Null ELSE h[n].parent
             /\ e(n).next = IF n = c THEN Null
                            ELSE IF n = h[c].prev THEN h[c].next ELSE h[n].next
             /\ e(n).prev = IF n = c THEN Null
                            ELSE IF n = h[c].next THEN h[c].prev ELSE h[n].prev
             /\ e(n).first = IF n = h[c].parent /\ h[n].first = c THEN h[c].next ELSE h[n].first
             /\ e(n).last = IF n = h[c].parent /\ h[n].last = c THEN h[c].prev ELSE h[n].last
             /\ e(n).current = IF n = h[c].parent /\ h[n].current = c THEN h[c].prev
                               ELSE h[n].current
             /\ e(n).count = IF n = h[c].parent THEN h[n].count - 1 ELSE h[n].count
  BY DEF HeapType
<1>3. ASSUME h[h[c].parent].count > 0 PROVE HeapType(g)
  <2>1. ASSUME NEW n \in Nodes
        PROVE  e(n) \in [type : Types, name : Names \cup {NoName}, parent : Links,
                         next : Links, prev : Links, first : Links, last : Links,
                         current : Links, count : Nat]
    <3>1. h[c].next \in Links /\ h[c].prev \in Links /\ Null \in Links
      BY FieldTypes DEF Links
    <3>2. (IF n = h[c].parent THEN h[n].count - 1 ELSE h[n].count) \in Nat
      BY <1>3, FieldTypes
    <3>3. h[n] \in [type : Types, name : Names \cup {NoName}, parent : Links,
                    next : Links, prev : Links, first : Links, last : Links,
                    current : Links, count : Nat]
      BY DEF HeapType
    <3> DEFINE parent == IF n = c THEN Null ELSE h[n].parent
               next == IF n = c THEN Null ELSE IF n = h[c].prev THEN h[c].next ELSE h[n].next
               prev == IF n = c THEN Null ELSE IF n = h[c].next THEN h[c].prev ELSE h[n].prev
               first == IF n = h[c].parent /\ h[n].first = c THEN h[c].next ELSE h[n].first
               last == IF n = h[c].parent /\ h[n].last = c THEN h[c].prev ELSE h[n].last
               current == IF n = h[c].parent /\ h[n].current = c THEN h[c].prev
                          ELSE h[n].current
               count == IF n = h[c].parent THEN h[n].count - 1 ELSE h[n].count
    <3>4. /\ parent \in Links /\ next \in Links /\ prev \in Links
          /\ first \in Links /\ last \in Links /\ current \in Links
      BY <3>1, FieldTypes
    <3>5. count \in Nat
      BY <3>2
    <3>6. e(n) = [h[n] EXCEPT !.parent = parent, !.next = next, !.prev = prev, !.first = first,
                              !.last = last, !.current = current, !.count = count]
      OBVIOUS
    <3> HIDE DEF e, parent, next, prev, first, last, current, count
    <3> QED BY <3>3, <3>4, <3>5, <3>6
  <2> HIDE DEF e
  <2> QED BY <1>1, <2>1 DEF HeapType
<1> HIDE DEF e
<1> QED BY <1>1, <1>2, <1>3 DEF SameData

(* The parents in g are those in h, but c has none.                         *)
Orphaned(h, c, g) == \A n \in Nodes : g[n].parent = IF n = c THEN Null ELSE h[n].parent

(* A node that has left its parent leaves a heap that is in order.          *)
LEMMA UnlinkKeeps ==
  ASSUME NEW h, Good(h), NEW c \in Nodes, NEW g, g = Unlink(h, c)
  PROVE  Good(g) /\ SameData(h, g) /\ Orphaned(h, c, g)
<1>1. CASE h[c].parent = Null
  BY <1>1, Zenon DEF Unlink, SameData, Orphaned
<1>2. CASE h[c].parent # Null
  <2> DEFINE p == h[c].parent
             b == h[c].prev
             a == h[c].next
  <2>1. /\ Null \notin Nodes /\ p \in Nodes /\ b \in Links /\ a \in Links
        /\ HeapType(h) /\ c # Null
    BY <1>2, FieldTypes, DataTreeAssumption DEF Good, Links, DataTreeAssumption
  <2>2. h[p].count = Cardinality(Members(h, p)) /\ c \in Members(h, p)
    BY <2>1 DEF Good, Counted, Members
  <2>3. /\ IsFiniteSet(Members(h, p)) /\ h[p].count \in Nat
        /\ Cardinality(Members(h, p) \ {c}) = h[p].count - 1
        /\ h[p].count > 0
    <3>1. IsFiniteSet(Members(h, p)) /\ h[p].count \in Nat
      BY <2>2, MembersFinite
    <3>2. Cardinality(Members(h, p) \ {c}) = h[p].count - 1
      BY <2>2, <3>1, FS_RemoveElement
    <3>3. h[p].count # 0
      BY <2>2, <3>1, FS_EmptySet
    <3> QED BY <3>1, <3>2, <3>3
  <2>4. /\ SameData(h, g) /\ HeapType(g)
        /\ \A n \in Nodes :
              /\ g[n].parent = IF n = c THEN Null ELSE h[n].parent
              /\ g[n].next = IF n = c THEN Null ELSE IF n = b THEN a ELSE h[n].next
              /\ g[n].prev = IF n = c THEN Null ELSE IF n = a THEN b ELSE h[n].prev
              /\ g[n].first = IF n = p /\ h[n].first = c THEN a ELSE h[n].first
              /\ g[n].last = IF n = p /\ h[n].last = c THEN b ELSE h[n].last
              /\ g[n].current = IF n = p /\ h[n].current = c THEN b ELSE h[n].current
              /\ g[n].count = IF n = p THEN h[n].count - 1 ELSE h[n].count
    BY <1>2, <2>1, <2>3, UnlinkFields
  <2> HIDE DEF p, a, b
  <2>5. a # c /\ b # c
    <3>1. {c} \in SUBSET Nodes /\ {c} # {}
      OBVIOUS
    <3>2. NextOf(h)[c] \notin {c} /\ PrevOf(h)[c] \notin {c}
      BY <3>1 DEF Good, Acyclic, Ending
    <3> QED BY <3>2 DEF NextOf, PrevOf, a, b
  <2>6. /\ a # Null => h[a].prev = c /\ h[a].parent = p
        /\ b # Null => h[b].next = c /\ h[b].parent = p
        /\ b = Null <=> h[p].first = c
        /\ a = Null <=> h[p].last = c
    BY <1>2 DEF Good, Siblings, p, a, b
  <2>7. Siblings(g)
    <3>1. ASSUME NEW n \in Nodes, g[n].next # Null
          PROVE  g[g[n].next].prev = n /\ g[g[n].next].parent = g[n].parent
      <4>1. CASE n = b
        BY <2>1, <2>4, <2>5, <2>6, <3>1, <4>1 DEF Links
      <4>2. CASE n # b
        <5>1. n # c /\ g[n].next = h[n].next /\ h[n].next \in Nodes
          BY <2>1, <2>4, <3>1, <4>2, FieldTypes DEF Links
        <5>2. h[h[n].next].prev = n /\ h[h[n].next].parent = h[n].parent
          BY <2>1, <5>1 DEF Good, Siblings
        <5>3. h[n].next # c /\ h[n].next # a
          BY <2>1, <2>6, <4>2, <5>1, <5>2 DEF b
        <5> QED BY <2>4, <5>1, <5>2, <5>3
      <4> QED BY <4>1, <4>2
    <3>2. ASSUME NEW n \in Nodes, g[n].prev # Null
          PROVE  g[g[n].prev].next = n /\ g[g[n].prev].parent = g[n].parent
      <4>1. CASE n = a
        BY <2>1, <2>4, <2>5, <2>6, <3>2, <4>1 DEF Links
      <4>2. CASE n # a
        <5>1. n # c /\ g[n].prev = h[n].prev /\ h[n].prev \in Nodes
          BY <2>1, <2>4, <3>2, <4>2, FieldTypes DEF Links
        <5>2. h[h[n].prev].next = n /\ h[h[n].prev].parent = h[n].parent
          BY <2>1, <5>1 DEF Good, Siblings
        <5>3. h[n].prev # c /\ h[n].prev # b
          BY <2>1, <2>6, <4>2, <5>1, <5>2 DEF a
        <5> QED BY <2>4, <5>1, <5>2, <5>3
      <4> QED BY <4>1, <4>2
    <3>3. ASSUME NEW n \in Nodes, g[n].parent = Null
          PROVE  g[n].next = Null /\ g[n].prev = Null
      <4>1. n # c => h[n].parent = Null
        BY <2>4, <3>3
      <4>2. n # c => h[n].next = Null /\ h[n].prev = Null /\ n # b /\ n # a
        BY <2>1, <2>6, <4>1 DEF Good, Siblings
      <4> QED BY <2>4, <4>2
    <3>4. ASSUME NEW n \in Nodes, g[n].parent # Null
          PROVE  /\ g[g[n].parent].type \in Containers
                 /\ g[n].prev = Null <=> g[g[n].parent].first = n
                 /\ g[n].next = Null <=> g[g[n].parent].last = n
                 /\ g[n].type # "free"
      <4>1. n # c /\ g[n].parent = h[n].parent /\ h[n].parent \in Nodes
        BY <2>1, <2>4, <3>4, FieldTypes DEF Links
      <4> DEFINE q == h[n].parent
      <4>2. /\ h[q].type \in Containers
            /\ h[n].prev = Null <=> h[q].first = n
            /\ h[n].next = Null <=> h[q].last = n
            /\ h[n].type # "free"
        BY <2>1, <4>1 DEF Good, Siblings
      <4>3. g[q].type \in Containers /\ g[n].type # "free"
        BY <2>4, <4>1, <4>2 DEF SameData
      <4> HIDE DEF q
      <4>4. g[n].prev = Null <=> g[q].first = n
        <5>1. CASE q # p
          BY <2>1, <2>4, <2>6, <4>1, <4>2, <5>1 DEF q
        <5>2. CASE q = p /\ n = a
          BY <2>1, <2>4, <2>6, <4>1, <4>2, <5>2
        <5>3. CASE q = p /\ n # a
          BY <2>1, <2>4, <2>6, <4>1, <4>2, <5>3
        <5> QED BY <5>1, <5>2, <5>3
      <4>5. g[n].next = Null <=> g[q].last = n
        <5>1. CASE q # p
          BY <2>1, <2>4, <2>6, <4>1, <4>2, <5>1 DEF q
        <5>2. CASE q = p /\ n = b
          BY <2>1, <2>4, <2>6, <4>1, <4>2, <5>2
        <5>3. CASE q = p /\ n # b
          BY <2>1, <2>4, <2>6, <4>1, <4>2, <5>3
        <5> QED BY <5>1, <5>2, <5>3
      <4> QED BY <4>1, <4>3, <4>4, <4>5 DEF q
    <3> QED BY <3>1, <3>2, <3>3, <3>4 DEF Siblings
  <2>8. Lists(g)
    <3> SUFFICES ASSUME NEW q \in Nodes
                 PROVE  /\ g[q].first # Null => g[g[q].first].parent = q
                        /\ g[q].last # Null => g[g[q].last].parent = q
                        /\ g[q].current # Null => g[g[q].current].parent = q
                        /\ g[q].first = Null <=> g[q].last = Null
      BY DEF Lists
    <3>1. /\ h[q].first # Null => h[h[q].first].parent = q
          /\ h[q].last # Null => h[h[q].last].parent = q
          /\ h[q].current # Null => h[h[q].current].parent = q
          /\ h[q].first = Null <=> h[q].last = Null
          /\ h[q].first \in Links /\ h[q].last \in Links /\ h[q].current \in Links
      BY <2>1, FieldTypes DEF Good, Lists
    <3>2. h[c].parent = p
      BY DEF p
    <3>3. CASE q # p
      BY <2>1, <2>4, <3>1, <3>2, <3>3 DEF Links
    <3>4. CASE q = p
      BY <2>1, <2>4, <2>5, <2>6, <3>1, <3>2, <3>4 DEF Links
    <3> QED BY <3>3, <3>4
  <2>9. Counted(g)
    <3>1. Members(g, p) = Members(h, p) \ {c}
      BY <2>1, <2>4 DEF Members
    <3>2. \A q \in Nodes \ {p} : Members(g, q) = Members(h, q)
      BY <2>1, <2>4 DEF Members, p
    <3>3. g[p].count = Cardinality(Members(g, p))
      BY <2>1, <2>3, <2>4, <3>1
    <3>4. \A q \in Nodes \ {p} : g[q].count = Cardinality(Members(g, q))
      BY <2>4, <3>2 DEF Good, Counted
    <3> QED BY <3>3, <3>4 DEF Counted
  <2>10. Acyclic(g)
    <3>1. /\ NextOf(h) \in [Nodes -> Links] /\ PrevOf(h) \in [Nodes -> Links]
          /\ ParentOf(h) \in [Nodes -> Links]
          /\ \A n \in Nodes : /\ NextOf(h)[n] = h[n].next /\ PrevOf(h)[n] = h[n].prev
                              /\ ParentOf(h)[n] = h[n].parent
          /\ NextOf(g) \in [Nodes -> Links] /\ PrevOf(g) \in [Nodes -> Links]
          /\ ParentOf(g) \in [Nodes -> Links]
          /\ \A n \in Nodes : /\ NextOf(g)[n] = g[n].next /\ PrevOf(g)[n] = g[n].prev
                              /\ ParentOf(g)[n] = g[n].parent
      BY <2>1, <2>4, LinkFunctions
    <3>2. Ending(NextOf(h)) /\ Ending(PrevOf(h)) /\ Ending(ParentOf(h))
      BY DEF Good, Acyclic
    <3>3. \A n \in Nodes : /\ \/ NextOf(g)[n] \in {NextOf(h)[n], Null}
                              \/ NextOf(h)[n] = c /\ NextOf(g)[n] = NextOf(h)[c]
                           /\ \/ PrevOf(g)[n] \in {PrevOf(h)[n], Null}
                              \/ PrevOf(h)[n] = c /\ PrevOf(g)[n] = PrevOf(h)[c]
                           /\ ParentOf(g)[n] \in {ParentOf(h)[n], Null}
      BY <2>1, <2>4, <2>6, <3>1 DEF a, b
    <3>4. Ending(NextOf(g))
      BY <3>1, <3>2, <3>3, SkippingEnds
    <3>5. Ending(PrevOf(g))
      BY <3>1, <3>2, <3>3, SkippingEnds
    <3>6. Ending(ParentOf(g))
      BY <3>1, <3>2, <3>3, SkippingEnds
    <3> QED BY <3>4, <3>5, <3>6 DEF Acyclic
  <2>11. Named(g)
    <3>1. \A n \in Nodes : /\ g[n].parent \in {h[n].parent, Null}
                           /\ g[n].parent # Null => g[n].parent \in Nodes
      BY <2>1, <2>4, FieldTypes DEF Links
    <3> QED BY <2>4, <3>1 DEF Good, Named, SameData
  <2>12. Orphaned(h, c, g)
    BY <2>4 DEF Orphaned
  <2> QED BY <2>4, <2>7, <2>8, <2>9, <2>10, <2>11, <2>12 DEF Good
<1> QED BY <1>1, <1>2

(***************************************************************************)
(* destroy() and empty(): Delete and Retype.                               *)
(***************************************************************************)

(* What is below c is freed, and c is left without members; it may be freed *)
(* as well if it belongs to nobody.                                        *)
LEMMA CuttingKeeps ==
  ASSUME NEW h, Good(h), NEW c \in Nodes, NEW g, HeapType(g), NEW S, S = Subtree(h, c),
         \A n \in Nodes \ S : g[n] = h[n],
         \A n \in S \ {c} : g[n] = Free,
         /\ g[c].parent = h[c].parent /\ g[c].next = h[c].next /\ g[c].prev = h[c].prev
         /\ g[c].first = Null /\ g[c].last = Null /\ g[c].current = Null /\ g[c].count = 0
         /\ h[c].parent # Null => g[c].name = h[c].name /\ g[c].type # "free"
  PROVE  Good(g)
<1>1. /\ S \in SUBSET Nodes /\ c \in S /\ h[c].parent \notin S
      /\ \A m \in Nodes : h[m].parent \in S => m \in S
      /\ \A m \in S : m = c \/ h[m].parent \in S
  BY SubtreeFacts
<1>2. Null \notin Nodes /\ HeapType(h)
  BY DataTreeAssumption DEF DataTreeAssumption, Good
<1> DEFINE D == S \ {c}
<1>3. \A n \in Nodes \ D : g[n].parent = h[n].parent /\ g[n].next = h[n].next /\ g[n].prev = h[n].prev
  OBVIOUS
<1>4. \A n \in D : g[n].parent = Null /\ g[n].next = Null /\ g[n].prev = Null
  BY DEF Free
<1>5. \A n \in S : g[n].first = Null /\ g[n].last = Null /\ g[n].current = Null /\ g[n].count = 0
  BY DEF Free
<1>6. D \in SUBSET Nodes /\ Null \notin D /\ \A n \in D : h[n].parent \in S
  BY <1>1, <1>2
<1>7. \A n \in Nodes \ D : h[n].parent \notin S
  BY <1>1
<1> HIDE DEF D
<1>8. \A n \in Nodes \ D : h[n].next \notin D /\ h[n].prev \notin D
  <2> TAKE n \in Nodes \ D
  <2>1. h[n].parent \notin S
    BY <1>7
  <2>2. h[n].next # Null => h[h[n].next].parent = h[n].parent
    BY DEF Good, Siblings
  <2>3. h[n].prev # Null => h[h[n].prev].parent = h[n].parent
    BY DEF Good, Siblings
  <2> QED BY <1>6, <2>1, <2>2, <2>3
<1>9. \A q \in Nodes \ S : g[q] = h[q] /\ q \notin D
  BY DEF D
<1>10. Siblings(g)
  <2>1. ASSUME NEW n \in Nodes, g[n].next # Null
        PROVE  g[g[n].next].prev = n /\ g[g[n].next].parent = g[n].parent
    <3>1. n \notin D /\ g[n].next = h[n].next /\ g[n].parent = h[n].parent /\ h[n].next \in Nodes \ D
      BY <1>2, <1>3, <1>4, <1>8, <2>1, FieldTypes DEF Links
    <3>2. h[h[n].next].prev = n /\ h[h[n].next].parent = h[n].parent
      BY <1>2, <3>1 DEF Good, Siblings
    <3> QED BY <1>3, <3>1, <3>2
  <2>2. ASSUME NEW n \in Nodes, g[n].prev # Null
        PROVE  g[g[n].prev].next = n /\ g[g[n].prev].parent = g[n].parent
    <3>1. n \notin D /\ g[n].prev = h[n].prev /\ g[n].parent = h[n].parent /\ h[n].prev \in Nodes \ D
      BY <1>2, <1>3, <1>4, <1>8, <2>2, FieldTypes DEF Links
    <3>2. h[h[n].prev].next = n /\ h[h[n].prev].parent = h[n].parent
      BY <1>2, <3>1 DEF Good, Siblings
    <3> QED BY <1>3, <3>1, <3>2
  <2>3. ASSUME NEW n \in Nodes, g[n].parent = Null
        PROVE  g[n].next = Null /\ g[n].prev = Null
    BY <1>3, <1>4, <2>3 DEF Good, Siblings
  <2>4. ASSUME NEW n \in Nodes, g[n].parent # Null
        PROVE  /\ g[g[n].parent].type \in Containers
               /\ g[n].prev = Null <=> g[g[n].parent].first = n
               /\ g[n].next = Null <=> g[g[n].parent].last = n
               /\ g[n].type # "free"
    <3>1. n \notin D /\ g[n].parent = h[n].parent /\ h[n].parent \in Nodes \ S
      BY <1>2, <1>3, <1>4, <1>7, <2>4, FieldTypes DEF Links
    <3>2. g[h[n].parent] = h[h[n].parent] /\ g[n].next = h[n].next /\ g[n].prev = h[n].prev
      BY <1>3, <1>9, <3>1
    <3>3. /\ h[h[n].parent].type \in Containers
          /\ h[n].prev = Null <=> h[h[n].parent].first = n
          /\ h[n].next = Null <=> h[h[n].parent].last = n
          /\ h[n].type # "free"
      BY <1>2, <3>1 DEF Good, Siblings
    <3>4. g[n].type # "free"
      <4>1. CASE n = c
        BY <1>2, <3>1, <4>1
      <4>2. CASE n # c
        <5>1. n \in Nodes \ S
          BY <3>1, <4>2 DEF D
        <5> QED BY <1>9, <3>3, <5>1
      <4> QED BY <4>1, <4>2
    <3> QED BY <3>1, <3>2, <3>3, <3>4
  <2> QED BY <2>1, <2>2, <2>3, <2>4 DEF Siblings
<1>11. Lists(g)
  <2> SUFFICES ASSUME NEW q \in Nodes
               PROVE  /\ g[q].first # Null => g[g[q].first].parent = q
                      /\ g[q].last # Null => g[g[q].last].parent = q
                      /\ g[q].current # Null => g[g[q].current].parent = q
                      /\ g[q].first = Null <=> g[q].last = Null
    BY DEF Lists
  <2>1. CASE q \in S
    BY <1>5, <2>1
  <2>2. CASE q \notin S
    <3>1. /\ h[q].first # Null => h[h[q].first].parent = q
          /\ h[q].last # Null => h[h[q].last].parent = q
          /\ h[q].current # Null => h[h[q].current].parent = q
          /\ h[q].first = Null <=> h[q].last = Null
          /\ h[q].first \in Links /\ h[q].last \in Links /\ h[q].current \in Links
      BY <1>2, FieldTypes DEF Good, Lists
    <3>2. g[q] = h[q]
      BY <1>9, <2>2
    <3>3. \A n \in Nodes : h[n].parent = q => g[n].parent = q
      BY <1>3, <1>6, <2>2
    <3> QED BY <3>1, <3>2, <3>3 DEF Links
  <2> QED BY <2>1, <2>2
<1>12. Counted(g)
  <2>1. ASSUME NEW q \in Nodes \ S PROVE g[q].count = Cardinality(Members(g, q))
    <3>1. Members(g, q) = Members(h, q)
      BY <1>2, <1>3, <1>4, <1>6 DEF Members
    <3> QED BY <1>9, <3>1 DEF Good, Counted
  <2>2. ASSUME NEW q \in S PROVE g[q].count = Cardinality(Members(g, q))
    <3>1. \A n \in Nodes : g[n].parent \notin S
      BY <1>1, <1>2, <1>3, <1>4, <1>7
    <3>2. Members(g, q) = {}
      BY <3>1 DEF Members
    <3> QED BY <1>5, <3>2, FS_EmptySet
  <2> QED BY <2>1, <2>2 DEF Counted
<1>13. Acyclic(g)
  <2>1. /\ NextOf(h) \in [Nodes -> Links] /\ PrevOf(h) \in [Nodes -> Links]
        /\ ParentOf(h) \in [Nodes -> Links]
        /\ \A n \in Nodes : /\ NextOf(h)[n] = h[n].next /\ PrevOf(h)[n] = h[n].prev
                            /\ ParentOf(h)[n] = h[n].parent
        /\ NextOf(g) \in [Nodes -> Links] /\ PrevOf(g) \in [Nodes -> Links]
        /\ ParentOf(g) \in [Nodes -> Links]
        /\ \A n \in Nodes : /\ NextOf(g)[n] = g[n].next /\ PrevOf(g)[n] = g[n].prev
                            /\ ParentOf(g)[n] = g[n].parent
    BY <1>2, LinkFunctions
  <2>2. Ending(NextOf(h)) /\ Ending(PrevOf(h)) /\ Ending(ParentOf(h))
    BY DEF Good, Acyclic
  <2>3. \A n \in Nodes : /\ NextOf(g)[n] \in {NextOf(h)[n], Null}
                         /\ PrevOf(g)[n] \in {PrevOf(h)[n], Null}
                         /\ ParentOf(g)[n] \in {ParentOf(h)[n], Null}
    BY <1>3, <1>4, <2>1
  <2>4. Ending(NextOf(g))
    BY <2>1, <2>2, <2>3, SkippingEnds
  <2>5. Ending(PrevOf(g))
    BY <2>1, <2>2, <2>3, SkippingEnds
  <2>6. Ending(ParentOf(g))
    BY <2>1, <2>2, <2>3, SkippingEnds
  <2> QED BY <2>4, <2>5, <2>6 DEF Acyclic
<1>14. Named(g)
  <2>1. ASSUME NEW n \in Nodes, g[n].parent # Null
        PROVE  /\ n \notin D /\ h[n].parent = g[n].parent /\ g[n].parent \in Nodes
               /\ g[n].name = h[n].name /\ g[g[n].parent].type = h[g[n].parent].type
    <3>1. n \notin D /\ g[n].parent = h[n].parent /\ h[n].parent \in Nodes \ S
      BY <1>2, <1>3, <1>4, <1>7, <2>1, FieldTypes DEF Links
    <3>2. g[n].name = h[n].name
      <4>1. CASE n = c
        BY <1>2, <3>1, <4>1
      <4>2. CASE n # c
        <5>1. n \in Nodes \ S
          BY <3>1, <4>2 DEF D
        <5> QED BY <1>9, <5>1
      <4> QED BY <4>1, <4>2
    <3> QED BY <1>9, <3>1, <3>2
  <2> QED BY <1>2, <2>1 DEF Good, Named
<1> QED BY <1>10, <1>11, <1>12, <1>13, <1>14 DEF Good

(* Free memory is typed like any other.                                    *)
LEMMA FreeType == HeapType([n \in Nodes |-> Free])
  BY DEF HeapType, Free, Types, Links

(* n loses what is below it and becomes something else.                     *)
LEMMA RetypeKeeps ==
  ASSUME NEW h, Good(h), NEW n \in Nodes, NEW type \in Types \ {"free"}, NEW g,
         g = Retype(h, n, type)
  PROVE  /\ Good(g) /\ g[n].type = type /\ Members(g, n) = {}
         /\ \A m \in Nodes : g[m].parent \in {h[m].parent, Null}
<1> DEFINE S == Subtree(h, n)
           fresh == [Free EXCEPT !.type = type, !.name = h[n].name, !.parent = h[n].parent,
                                 !.next = h[n].next, !.prev = h[n].prev]
<1>1. S \in SUBSET Nodes /\ n \in S
  BY SubtreeFacts
<1>2. HeapType(h)
  BY DEF Good
<1>3. g = [Release(h, S \ {n}) EXCEPT ![n] = fresh]
  BY Zenon DEF Retype
<1>4. /\ fresh.type = type /\ fresh.name = h[n].name /\ fresh.parent = h[n].parent
      /\ fresh.next = h[n].next /\ fresh.prev = h[n].prev
      /\ fresh.first = Null /\ fresh.last = Null /\ fresh.current = Null /\ fresh.count = 0
  BY DEF Free
<1>5. fresh \in [type : Types, name : Names \cup {NoName}, parent : Links,
                 next : Links, prev : Links, first : Links, last : Links,
                 current : Links, count : Nat]
  <2>1. /\ type \in Types /\ h[n].name \in Names \cup {NoName} /\ h[n].parent \in Links
        /\ h[n].next \in Links /\ h[n].prev \in Links /\ Null \in Links
    BY <1>2, FieldTypes DEF Links
  <2> QED BY <2>1 DEF Free
<1> HIDE DEF S, fresh
<1>6. /\ g[n] = fresh
      /\ \A m \in S \ {n} : g[m] = Free
      /\ \A m \in Nodes \ S : g[m] = h[m]
  BY <1>1, <1>3 DEF Release
<1>7. HeapType(g)
  <2>1. g = [m \in Nodes |-> IF m = n THEN fresh ELSE IF m \in S THEN Free ELSE h[m]]
    BY <1>1, <1>3 DEF Release
  <2>2. Free \in [type : Types, name : Names \cup {NoName}, parent : Links,
                  next : Links, prev : Links, first : Links, last : Links,
                  current : Links, count : Nat]
    BY FreeType DEF HeapType
  <2> QED BY <1>2, <1>5, <2>1, <2>2 DEF HeapType
<1>8. S = Subtree(h, n)
  BY DEF S
<1>9. Good(g)
  BY <1>4, <1>6, <1>7, <1>8, CuttingKeeps
<1>10. \A m \in Nodes : g[m].parent \in {h[m].parent, Null}
  BY <1>4, <1>6 DEF Free
<1>11. Members(g, n) = {}
  BY <1>4, <1>6, <1>9, NoMembers
<1> QED BY <1>4, <1>6, <1>9, <1>10, <1>11

(* Two heaps agree on the types and names of all nodes but those of S.      *)
Spared(h, g, S) == \A n \in Nodes : n \notin S => g[n].type = h[n].type /\ g[n].name = h[n].name

(* c leaves its parent and is freed with what is below it.                  *)
LEMMA DeleteKeeps ==
  ASSUME NEW h, Good(h), NEW c \in Nodes, NEW g, g = Delete(h, c)
  PROVE  /\ Good(g) /\ g[c].parent = Null
         /\ \A n \in Nodes : g[n].parent \in {h[n].parent, Null}
         /\ Spared(h, g, Subtree(h, c))
<1> DEFINE r == Unlink(h, c)
           S == Subtree(r, c)
<1>1. /\ Good(r) /\ SameData(h, r)
      /\ \A n \in Nodes : r[n].parent = IF n = c THEN Null ELSE h[n].parent
  BY UnlinkKeeps DEF Orphaned
<1>2. g = Release(r, S)
  BY DEF Delete
<1> HIDE DEF r
<1>3. S \in SUBSET Nodes /\ c \in S
  BY <1>1, SubtreeFacts
<1>4. S \subseteq Subtree(h, c)
  BY <1>1, SubtreeShrinks
<1>5. S = Subtree(r, c)
  OBVIOUS
<1> HIDE DEF S
<1>6. /\ \A n \in S : g[n] = Free
      /\ \A n \in Nodes \ S : g[n] = r[n]
  BY <1>2, <1>3 DEF Release
<1>7. HeapType(g)
  <2>1. HeapType(r)
    BY <1>1 DEF Good
  <2> QED BY <1>2, <2>1, FreeType DEF HeapType, Release
<1>8. r[c].parent = Null /\ r[c].next = Null /\ r[c].prev = Null
  BY <1>1 DEF Good, Siblings
<1>9. Good(g)
  BY <1>1, <1>3, <1>5, <1>6, <1>7, <1>8, CuttingKeeps DEF Free
<1>10. \A n \in S : g[n].parent = Null
  BY <1>6 DEF Free
<1>11. Spared(h, g, Subtree(h, c))
  BY <1>1, <1>4, <1>6 DEF SameData, Spared
<1> QED BY <1>1, <1>3, <1>6, <1>9, <1>10, <1>11

(***************************************************************************)
(* new: New.                                                               *)
(***************************************************************************)

(* Free memory becomes a node that belongs to nobody.                       *)
LEMMA NewKeeps ==
  ASSUME NEW h, Good(h), NEW n \in Nodes, h[n].type = "free",
         NEW name \in Names \cup {NoName}, NEW g, g = New(h, n, name)
  PROVE  /\ Good(g) /\ g[n].name = name /\ g[n].type = "leaf"
         /\ \A m \in Nodes : g[m].parent = h[m].parent
         /\ \A m \in Nodes \ {n} : g[m] = h[m]
<1> DEFINE fresh == [Free EXCEPT !.type = "leaf", !.name = name]
<1>1. HeapType(h) /\ Null \notin Nodes
  BY DataTreeAssumption DEF DataTreeAssumption, Good
<1>2. g = [h EXCEPT ![n] = fresh]
  BY Zenon DEF New
<1>3. /\ fresh.type = "leaf" /\ fresh.name = name /\ fresh.parent = Null
      /\ fresh.next = Null /\ fresh.prev = Null
      /\ fresh.first = Null /\ fresh.last = Null /\ fresh.current = Null /\ fresh.count = 0
  BY DEF Free
<1>4. fresh \in [type : Types, name : Names \cup {NoName}, parent : Links,
                 next : Links, prev : Links, first : Links, last : Links,
                 current : Links, count : Nat]
  BY DEF Free, Types, Links
<1> HIDE DEF fresh
<1>5. g[n] = fresh /\ \A m \in Nodes \ {n} : g[m] = h[m]
  BY <1>1, <1>2 DEF HeapType
<1>6. HeapType(g)
  BY <1>1, <1>2, <1>4 DEF HeapType
<1>7. \A m \in Nodes : h[m].parent # n
  BY <1>1 DEF Good, Siblings, Containers
<1>8. h[n].parent = Null /\ h[n].next = Null /\ h[n].prev = Null
  BY DEF Good, Siblings
<1>9. h[n].first = Null /\ h[n].last = Null /\ h[n].current = Null
  BY <1>1, <1>7, FieldTypes DEF Good, Lists, Links
<1>10. \A m \in Nodes : /\ g[m].parent = h[m].parent /\ g[m].next = h[m].next
                        /\ g[m].prev = h[m].prev /\ g[m].first = h[m].first
                        /\ g[m].last = h[m].last /\ g[m].current = h[m].current
  BY <1>3, <1>5, <1>8, <1>9
<1>11. \A m \in Nodes : h[m].parent # Null =>
          /\ h[m].parent \in Nodes \ {n} /\ m # n
          /\ g[h[m].parent].type = h[h[m].parent].type
  BY <1>1, <1>5, <1>7, <1>8, FieldTypes DEF Links
<1>12. Siblings(g)
  <2>1. \A m \in Nodes : h[m].next \in Links /\ h[m].prev \in Links
    BY <1>1, FieldTypes
  <2>2. ASSUME NEW m \in Nodes
        PROVE  /\ g[m].next # Null => g[g[m].next].prev = m /\ g[g[m].next].parent = g[m].parent
               /\ g[m].prev # Null => g[g[m].prev].next = m /\ g[g[m].prev].parent = g[m].parent
               /\ g[m].parent = Null => g[m].next = Null /\ g[m].prev = Null
    BY <1>10, <2>1 DEF Good, Siblings, Links
  <2>3. ASSUME NEW m \in Nodes, g[m].parent # Null
        PROVE  /\ g[g[m].parent].type \in Containers
               /\ g[m].prev = Null <=> g[g[m].parent].first = m
               /\ g[m].next = Null <=> g[g[m].parent].last = m
               /\ g[m].type # "free"
    BY <1>5, <1>10, <1>11, <2>3 DEF Good, Siblings
  <2> QED BY <2>2, <2>3 DEF Siblings
<1>13. Lists(g)
  <2>1. \A m \in Nodes : h[m].first \in Links /\ h[m].last \in Links /\ h[m].current \in Links
    BY <1>1, FieldTypes
  <2> QED BY <1>10, <2>1 DEF Good, Lists, Links
<1>14. Counted(g)
  <2>1. \A q \in Nodes : Members(g, q) = Members(h, q)
    BY <1>10 DEF Members
  <2>2. Members(h, n) = {}
    BY <1>7 DEF Members
  <2>3. Cardinality({}) = 0
    BY FS_EmptySet
  <2> QED BY <1>3, <1>5, <2>1, <2>2, <2>3 DEF Good, Counted
<1>15. Acyclic(g)
  <2>1. NextOf(g) = NextOf(h) /\ PrevOf(g) = PrevOf(h) /\ ParentOf(g) = ParentOf(h)
    BY <1>10 DEF NextOf, PrevOf, ParentOf
  <2> QED BY <2>1 DEF Good, Acyclic
<1>16. Named(g)
  BY <1>5, <1>10, <1>11 DEF Good, Named
<1> QED BY <1>3, <1>5, <1>6, <1>10, <1>12, <1>13, <1>14, <1>15, <1>16 DEF Good

(***************************************************************************)
(* add(), addbefore() and addafter(): LinkLast, LinkBefore, LinkAfter.     *)
(***************************************************************************)

(* c belongs to nobody and may become a member of p.                        *)
MayJoin(h, p, c) ==
  /\ h[c].parent = Null /\ h[c].type # "free"
  /\ h[p].type \in Containers
  /\ Apart(h, p, c)
  /\ h[p].type = "struct" => /\ h[c].name # NoName
                             /\ \A m \in Nodes : h[m].parent = p => h[m].name # h[c].name

(* b and a stand side by side in p, or are the ends of it.                  *)
Adjacent(h, p, b, a) ==
  /\ b # Null => h[b].parent = p /\ h[b].next = a
  /\ a # Null => h[a].parent = p /\ h[a].prev = b
  /\ b = Null => h[p].first = a
  /\ a = Null => h[p].last = b

(* c becomes a member of p between b and a.                                *)
Inserted(h, p, c, b, a, g) ==
  \A n \in Nodes :
    /\ g[n].type = h[n].type /\ g[n].name = h[n].name /\ g[n].current = h[n].current
    /\ g[n].parent = IF n = c THEN p ELSE h[n].parent
    /\ g[n].next = IF n = c THEN a ELSE IF n = b THEN c ELSE h[n].next
    /\ g[n].prev = IF n = c THEN b ELSE IF n = a THEN c ELSE h[n].prev
    /\ g[n].first = IF n = p /\ b = Null THEN c ELSE h[n].first
    /\ g[n].last = IF n = p /\ a = Null THEN c ELSE h[n].last
    /\ g[n].count = IF n = p THEN h[n].count + 1 ELSE h[n].count

(* Whatever is put between two neighbours, or at an end, fits in.          *)
LEMMA InsertKeeps ==
  ASSUME NEW h, Good(h), NEW p \in Nodes, NEW c \in Nodes, NEW b \in Links, NEW a \in Links,
         MayJoin(h, p, c), Adjacent(h, p, b, a),
         NEW g, HeapType(g), Inserted(h, p, c, b, a, g)
  PROVE  Good(g)
<1>1. Null \notin Nodes /\ HeapType(h)
  BY DataTreeAssumption DEF DataTreeAssumption, Good
<1>2. /\ h[c].parent = Null /\ h[c].next = Null /\ h[c].prev = Null /\ h[c].type # "free"
      /\ h[p].type \in Containers /\ p # c
  BY DEF MayJoin, Apart, Good, Siblings
<1>3. /\ b # Null => h[b].parent = p /\ h[b].next = a
      /\ a # Null => h[a].parent = p /\ h[a].prev = b
      /\ b = Null => h[p].first = a
      /\ a = Null => h[p].last = b
  BY DEF Adjacent
<1>4. \A n \in Nodes :
        /\ g[n].type = h[n].type /\ g[n].name = h[n].name /\ g[n].current = h[n].current
        /\ g[n].parent = IF n = c THEN p ELSE h[n].parent
        /\ g[n].next = IF n = c THEN a ELSE IF n = b THEN c ELSE h[n].next
        /\ g[n].prev = IF n = c THEN b ELSE IF n = a THEN c ELSE h[n].prev
        /\ g[n].first = IF n = p /\ b = Null THEN c ELSE h[n].first
        /\ g[n].last = IF n = p /\ a = Null THEN c ELSE h[n].last
        /\ g[n].count = IF n = p THEN h[n].count + 1 ELSE h[n].count
  BY DEF Inserted
<1>5. a # c /\ b # c
  BY <1>1, <1>2, <1>3
<1>6. \A n \in Nodes : h[n].next # c /\ h[n].prev # c
  BY <1>1, <1>2 DEF Good, Siblings
<1>7. \A n \in Nodes : h[n].first # c /\ h[n].last # c /\ h[n].current # c
  BY <1>1, <1>2 DEF Good, Lists
<1>8. Siblings(g)
  <2>1. ASSUME NEW n \in Nodes, g[n].next # Null
        PROVE  g[g[n].next].prev = n /\ g[g[n].next].parent = g[n].parent
    <3>1. CASE n = c
      BY <1>1, <1>3, <1>4, <1>5, <2>1, <3>1 DEF Links
    <3>2. CASE n = b /\ n # c
      BY <1>1, <1>3, <1>4, <1>5, <3>2 DEF Links
    <3>3. CASE n # b /\ n # c
      <4>1. g[n].next = h[n].next /\ h[n].next \in Nodes /\ h[n].next # c /\ g[n].parent = h[n].parent
        BY <1>1, <1>4, <1>6, <2>1, <3>3, FieldTypes DEF Links
      <4>2. h[h[n].next].prev = n /\ h[h[n].next].parent = h[n].parent
        BY <1>1, <4>1 DEF Good, Siblings
      <4>3. h[n].next # a
        BY <1>1, <1>3, <3>3, <4>1, <4>2
      <4> QED BY <1>4, <4>1, <4>2, <4>3
    <3> QED BY <3>1, <3>2, <3>3
  <2>2. ASSUME NEW n \in Nodes, g[n].prev # Null
        PROVE  g[g[n].prev].next = n /\ g[g[n].prev].parent = g[n].parent
    <3>1. CASE n = c
      BY <1>1, <1>3, <1>4, <1>5, <2>2, <3>1 DEF Links
    <3>2. CASE n = a /\ n # c
      BY <1>1, <1>3, <1>4, <1>5, <3>2 DEF Links
    <3>3. CASE n # a /\ n # c
      <4>1. g[n].prev = h[n].prev /\ h[n].prev \in Nodes /\ h[n].prev # c /\ g[n].parent = h[n].parent
        BY <1>1, <1>4, <1>6, <2>2, <3>3, FieldTypes DEF Links
      <4>2. h[h[n].prev].next = n /\ h[h[n].prev].parent = h[n].parent
        BY <1>1, <4>1 DEF Good, Siblings
      <4>3. h[n].prev # b
        BY <1>1, <1>3, <3>3, <4>1, <4>2
      <4> QED BY <1>4, <4>1, <4>2, <4>3
    <3> QED BY <3>1, <3>2, <3>3
  <2>3. ASSUME NEW n \in Nodes, g[n].parent = Null
        PROVE  g[n].next = Null /\ g[n].prev = Null
    <3>1. n # c /\ h[n].parent = Null
      BY <1>1, <1>4, <2>3
    <3>2. h[n].next = Null /\ h[n].prev = Null /\ n # b /\ n # a
      BY <1>1, <1>3, <3>1 DEF Good, Siblings
    <3> QED BY <1>4, <3>1, <3>2
  <2>4. ASSUME NEW n \in Nodes, g[n].parent # Null
        PROVE  /\ g[g[n].parent].type \in Containers
               /\ g[n].prev = Null <=> g[g[n].parent].first = n
               /\ g[n].next = Null <=> g[g[n].parent].last = n
               /\ g[n].type # "free"
    <3>1. CASE n = c
      <4>1. g[n].parent = p /\ g[p].type \in Containers /\ g[n].type # "free"
        BY <1>2, <1>4, <3>1
      <4>2. g[n].prev = Null <=> g[p].first = n
        BY <1>1, <1>4, <1>7, <3>1
      <4>3. g[n].next = Null <=> g[p].last = n
        BY <1>1, <1>4, <1>7, <3>1
      <4> QED BY <4>1, <4>2, <4>3
    <3>2. CASE n # c
      <4> DEFINE q == h[n].parent
      <4>1. g[n].parent = q /\ q \in Nodes
        BY <1>1, <1>4, <2>4, <3>2, FieldTypes DEF Links
      <4>2. /\ h[q].type \in Containers
            /\ h[n].prev = Null <=> h[q].first = n
            /\ h[n].next = Null <=> h[q].last = n
            /\ h[n].type # "free"
        BY <1>1, <4>1 DEF Good, Siblings
      <4>3. n = a \/ n = b => q = p
        BY <1>1, <1>3
      <4> HIDE DEF q
      <4>4. g[q].type \in Containers /\ g[n].type # "free"
        BY <1>4, <4>1, <4>2
      <4>5. g[n].prev = Null <=> g[q].first = n
        BY <1>1, <1>3, <1>4, <3>2, <4>1, <4>2, <4>3
      <4>6. g[n].next = Null <=> g[q].last = n
        BY <1>1, <1>3, <1>4, <3>2, <4>1, <4>2, <4>3
      <4> QED BY <4>1, <4>4, <4>5, <4>6
    <3> QED BY <3>1, <3>2
  <2> QED BY <2>1, <2>2, <2>3, <2>4 DEF Siblings
<1>9. Lists(g)
  <2> SUFFICES ASSUME NEW q \in Nodes
               PROVE  /\ g[q].first # Null => g[g[q].first].parent = q
                      /\ g[q].last # Null => g[g[q].last].parent = q
                      /\ g[q].current # Null => g[g[q].current].parent = q
                      /\ g[q].first = Null <=> g[q].last = Null
    BY DEF Lists
  <2>1. /\ h[q].first # Null => h[h[q].first].parent = q
        /\ h[q].last # Null => h[h[q].last].parent = q
        /\ h[q].current # Null => h[h[q].current].parent = q
        /\ h[q].first = Null <=> h[q].last = Null
        /\ h[q].first \in Links /\ h[q].last \in Links /\ h[q].current \in Links
    BY <1>1, FieldTypes DEF Good, Lists
  <2>2. CASE q # p
    BY <1>4, <1>7, <2>1, <2>2 DEF Links
  <2>3. CASE q = p
    <3>1. g[q].first # Null => g[g[q].first].parent = q
      BY <1>4, <1>7, <2>1, <2>3 DEF Links
    <3>2. g[q].last # Null => g[g[q].last].parent = q
      BY <1>4, <1>7, <2>1, <2>3 DEF Links
    <3>3. g[q].current # Null => g[g[q].current].parent = q
      BY <1>4, <1>7, <2>1, <2>3 DEF Links
    <3>4. h[p].first = Null <=> a = Null /\ b = Null
      <4>1. b # Null => h[p].first # Null
        BY <1>1, <1>3, NoMembers DEF Members, Links
      <4>2. a # Null => h[p].first # Null
        BY <1>1, <1>3, NoMembers DEF Members, Links
      <4> QED BY <1>3, <4>1, <4>2
    <3>5. g[q].first = Null <=> g[q].last = Null
      BY <1>1, <1>4, <2>1, <2>3, <3>4
    <3> QED BY <3>1, <3>2, <3>3, <3>5
  <2> QED BY <2>2, <2>3
<1>10. Counted(g)
  <2>1. Members(g, p) = Members(h, p) \cup {c} /\ c \notin Members(h, p)
    BY <1>1, <1>2, <1>4 DEF Members
  <2>2. \A q \in Nodes \ {p} : Members(g, q) = Members(h, q)
    BY <1>1, <1>2, <1>4 DEF Members
  <2>3. h[p].count = Cardinality(Members(h, p)) /\ IsFiniteSet(Members(h, p))
    BY MembersFinite DEF Good, Counted
  <2>4. Cardinality(Members(h, p) \cup {c}) = h[p].count + 1
    BY <2>1, <2>3, FS_AddElement
  <2>5. \A q \in Nodes \ {p} : g[q].count = Cardinality(Members(g, q))
    BY <1>4, <2>2 DEF Good, Counted
  <2>6. g[p].count = h[p].count + 1
    BY <1>4
  <2>7. g[p].count = Cardinality(Members(g, p))
    BY <2>1, <2>4, <2>6
  <2> QED BY <2>5, <2>7 DEF Counted
<1>11. Acyclic(g)
  <2>1. /\ NextOf(h) \in [Nodes -> Links] /\ PrevOf(h) \in [Nodes -> Links]
        /\ ParentOf(h) \in [Nodes -> Links]
        /\ \A n \in Nodes : /\ NextOf(h)[n] = h[n].next /\ PrevOf(h)[n] = h[n].prev
                            /\ ParentOf(h)[n] = h[n].parent
        /\ NextOf(g) \in [Nodes -> Links] /\ PrevOf(g) \in [Nodes -> Links]
        /\ ParentOf(g) \in [Nodes -> Links]
        /\ \A n \in Nodes : /\ NextOf(g)[n] = g[n].next /\ PrevOf(g)[n] = g[n].prev
                            /\ ParentOf(g)[n] = g[n].parent
    BY <1>1, LinkFunctions
  <2>2. Ending(NextOf(h)) /\ Ending(PrevOf(h)) /\ Ending(ParentOf(h))
    BY DEF Good, Acyclic
  <2>3. /\ NextOf(g)[c] # c
        /\ \A n \in Nodes \ {c} : /\ NextOf(h)[n] # c
                                  /\ \/ NextOf(g)[n] = NextOf(h)[n]
                                     \/ NextOf(g)[n] = c /\ NextOf(g)[c] \in {NextOf(h)[n], Null}
    BY <1>1, <1>3, <1>4, <1>5, <1>6, <2>1
  <2>4. /\ PrevOf(g)[c] # c
        /\ \A n \in Nodes \ {c} : /\ PrevOf(h)[n] # c
                                  /\ \/ PrevOf(g)[n] = PrevOf(h)[n]
                                     \/ PrevOf(g)[n] = c /\ PrevOf(g)[c] \in {PrevOf(h)[n], Null}
    BY <1>1, <1>3, <1>4, <1>5, <1>6, <2>1
  <2>5. Ending(NextOf(g))
    BY <2>1, <2>2, <2>3, SplicingEnds
  <2>6. Ending(PrevOf(g))
    BY <2>1, <2>2, <2>4, SplicingEnds
  <2>7. ParentOf(g)[c] = p /\ \A n \in Nodes \ {c} : ParentOf(g)[n] = h[n].parent
    BY <1>4, <2>1
  <2>8. Apart(h, p, c)
    BY DEF MayJoin
  <2>9. Ending(ParentOf(g))
    BY <1>1, <2>1, <2>2, <2>7, <2>8, GraftingEnds
  <2> QED BY <2>5, <2>6, <2>9 DEF Acyclic
<1>12. Named(g)
  <2> SUFFICES ASSUME NEW n \in Nodes, g[n].parent # Null, g[g[n].parent].type = "struct"
               PROVE  /\ g[n].name # NoName
                      /\ \A m \in Nodes : g[m].parent = g[n].parent /\ g[m].name = g[n].name => m = n
    BY DEF Named
  <2>1. g[n].parent \in Nodes
    BY FieldTypes DEF Links
  <2>2. h[p].type = "struct" => /\ h[c].name # NoName
                                /\ \A m \in Nodes : h[m].parent = p => h[m].name # h[c].name
    BY DEF MayJoin
  <2>3. CASE n = c
    BY <1>2, <1>4, <2>2, <2>3
  <2>4. CASE n # c
    <3>1. /\ h[n].name # NoName
          /\ \A m \in Nodes : h[m].parent = h[n].parent /\ h[m].name = h[n].name => m = n
      BY <1>4, <2>1, <2>4 DEF Good, Named
    <3> QED BY <1>4, <2>1, <2>2, <2>4, <3>1
  <2> QED BY <2>3, <2>4
<1> QED BY <1>8, <1>9, <1>10, <1>11, <1>12 DEF Good

(* The rest of add() puts c behind the last member.                        *)
LEMMA LinkLastInserts ==
  ASSUME NEW h, Good(h), NEW p \in Nodes, NEW c \in Nodes, MayJoin(h, p, c)
  PROVE  HeapType(LinkLast(h, p, c)) /\ Adjacent(h, p, h[p].last, Null)
         /\ Inserted(h, p, c, h[p].last, Null, LinkLast(h, p, c))
<1> DEFINE l == h[p].last
           e(n) == [h[n] EXCEPT
                      !.first = IF n = p /\ @ = Null THEN c ELSE @,
                      !.last = IF n = p THEN c ELSE @,
                      !.count = IF n = p THEN @ + 1 ELSE @,
                      !.next = IF n = l THEN c ELSE @,
                      !.prev = IF n = c THEN l ELSE @,
                      !.parent = IF n = c THEN p ELSE @]
           g == LinkLast(h, p, c)
<1>1. g = [n \in Nodes |-> e(n)]
  BY Zenon DEF LinkLast
<1>2. /\ HeapType(h) /\ Null \notin Nodes /\ l \in Links
      /\ h[c].parent = Null /\ h[c].next = Null /\ p # Null
  BY FieldTypes, DataTreeAssumption DEF DataTreeAssumption, Good, MayJoin, Siblings
<1>3. /\ l # Null => h[l].parent = p /\ h[l].next = Null
      /\ h[p].first = Null <=> l = Null
      /\ l # c
  BY <1>2 DEF Good, Lists, Siblings, Links
<1>4. Adjacent(h, p, l, Null)
  BY <1>3 DEF Adjacent
<1> HIDE DEF g
<1>5. HeapType(g)
  <2>1. ASSUME NEW n \in Nodes
        PROVE  e(n) \in [type : Types, name : Names \cup {NoName}, parent : Links,
                         next : Links, prev : Links, first : Links, last : Links,
                         current : Links, count : Nat]
    <3>1. h[n] \in [type : Types, name : Names \cup {NoName}, parent : Links,
                    next : Links, prev : Links, first : Links, last : Links,
                    current : Links, count : Nat]
      BY <1>2 DEF HeapType
    <3>2. /\ h[n].count + 1 \in Nat /\ c \in Links /\ p \in Links
          /\ h[n].parent \in Links /\ h[n].next \in Links /\ h[n].prev \in Links
          /\ h[n].first \in Links /\ h[n].last \in Links
      BY <1>2, FieldTypes DEF Links
    <3> QED BY <1>2, <3>1, <3>2
  <2> HIDE DEF e
  <2> QED BY <1>1, <2>1 DEF HeapType
<1>6. Inserted(h, p, c, l, Null, g)
  <2>1. ASSUME NEW n \in Nodes
        PROVE  /\ e(n).type = h[n].type /\ e(n).name = h[n].name /\ e(n).current = h[n].current
               /\ e(n).parent = IF n = c THEN p ELSE h[n].parent
               /\ e(n).next = IF n = c THEN Null ELSE IF n = l THEN c ELSE h[n].next
               /\ e(n).prev = IF n = c THEN l ELSE h[n].prev
               /\ e(n).first = IF n = p /\ l = Null THEN c ELSE h[n].first
               /\ e(n).last = IF n = p THEN c ELSE h[n].last
               /\ e(n).count = IF n = p THEN h[n].count + 1 ELSE h[n].count
    BY <1>2, <1>3 DEF HeapType
  <2> HIDE DEF e
  <2> QED BY <1>1, <1>2, <2>1 DEF Inserted
<1> QED BY <1>4, <1>5, <1>6 DEF g

(* With a new last member the heap stays in order.                         *)
LEMMA LinkLastKeeps ==
  ASSUME NEW h, Good(h), NEW p \in Nodes, NEW c \in Nodes, MayJoin(h, p, c)
  PROVE  Good(LinkLast(h, p, c))
<1>1. h[p].last \in Links /\ Null \in Links
  BY FieldTypes DEF Good, Links
<1> QED BY <1>1, LinkLastInserts, InsertKeeps

(* The rest of addbefore() puts c between a member and the one before it.  *)
LEMMA LinkBeforeInserts ==
  ASSUME NEW h, Good(h), NEW p \in Nodes, NEW c \in Nodes, NEW m \in Nodes,
         MayJoin(h, p, c), h[m].parent = p
  PROVE  HeapType(LinkBefore(h, p, c, m)) /\ Adjacent(h, p, h[m].prev, m)
         /\ Inserted(h, p, c, h[m].prev, m, LinkBefore(h, p, c, m))
<1> DEFINE b == h[m].prev
           e(n) == [h[n] EXCEPT
                      !.first = IF n = p /\ @ = m THEN c ELSE @,
                      !.count = IF n = p THEN @ + 1 ELSE @,
                      !.next = IF n = c THEN m ELSE IF n = b THEN c ELSE @,
                      !.prev = IF n = c THEN b ELSE IF n = m THEN c ELSE @,
                      !.parent = IF n = c THEN p ELSE @]
           g == LinkBefore(h, p, c, m)
<1>1. g = [n \in Nodes |-> e(n)]
  BY Zenon DEF LinkBefore
<1>2. HeapType(h) /\ Null \notin Nodes /\ b \in Links /\ m \in Links /\ p # Null /\ m # Null
  BY FieldTypes, DataTreeAssumption DEF DataTreeAssumption, Good, Links
<1>3. /\ b # Null => h[b].parent = p /\ h[b].next = m
      /\ h[p].first = m <=> b = Null
  BY <1>2 DEF Good, Siblings, Links
<1>4. Adjacent(h, p, b, m)
  BY <1>2, <1>3 DEF Adjacent
<1> HIDE DEF g
<1>5. HeapType(g)
  <2>1. ASSUME NEW n \in Nodes
        PROVE  e(n) \in [type : Types, name : Names \cup {NoName}, parent : Links,
                         next : Links, prev : Links, first : Links, last : Links,
                         current : Links, count : Nat]
    <3>1. h[n] \in [type : Types, name : Names \cup {NoName}, parent : Links,
                    next : Links, prev : Links, first : Links, last : Links,
                    current : Links, count : Nat]
      BY <1>2 DEF HeapType
    <3>2. /\ h[n].count + 1 \in Nat /\ c \in Links /\ p \in Links
          /\ h[n].parent \in Links /\ h[n].next \in Links /\ h[n].prev \in Links
          /\ h[n].first \in Links /\ h[n].last \in Links
      BY <1>2, FieldTypes DEF Links
    <3> QED BY <1>2, <3>1, <3>2
  <2> HIDE DEF e
  <2> QED BY <1>1, <2>1 DEF HeapType
<1>6. Inserted(h, p, c, b, m, g)
  <2>1. ASSUME NEW n \in Nodes
        PROVE  /\ e(n).type = h[n].type /\ e(n).name = h[n].name /\ e(n).current = h[n].current
               /\ e(n).parent = IF n = c THEN p ELSE h[n].parent
               /\ e(n).next = IF n = c THEN m ELSE IF n = b THEN c ELSE h[n].next
               /\ e(n).prev = IF n = c THEN b ELSE IF n = m THEN c ELSE h[n].prev
               /\ e(n).first = IF n = p /\ b = Null THEN c ELSE h[n].first
               /\ e(n).last = h[n].last
               /\ e(n).count = IF n = p THEN h[n].count + 1 ELSE h[n].count
    BY <1>2, <1>3 DEF HeapType
  <2> HIDE DEF e
  <2> QED BY <1>1, <1>2, <2>1 DEF Inserted
<1> QED BY <1>4, <1>5, <1>6 DEF g

(* So it does with a new member before another.                             *)
LEMMA LinkBeforeKeeps ==
  ASSUME NEW h, Good(h), NEW p \in Nodes, NEW c \in Nodes, NEW m \in Nodes,
         MayJoin(h, p, c), h[m].parent = p
  PROVE  Good(LinkBefore(h, p, c, m))
<1>1. h[m].prev \in Links /\ m \in Links
  BY FieldTypes DEF Good, Links
<1> QED BY <1>1, LinkBeforeInserts, InsertKeeps

(* The rest of addafter() puts c between a member and the one behind it.   *)
LEMMA LinkAfterInserts ==
  ASSUME NEW h, Good(h), NEW p \in Nodes, NEW c \in Nodes, NEW m \in Nodes,
         MayJoin(h, p, c), h[m].parent = p
  PROVE  HeapType(LinkAfter(h, p, c, m)) /\ Adjacent(h, p, m, h[m].next)
         /\ Inserted(h, p, c, m, h[m].next, LinkAfter(h, p, c, m))
<1> DEFINE a == h[m].next
           e(n) == [h[n] EXCEPT
                      !.last = IF n = p /\ @ = m THEN c ELSE @,
                      !.count = IF n = p THEN @ + 1 ELSE @,
                      !.prev = IF n = c THEN m ELSE IF n = a THEN c ELSE @,
                      !.next = IF n = c THEN a ELSE IF n = m THEN c ELSE @,
                      !.parent = IF n = c THEN p ELSE @]
           g == LinkAfter(h, p, c, m)
<1>1. g = [n \in Nodes |-> e(n)]
  BY Zenon DEF LinkAfter
<1>2. HeapType(h) /\ Null \notin Nodes /\ a \in Links /\ m \in Links /\ p # Null /\ m # Null
  BY FieldTypes, DataTreeAssumption DEF DataTreeAssumption, Good, Links
<1>3. /\ a # Null => h[a].parent = p /\ h[a].prev = m
      /\ h[p].last = m <=> a = Null
  BY <1>2 DEF Good, Siblings, Links
<1>4. Adjacent(h, p, m, a)
  BY <1>2, <1>3 DEF Adjacent
<1> HIDE DEF g
<1>5. HeapType(g)
  <2>1. ASSUME NEW n \in Nodes
        PROVE  e(n) \in [type : Types, name : Names \cup {NoName}, parent : Links,
                         next : Links, prev : Links, first : Links, last : Links,
                         current : Links, count : Nat]
    <3>1. h[n] \in [type : Types, name : Names \cup {NoName}, parent : Links,
                    next : Links, prev : Links, first : Links, last : Links,
                    current : Links, count : Nat]
      BY <1>2 DEF HeapType
    <3>2. /\ h[n].count + 1 \in Nat /\ c \in Links /\ p \in Links
          /\ h[n].parent \in Links /\ h[n].next \in Links /\ h[n].prev \in Links
          /\ h[n].first \in Links /\ h[n].last \in Links
      BY <1>2, FieldTypes DEF Links
    <3> QED BY <1>2, <3>1, <3>2
  <2> HIDE DEF e
  <2> QED BY <1>1, <2>1 DEF HeapType
<1>6. Inserted(h, p, c, m, a, g)
  <2>1. ASSUME NEW n \in Nodes
        PROVE  /\ e(n).type = h[n].type /\ e(n).name = h[n].name /\ e(n).current = h[n].current
               /\ e(n).parent = IF n = c THEN p ELSE h[n].parent
               /\ e(n).next = IF n = c THEN a ELSE IF n = m THEN c ELSE h[n].next
               /\ e(n).prev = IF n = c THEN m ELSE IF n = a THEN c ELSE h[n].prev
               /\ e(n).first = h[n].first
               /\ e(n).last = IF n = p /\ a = Null THEN c ELSE h[n].last
               /\ e(n).count = IF n = p THEN h[n].count + 1 ELSE h[n].count
    BY <1>2, <1>3 DEF HeapType
  <2> HIDE DEF e
  <2> QED BY <1>1, <1>2, <2>1 DEF Inserted
<1> QED BY <1>4, <1>5, <1>6 DEF g

(* So it does with a new member behind another.                             *)
LEMMA LinkAfterKeeps ==
  ASSUME NEW h, Good(h), NEW p \in Nodes, NEW c \in Nodes, NEW m \in Nodes,
         MayJoin(h, p, c), h[m].parent = p
  PROVE  Good(LinkAfter(h, p, c, m))
<1>1. h[m].next \in Links /\ m \in Links
  BY FieldTypes DEF Good, Links
<1> QED BY <1>1, LinkAfterInserts, InsertKeeps

(* getmember() finds a member of that name if there is one.                 *)
LEMMA MemberFacts ==
  ASSUME NEW h, Good(h), NEW p \in Nodes, NEW name
  PROVE  /\ \A m \in Member(h, p, name) : m \in Nodes /\ h[m].parent = p /\ h[m].name = name
         /\ Member(h, p, name) = {} => \A m \in Nodes : h[m].parent = p => h[m].name # name
<1> DEFINE s == Chain(h, p)
           N == {i \in DOMAIN s : h[s[i]].name = name}
<1>1. s \in Seq(Nodes) /\ Elements(s) = Members(h, p)
  BY ChainFacts
<1>2. Member(h, p, name) = {s[i] : i \in {j \in N : \A k \in N : j <= k}}
  BY Zenon DEF Member
<1> HIDE DEF s
<1>3. DOMAIN s = 1..Len(s) /\ Len(s) \in Nat
  BY <1>1, LenProperties
<1>4. \A i \in N : s[i] \in Nodes /\ h[s[i]].parent = p /\ h[s[i]].name = name
  BY <1>1 DEF Elements, Members
<1>5. ASSUME Member(h, p, name) = {}, NEW m \in Nodes, h[m].parent = p, h[m].name = name
      PROVE  FALSE
  <2>1. m \in Elements(s)
    BY <1>1, <1>5 DEF Members
  <2>2. N # {}
    BY <1>5, <2>1 DEF Elements
  <2>3. N \in SUBSET Nat
    BY <1>3
  <2> HIDE DEF N
  <2>4. \E i \in N : \A j \in N : i <= j
    BY <2>2, <2>3, Least
  <2> QED BY <1>2, <1>5, <2>4
<1> HIDE DEF N
<1>6. \A m \in Member(h, p, name) : m \in Nodes /\ h[m].parent = p /\ h[m].name = name
  BY <1>2, <1>4
<1> QED BY <1>5, <1>6

(* The heap after add() has destroyed the member that has to make way.      *)
MadeRoom(h, p, c) ==
  LET old == IF h[p].type = "struct" THEN Member(h, p, h[c].name) ELSE {}
  IN IF old = {} THEN h ELSE Delete(h, CHOOSE m \in old : TRUE)

(* c does not end up below itself, and a member that makes way does not take *)
(* it along.                                                               *)
MayAttach(h, p, c) ==
  /\ h[p].type \in Containers /\ h[c].type # "free" /\ p \notin Subtree(h, c)
  /\ h[p].type = "struct" => /\ h[c].name # NoName
                             /\ \A m \in Member(h, p, h[c].name) : c \notin Subtree(h, m)

(* Then there is room for c, when it has left its parent.                   *)
LEMMA AttachJoins ==
  ASSUME NEW h, Good(h), NEW p \in Nodes, NEW c \in Nodes, MayAttach(h, p, c),
         NEW r, r = MadeRoom(h, p, c), NEW u, u = Unlink(r, c)
  PROVE  Good(r) /\ Good(u) /\ MayJoin(u, p, c) /\ Attach(h, p, c) = LinkLast(u, p, c)
<1> DEFINE old == IF h[p].type = "struct" THEN Member(h, p, h[c].name) ELSE {}
<1>1. /\ Attach(h, p, c) = LinkLast(u, p, c)
      /\ r = IF old = {} THEN h ELSE Delete(h, CHOOSE m \in old : TRUE)
  BY Zenon DEF Attach, MadeRoom
<1>2. Null \notin Nodes
  BY DataTreeAssumption DEF DataTreeAssumption
<1>3. /\ Good(r) /\ r[p].type = h[p].type /\ r[c].type = h[c].type /\ r[c].name = h[c].name
      /\ \A n \in Nodes : r[n].parent \in {h[n].parent, Null}
      /\ h[p].type = "struct" => \A n \in Nodes : r[n].parent = p => r[n].name # h[c].name
  <2>1. CASE old = {}
    <3>1. r = h
      BY <1>1, <2>1
    <3>2. h[p].type = "struct" => \A n \in Nodes : h[n].parent = p => h[n].name # h[c].name
      BY <2>1, MemberFacts
    <3> QED BY <3>1, <3>2
  <2>2. CASE old # {}
    <3>1. PICK m \in old : r = Delete(h, m)
      BY <1>1, <2>2
    <3>2. h[p].type = "struct" /\ m \in Member(h, p, h[c].name)
      BY <3>1
    <3>3. m \in Nodes /\ h[m].parent = p /\ h[m].name = h[c].name /\ c \notin Subtree(h, m)
      BY <3>2, MemberFacts DEF MayAttach
    <3> HIDE DEF old
    <3>4. /\ Good(r) /\ r[m].parent = Null
          /\ \A n \in Nodes : r[n].parent \in {h[n].parent, Null}
          /\ Spared(h, r, Subtree(h, m))
      BY <3>1, <3>3, DeleteKeeps
    <3>5. p \notin Subtree(h, m) /\ \A n \in Subtree(h, m) : n = m \/ h[n].parent \in Subtree(h, m)
      BY <3>3, SubtreeFacts
    <3>6. ASSUME NEW n \in Nodes, r[n].parent = p PROVE r[n].name # h[c].name
      <4>1. h[n].parent = p /\ n # m
        BY <1>2, <3>4, <3>6
      <4>2. n \notin Subtree(h, m)
        BY <3>5, <4>1
      <4>3. h[n].name # h[c].name
        BY <1>2, <3>2, <3>3, <4>1 DEF Good, Named
      <4> QED BY <3>4, <4>2, <4>3 DEF Spared
    <3> QED BY <3>3, <3>4, <3>5, <3>6 DEF Spared
  <2> QED BY <2>1, <2>2
<1> HIDE DEF old
<1>4. /\ Good(u) /\ SameData(r, u)
      /\ \A n \in Nodes : u[n].parent = IF n = c THEN Null ELSE r[n].parent
  <2>1. Good(r)
    BY <1>3
  <2>2. Good(u) /\ SameData(r, u) /\ Orphaned(r, c, u)
    BY <2>1, UnlinkKeeps
  <2> QED BY <2>2 DEF Orphaned
<1>5. Apart(u, p, c)
  <2>1. /\ Subtree(h, c) \in SUBSET Nodes /\ c \in Subtree(h, c)
        /\ \A n \in Nodes : h[n].parent \in Subtree(h, c) => n \in Subtree(h, c)
    BY SubtreeFacts
  <2>2. \A n \in Nodes : u[n].parent \in Subtree(h, c) => n \in Subtree(h, c)
    BY <1>2, <1>3, <1>4, <2>1
  <2> QED BY <2>1, <2>2 DEF Apart, MayAttach
<1>6. MayJoin(u, p, c)
  <2>1. u[c].parent = Null /\ u[c].type # "free" /\ u[p].type = h[p].type /\ u[c].name = h[c].name
    BY <1>3, <1>4 DEF SameData, MayAttach
  <2>2. h[p].type = "struct" => \A n \in Nodes : u[n].parent = p => u[n].name # h[c].name
    BY <1>2, <1>3, <1>4 DEF SameData
  <2> QED BY <1>5, <2>1, <2>2 DEF MayJoin, MayAttach
<1> QED BY <1>1, <1>3, <1>4, <1>6

(* add() leaves a heap that is in order.                                   *)
LEMMA AttachKeeps ==
  ASSUME NEW h, Good(h), NEW p \in Nodes, NEW c \in Nodes, MayAttach(h, p, c)
  PROVE  Good(Attach(h, p, c))
<1>1. PICK r : r = MadeRoom(h, p, c)
  OBVIOUS
<1>2. PICK u : u = Unlink(r, c)
  OBVIOUS
<1>3. Good(u) /\ MayJoin(u, p, c) /\ Attach(h, p, c) = LinkLast(u, p, c)
  BY <1>1, <1>2, AttachJoins
<1> QED BY <1>3, LinkLastKeeps

(***************************************************************************)
(* copy(): Copy.                                                           *)
(***************************************************************************)

(* Where the copy of a link leads.                                          *)
Follow(f, link) == IF link = Null THEN Null ELSE f[link]

Images(f) == {f[m] : m \in DOMAIN f}

(* The heap g has for every node of the subtree of n its copy under f.      *)
Copied(h, n, f, g) ==
  /\ \A q \in Nodes \ Images(f) : g[q] = h[q]
  /\ \A m \in DOMAIN f :
       /\ g[f[m]].type = h[m].type /\ g[f[m]].name = h[m].name /\ g[f[m]].count = h[m].count
       /\ g[f[m]].parent = IF m = n THEN Null ELSE Follow(f, h[m].parent)
       /\ g[f[m]].next = IF m = n THEN Null ELSE Follow(f, h[m].next)
       /\ g[f[m]].prev = IF m = n THEN Null ELSE Follow(f, h[m].prev)
       /\ g[f[m]].first = Follow(f, h[m].first)
       /\ g[f[m]].last = Follow(f, h[m].last)
       /\ g[f[m]].current = Follow(f, h[m].current)

(* The copies of links lead to the copies of where they led.                *)
CopiedLinks(old, new, S, f) ==
  /\ \A q \in Nodes \ Images(f) : new[q] = old[q]
  /\ \A m \in S : \/ new[f[m]] = Null
                  \/ old[m] \in S /\ new[f[m]] = f[old[m]]

(* Whoever follows the copies of links gets to an end, as in the original. *)
LEMMA CopyingEnds ==
  ASSUME NEW old \in [Nodes -> Links], Ending(old), NEW new \in [Nodes -> Links],
         NEW S \in SUBSET Nodes, NEW f \in [S -> Nodes], CopiedLinks(old, new, S, f)
  PROVE  Ending(new)
<1>1. SUFFICES ASSUME NEW T \in SUBSET Nodes, T # {}, \A n \in T : new[n] \in T PROVE FALSE
  BY DEF Ending
<1>2. Null \notin T
  BY DataTreeAssumption DEF DataTreeAssumption
<1> DEFINE U == {m \in S : f[m] \in T}
<1>3. CASE U = {}
  <2>1. \A n \in T : n \notin Images(f)
    BY <1>3 DEF Images
  <2>2. \A n \in T : old[n] \in T
    BY <1>1, <2>1 DEF CopiedLinks
  <2> QED BY <1>1, <2>2 DEF Ending
<1>4. CASE U # {}
  <2>1. U \in SUBSET Nodes /\ \A m \in U : old[m] \in U
    BY <1>1, <1>2 DEF CopiedLinks
  <2> QED BY <1>4, <2>1 DEF Ending
<1> QED BY <1>3, <1>4

(* The links within a subtree stay there.                                  *)
LEMMA SubtreeLinks ==
  ASSUME NEW h, Good(h), NEW n \in Nodes, h[n].type # "free", NEW S, S = Subtree(h, n)
  PROVE  /\ S \in SUBSET Nodes /\ n \in S /\ h[n].parent \notin S
         /\ \A m \in S : /\ h[m].type # "free"
                         /\ h[m].first \in S \cup {Null} /\ h[m].last \in S \cup {Null}
                         /\ h[m].current \in S \cup {Null}
                         /\ m # n => /\ h[m].parent \in S
                                     /\ h[m].next \in (S \cup {Null}) \ {n}
                                     /\ h[m].prev \in (S \cup {Null}) \ {n}
         /\ \A m \in Nodes : h[m].parent \in S => m \in S /\ m # n
<1>1. /\ S \in SUBSET Nodes /\ n \in S /\ h[n].parent \notin S
      /\ \A m \in Nodes : h[m].parent \in S => m \in S
      /\ \A m \in S : m = n \/ h[m].parent \in S
  BY SubtreeFacts
<1>2. Null \notin Nodes /\ HeapType(h)
  BY DataTreeAssumption DEF DataTreeAssumption, Good
<1>3. ASSUME NEW m \in S
      PROVE  /\ h[m].type # "free"
             /\ h[m].first \in S \cup {Null} /\ h[m].last \in S \cup {Null}
             /\ h[m].current \in S \cup {Null}
             /\ m # n => /\ h[m].parent \in S
                         /\ h[m].next \in (S \cup {Null}) \ {n}
                         /\ h[m].prev \in (S \cup {Null}) \ {n}
  <2>1. h[m].first \in Links /\ h[m].last \in Links /\ h[m].current \in Links
    BY <1>1, <1>2, FieldTypes
  <2>2. h[m].next \in Links /\ h[m].prev \in Links /\ n # Null
    BY <1>1, <1>2, FieldTypes
  <2>3. h[m].type # "free"
    BY <1>1, <1>2 DEF Good, Siblings
  <2>4. h[m].first \in S \cup {Null} /\ h[m].last \in S \cup {Null} /\ h[m].current \in S \cup {Null}
    BY <1>1, <2>1 DEF Good, Lists, Links
  <2>5. ASSUME m # n
        PROVE  /\ h[m].parent \in S
               /\ h[m].next \in (S \cup {Null}) \ {n}
               /\ h[m].prev \in (S \cup {Null}) \ {n}
    BY <1>1, <1>2, <2>2, <2>5 DEF Good, Siblings, Links
  <2> QED BY <2>3, <2>4, <2>5
<1> QED BY <1>1, <1>3

(* A tree of copies next to the old ones leaves a heap that is in order.   *)
LEMMA CopyKeeps ==
  ASSUME NEW h, Good(h), NEW n \in Nodes, h[n].type # "free", NEW S, S = Subtree(h, n),
         NEW f \in [S -> Nodes \ Live(h)], \A m, k \in S : f[m] = f[k] => m = k,
         NEW g, HeapType(g), Copied(h, n, f, g)
  PROVE  Good(g)
<1>1. Null \notin Nodes /\ HeapType(h)
  BY DataTreeAssumption DEF DataTreeAssumption, Good
<1>2. /\ S \in SUBSET Nodes /\ n \in S /\ h[n].parent \notin S
      /\ \A m \in S : /\ h[m].type # "free"
                      /\ h[m].first \in S \cup {Null} /\ h[m].last \in S \cup {Null}
                      /\ h[m].current \in S \cup {Null}
                      /\ m # n => /\ h[m].parent \in S
                                  /\ h[m].next \in (S \cup {Null}) \ {n}
                                  /\ h[m].prev \in (S \cup {Null}) \ {n}
      /\ \A m \in Nodes : h[m].parent \in S => m \in S /\ m # n
  BY SubtreeLinks
<1> DEFINE I == Images(f)
<1>3. /\ I \in SUBSET Nodes /\ \A q \in I : \E m \in S : q = f[m]
      /\ \A q \in I : h[q].type = "free"
      /\ \A m \in S : f[m] \in I /\ f[m] # Null
  BY <1>1 DEF Images, Live
<1>4. /\ \A q \in Nodes \ I : g[q] = h[q]
      /\ \A m \in S :
           /\ g[f[m]].type = h[m].type /\ g[f[m]].name = h[m].name /\ g[f[m]].count = h[m].count
           /\ g[f[m]].parent = IF m = n THEN Null ELSE Follow(f, h[m].parent)
           /\ g[f[m]].next = IF m = n THEN Null ELSE Follow(f, h[m].next)
           /\ g[f[m]].prev = IF m = n THEN Null ELSE Follow(f, h[m].prev)
           /\ g[f[m]].first = Follow(f, h[m].first)
           /\ g[f[m]].last = Follow(f, h[m].last)
           /\ g[f[m]].current = Follow(f, h[m].current)
  BY DEF Copied
<1> HIDE DEF I
<1>5. \A k \in S \cup {Null} : /\ Follow(f, k) = Null <=> k = Null
                               /\ k # Null => k \in S /\ Follow(f, k) = f[k]
  BY <1>3 DEF Follow
(* No link of the old nodes leads to a copy.                                *)
<1>6. \A q \in I : h[q].parent = Null /\ h[q].next = Null /\ h[q].prev = Null
  BY <1>3 DEF Good, Siblings
<1>7. \A m \in Nodes : /\ h[m].parent \notin I /\ h[m].next \notin I /\ h[m].prev \notin I
                       /\ h[m].first \notin I /\ h[m].last \notin I /\ h[m].current \notin I
  <2> TAKE m \in Nodes
  <2>1. h[m].parent \notin I
    BY <1>1, <1>3 DEF Good, Siblings, Containers
  <2>2. h[m].next \notin I /\ h[m].prev \notin I
    BY <1>1, <1>3, <1>6 DEF Good, Siblings
  <2>3. h[m].first \notin I /\ h[m].last \notin I /\ h[m].current \notin I
    BY <1>1, <1>3, <1>6 DEF Good, Lists
  <2> QED BY <2>1, <2>2, <2>3
(* The root of the copy has neither parent nor siblings.                    *)
<1>8. g[f[n]].parent = Null /\ g[f[n]].next = Null /\ g[f[n]].prev = Null
  BY <1>2, <1>4
(* The other copies are linked as their originals.                          *)
<1>9. \A m \in S \ {n} :
        /\ g[f[m]].parent = f[h[m].parent] /\ g[f[m]].parent # Null
        /\ g[f[m]].next = Null <=> h[m].next = Null
        /\ h[m].next # Null => h[m].next \in S \ {n} /\ g[f[m]].next = f[h[m].next]
        /\ g[f[m]].prev = Null <=> h[m].prev = Null
        /\ h[m].prev # Null => h[m].prev \in S \ {n} /\ g[f[m]].prev = f[h[m].prev]
  BY <1>1, <1>2, <1>3, <1>4, <1>5
<1>10. \A m \in S :
        /\ g[f[m]].first = Null <=> h[m].first = Null
        /\ h[m].first # Null => h[m].first \in S /\ g[f[m]].first = f[h[m].first]
        /\ g[f[m]].last = Null <=> h[m].last = Null
        /\ h[m].last # Null => h[m].last \in S /\ g[f[m]].last = f[h[m].last]
        /\ g[f[m]].current = Null <=> h[m].current = Null
        /\ h[m].current # Null => h[m].current \in S /\ g[f[m]].current = f[h[m].current]
  BY <1>2, <1>4, <1>5
<1>11. Siblings(g)
  <2>1. ASSUME NEW q \in Nodes \ I
        PROVE  /\ g[q].next # Null => g[g[q].next].prev = q /\ g[g[q].next].parent = g[q].parent
               /\ g[q].prev # Null => g[g[q].prev].next = q /\ g[g[q].prev].parent = g[q].parent
               /\ g[q].parent = Null => g[q].next = Null /\ g[q].prev = Null
               /\ g[q].parent # Null =>
                    /\ g[g[q].parent].type \in Containers
                    /\ g[q].prev = Null <=> g[g[q].parent].first = q
                    /\ g[q].next = Null <=> g[g[q].parent].last = q
                    /\ g[q].type # "free"
    <3>1. g[q] = h[q]
      BY <1>4
    <3>2. /\ h[q].next # Null => h[q].next \in Nodes \ I
          /\ h[q].prev # Null => h[q].prev \in Nodes \ I
          /\ h[q].parent # Null => h[q].parent \in Nodes \ I
      BY <1>1, <1>7, FieldTypes DEF Links
    <3> QED BY <1>4, <3>1, <3>2 DEF Good, Siblings
  <2>2. ASSUME NEW m \in S \ {n}
        PROVE  LET q == f[m] IN
               /\ g[q].next # Null => g[g[q].next].prev = q /\ g[g[q].next].parent = g[q].parent
               /\ g[q].prev # Null => g[g[q].prev].next = q /\ g[g[q].prev].parent = g[q].parent
               /\ g[q].parent # Null
               /\ g[g[q].parent].type \in Containers
               /\ g[q].prev = Null <=> g[g[q].parent].first = q
               /\ g[q].next = Null <=> g[g[q].parent].last = q
               /\ g[q].type # "free"
    <3>1. m \in S /\ m # n /\ m \in Nodes
      BY <1>2
    <3>2. ASSUME g[f[m]].next # Null
          PROVE  g[g[f[m]].next].prev = f[m] /\ g[g[f[m]].next].parent = g[f[m]].parent
      <4>1. h[m].next # Null /\ h[m].next \in S \ {n} /\ g[f[m]].next = f[h[m].next]
        BY <1>9, <3>1, <3>2
      <4>2. h[h[m].next].prev = m /\ h[h[m].next].parent = h[m].parent
        BY <3>1, <4>1 DEF Good, Siblings
      <4> QED BY <1>1, <1>9, <3>1, <4>1, <4>2
    <3>3. ASSUME g[f[m]].prev # Null
          PROVE  g[g[f[m]].prev].next = f[m] /\ g[g[f[m]].prev].parent = g[f[m]].parent
      <4>1. h[m].prev # Null /\ h[m].prev \in S \ {n} /\ g[f[m]].prev = f[h[m].prev]
        BY <1>9, <3>1, <3>3
      <4>2. h[h[m].prev].next = m /\ h[h[m].prev].parent = h[m].parent
        BY <3>1, <4>1 DEF Good, Siblings
      <4> QED BY <1>1, <1>9, <3>1, <4>1, <4>2
    <3>4. h[m].parent \in S /\ g[f[m]].parent = f[h[m].parent] /\ g[f[m]].parent # Null
      BY <1>2, <1>9, <3>1
    <3>5. /\ h[h[m].parent].type \in Containers
          /\ h[m].prev = Null <=> h[h[m].parent].first = m
          /\ h[m].next = Null <=> h[h[m].parent].last = m
          /\ h[m].type # "free"
      BY <1>1, <1>2, <3>1, <3>4 DEF Good, Siblings
    <3>6. g[f[h[m].parent]].first = f[m] <=> h[h[m].parent].first = m
      BY <1>1, <1>3, <1>10, <3>1, <3>4
    <3>7. g[f[h[m].parent]].last = f[m] <=> h[h[m].parent].last = m
      BY <1>1, <1>3, <1>10, <3>1, <3>4
    <3>8. g[f[m]].type # "free" /\ g[f[h[m].parent]].type \in Containers
      BY <1>4, <3>1, <3>4, <3>5
    <3> QED BY <1>9, <3>1, <3>2, <3>3, <3>4, <3>5, <3>6, <3>7, <3>8
  <2>3. \A q \in I : q = f[n] \/ \E m \in S \ {n} : q = f[m]
    BY <1>3
  <2>4. ASSUME NEW q \in Nodes
        PROVE  /\ g[q].next # Null => g[g[q].next].prev = q /\ g[g[q].next].parent = g[q].parent
               /\ g[q].prev # Null => g[g[q].prev].next = q /\ g[g[q].prev].parent = g[q].parent
               /\ g[q].parent = Null => g[q].next = Null /\ g[q].prev = Null
               /\ g[q].parent # Null =>
                    /\ g[g[q].parent].type \in Containers
                    /\ g[q].prev = Null <=> g[g[q].parent].first = q
                    /\ g[q].next = Null <=> g[g[q].parent].last = q
                    /\ g[q].type # "free"
    <3>1. CASE q \in Nodes \ I
      BY <2>1, <3>1
    <3>2. CASE q = f[n]
      BY <1>8, <3>2
    <3>3. CASE \E m \in S \ {n} : q = f[m]
      <4>1. PICK m \in S \ {n} : q = f[m]
        BY <3>3
      <4> QED BY <2>2, <4>1
    <3> QED BY <2>3, <3>1, <3>2, <3>3
  <2> QED BY <2>4 DEF Siblings
<1>12. Lists(g)
  <2> SUFFICES ASSUME NEW q \in Nodes
               PROVE  /\ g[q].first # Null => g[g[q].first].parent = q
                      /\ g[q].last # Null => g[g[q].last].parent = q
                      /\ g[q].current # Null => g[g[q].current].parent = q
                      /\ g[q].first = Null <=> g[q].last = Null
    BY DEF Lists
  <2>1. CASE q \notin I
    <3>1. g[q] = h[q]
      BY <1>4, <2>1
    <3>2. /\ h[q].first # Null => h[q].first \in Nodes \ I
          /\ h[q].last # Null => h[q].last \in Nodes \ I
          /\ h[q].current # Null => h[q].current \in Nodes \ I
      BY <1>1, <1>7, FieldTypes DEF Links
    <3> QED BY <1>4, <3>1, <3>2 DEF Good, Lists
  <2>2. CASE q \in I
    <3>1. PICK m \in S : q = f[m]
      BY <1>3, <2>2
    <3>2. /\ m \in Nodes
          /\ h[m].first # Null => h[h[m].first].parent = m
          /\ h[m].last # Null => h[h[m].last].parent = m
          /\ h[m].current # Null => h[h[m].current].parent = m
          /\ h[m].first = Null <=> h[m].last = Null
      BY <1>2 DEF Good, Lists
    <3>3. \A k \in S : h[k].parent = m => g[f[k]].parent = f[m]
      BY <1>2, <1>9
    <3> QED BY <1>10, <3>1, <3>2, <3>3
  <2> QED BY <2>1, <2>2
<1>13. Counted(g)
  <2>1. ASSUME NEW q \in Nodes \ I PROVE g[q].count = Cardinality(Members(g, q))
    <3>1. \A m \in S : g[f[m]].parent \in I \cup {Null}
      BY <1>2, <1>3, <1>8, <1>9
    <3>2. \A k \in Nodes : g[k].parent = q <=> h[k].parent = q
      BY <1>1, <1>3, <1>4, <1>6, <3>1
    <3>3. Members(g, q) = Members(h, q)
      BY <3>2 DEF Members
    <3> QED BY <1>4, <3>3 DEF Good, Counted
  <2>2. ASSUME NEW m \in S PROVE g[f[m]].count = Cardinality(Members(g, f[m]))
    <3> DEFINE M == Members(h, m)
               N == Members(g, f[m])
               b == [k \in M |-> f[k]]
    <3>1. M \subseteq S \ {n} /\ IsFiniteSet(M)
      <4>1. IsFiniteSet(Members(h, m))
        BY MembersFinite
      <4>2. Members(h, m) \subseteq S \ {n}
        BY <1>2 DEF Members
      <4> QED BY <4>1, <4>2
    <3>2. \A k \in M : f[k] \in N
      BY <1>2, <1>3, <1>9, <3>1 DEF Members
    <3>3. ASSUME NEW q \in N PROVE \E k \in M : q = f[k]
      <4>1. q \in Nodes /\ g[q].parent = f[m]
        BY DEF Members
      <4>2. q \in I
        BY <1>3, <1>4, <1>7, <4>1
      <4>3. PICK k \in S : q = f[k]
        BY <1>3, <4>2
      <4>4. k # n /\ f[h[k].parent] = f[m] /\ h[k].parent \in S
        BY <1>2, <1>3, <1>8, <1>9, <4>1, <4>3
      <4>5. h[k].parent = m
        BY <4>4
      <4> QED BY <1>2, <4>3, <4>5 DEF Members
    <3> HIDE DEF M, N
    <3>4. b \in Bijection(M, N)
      <4>1. b \in [M -> N]
        BY <3>2
      <4>2. \A k, l \in M : b[k] = b[l] => k = l
        BY <3>1
      <4>3. \A q \in N : \E k \in M : b[k] = q
        BY <3>3
      <4> QED BY <4>1, <4>2, <4>3 DEF Bijection, Injection, Surjection, IsInjective
    <3>5. Cardinality(N) = Cardinality(M)
      <4>1. ExistsBijection(M, N)
        BY <3>4 DEF ExistsBijection
      <4> QED BY <3>1, <4>1, FS_Bijection
    <3> QED BY <1>2, <1>4, <3>5 DEF Good, Counted, M, N
  <2>3. \A q \in Nodes : q \in Nodes \ I \/ \E m \in S : q = f[m]
    BY <1>3
  <2> QED BY <2>1, <2>2, <2>3 DEF Counted
<1>14. Acyclic(g)
  <2>1. /\ NextOf(h) \in [Nodes -> Links] /\ PrevOf(h) \in [Nodes -> Links]
        /\ ParentOf(h) \in [Nodes -> Links]
        /\ \A k \in Nodes : /\ NextOf(h)[k] = h[k].next /\ PrevOf(h)[k] = h[k].prev
                            /\ ParentOf(h)[k] = h[k].parent
        /\ NextOf(g) \in [Nodes -> Links] /\ PrevOf(g) \in [Nodes -> Links]
        /\ ParentOf(g) \in [Nodes -> Links]
        /\ \A k \in Nodes : /\ NextOf(g)[k] = g[k].next /\ PrevOf(g)[k] = g[k].prev
                            /\ ParentOf(g)[k] = g[k].parent
    BY <1>1, LinkFunctions
  <2>2. Ending(NextOf(h)) /\ Ending(PrevOf(h)) /\ Ending(ParentOf(h))
    BY DEF Good, Acyclic
  <2>3. f \in [S -> Nodes] /\ S \in SUBSET Nodes
    BY <1>2
  <2>4. \A q \in Nodes \ Images(f) : g[q] = h[q]
    BY <1>4 DEF I
  <2>5. Ending(NextOf(g))
    <3>1. \A q \in Nodes \ Images(f) : NextOf(g)[q] = NextOf(h)[q]
      BY <1>3, <2>1, <2>4
    <3>2. ASSUME NEW m \in S
          PROVE  \/ NextOf(g)[f[m]] = Null
                 \/ NextOf(h)[m] \in S /\ NextOf(g)[f[m]] = f[NextOf(h)[m]]
      BY <1>2, <1>8, <1>9, <2>1, <2>3
    <3>3. NextOf(h) \in [Nodes -> Links] /\ NextOf(g) \in [Nodes -> Links]
      BY <2>1
    <3>4. CopiedLinks(NextOf(h), NextOf(g), S, f)
      BY <3>1, <3>2 DEF CopiedLinks
    <3> QED BY <2>2, <2>3, <3>3, <3>4, CopyingEnds
  <2>6. Ending(PrevOf(g))
    <3>1. \A q \in Nodes \ Images(f) : PrevOf(g)[q] = PrevOf(h)[q]
      BY <1>3, <2>1, <2>4
    <3>2. ASSUME NEW m \in S
          PROVE  \/ PrevOf(g)[f[m]] = Null
                 \/ PrevOf(h)[m] \in S /\ PrevOf(g)[f[m]] = f[PrevOf(h)[m]]
      BY <1>2, <1>8, <1>9, <2>1, <2>3
    <3>3. PrevOf(h) \in [Nodes -> Links] /\ PrevOf(g) \in [Nodes -> Links]
      BY <2>1
    <3>4. CopiedLinks(PrevOf(h), PrevOf(g), S, f)
      BY <3>1, <3>2 DEF CopiedLinks
    <3> QED BY <2>2, <2>3, <3>3, <3>4, CopyingEnds
  <2>7. Ending(ParentOf(g))
    <3>1. \A q \in Nodes \ Images(f) : ParentOf(g)[q] = ParentOf(h)[q]
      BY <1>3, <2>1, <2>4
    <3>2. ASSUME NEW m \in S
          PROVE  \/ ParentOf(g)[f[m]] = Null
                 \/ ParentOf(h)[m] \in S /\ ParentOf(g)[f[m]] = f[ParentOf(h)[m]]
      BY <1>2, <1>8, <1>9, <2>1, <2>3
    <3>3. ParentOf(h) \in [Nodes -> Links] /\ ParentOf(g) \in [Nodes -> Links]
      BY <2>1
    <3>4. CopiedLinks(ParentOf(h), ParentOf(g), S, f)
      BY <3>1, <3>2 DEF CopiedLinks
    <3> QED BY <2>2, <2>3, <3>3, <3>4, CopyingEnds
  <2> QED BY <2>5, <2>6, <2>7 DEF Acyclic
<1>15. Named(g)
  <2> SUFFICES ASSUME NEW q \in Nodes, g[q].parent # Null, g[g[q].parent].type = "struct"
               PROVE  /\ g[q].name # NoName
                      /\ \A k \in Nodes : g[k].parent = g[q].parent /\ g[k].name = g[q].name => k = q
    BY DEF Named
  <2>1. \A k \in Nodes : \/ k \notin I /\ g[k] = h[k]
                         \/ \E m \in S : k = f[m]
    BY <1>3, <1>4
  <2>2. \A m \in S : g[f[m]].parent # Null => m # n /\ g[f[m]].parent = f[h[m].parent] /\ h[m].parent \in S
    BY <1>2, <1>8, <1>9
  <2>3. CASE q \notin I
    <3>1. g[q] = h[q] /\ h[q].parent \in Nodes \ I
      BY <1>1, <1>4, <1>7, <2>3, FieldTypes DEF Links
    <3>2. \A k \in Nodes : g[k].parent = h[q].parent => k \notin I /\ g[k] = h[k]
      BY <1>3, <2>1, <2>2, <3>1
    <3>3. h[h[q].parent].type = "struct" /\ h[q].parent # Null
      BY <1>4, <3>1
    <3> QED BY <3>1, <3>2, <3>3 DEF Good, Named
  <2>4. CASE q \in I
    <3>1. PICK m \in S : q = f[m]
      BY <1>3, <2>4
    <3>2. m # n /\ g[q].parent = f[h[m].parent] /\ h[m].parent \in S /\ m \in Nodes
      BY <1>2, <2>2, <3>1
    <3>3. h[h[m].parent].type = "struct" /\ h[m].parent # Null
      BY <1>1, <1>2, <1>4, <3>2
    <3>4. /\ h[m].name # NoName
          /\ \A l \in Nodes : h[l].parent = h[m].parent /\ h[l].name = h[m].name => l = m
      BY <3>2, <3>3 DEF Good, Named
    <3>5. ASSUME NEW k \in Nodes, g[k].parent = g[q].parent, g[k].name = g[q].name PROVE k = q
      <4>1. k \in I
        BY <1>3, <1>4, <1>7, <3>2, <3>5
      <4>2. PICK l \in S : k = f[l]
        BY <1>3, <4>1
      <4>3. f[h[l].parent] = f[h[m].parent] /\ h[l].parent \in S
        BY <2>2, <3>2, <3>5, <4>2
      <4>4. h[l].parent = h[m].parent /\ h[l].name = h[m].name /\ l \in Nodes
        BY <1>2, <1>4, <3>1, <3>2, <3>5, <4>2, <4>3
      <4> QED BY <3>1, <3>4, <4>2, <4>4
    <3> QED BY <1>4, <3>1, <3>4, <3>5
  <2> QED BY <2>3, <2>4
<1> QED BY <1>11, <1>12, <1>13, <1>14, <1>15 DEF Good

(***************************************************************************)
(* The cursor moves: Iterate.                                              *)
(***************************************************************************)
LEMMA CursorKeeps ==
  ASSUME NEW h, Good(h), NEW p \in Nodes, NEW current \in Links,
         current # Null => h[current].parent = p
  PROVE  Good([h EXCEPT ![p].current = current])
<1> DEFINE g == [h EXCEPT ![p].current = current]
<1>1. HeapType(h) /\ Null \notin Nodes
  BY DataTreeAssumption DEF DataTreeAssumption, Good
<1>2. HeapType(g)
  BY <1>1 DEF HeapType
<1>3. \A n \in Nodes :
        /\ g[n].type = h[n].type /\ g[n].name = h[n].name /\ g[n].count = h[n].count
        /\ g[n].parent = h[n].parent /\ g[n].next = h[n].next /\ g[n].prev = h[n].prev
        /\ g[n].first = h[n].first /\ g[n].last = h[n].last
        /\ g[n].current = IF n = p THEN current ELSE h[n].current
  BY <1>1 DEF HeapType
<1> HIDE DEF g
<1>4. \A n \in Nodes : /\ h[n].parent \in Links /\ h[n].next \in Links /\ h[n].prev \in Links
                       /\ h[n].first \in Links /\ h[n].last \in Links /\ h[n].current \in Links
  BY <1>1, FieldTypes
<1>5. Siblings(g)
  BY <1>3, <1>4 DEF Good, Siblings, Links
<1>6. Lists(g)
  BY <1>3, <1>4 DEF Good, Lists, Links
<1>7. Counted(g)
  <2>1. \A q \in Nodes : Members(g, q) = Members(h, q)
    BY <1>3 DEF Members
  <2> QED BY <1>3, <2>1 DEF Good, Counted
<1>8. Acyclic(g)
  <2>1. NextOf(g) = NextOf(h) /\ PrevOf(g) = PrevOf(h) /\ ParentOf(g) = ParentOf(h)
    BY <1>3 DEF NextOf, PrevOf, ParentOf
  <2> QED BY <2>1 DEF Good, Acyclic
<1>9. Named(g)
  BY <1>3, <1>4 DEF Good, Named, Links
<1> QED BY <1>2, <1>5, <1>6, <1>7, <1>8, <1>9 DEF Good, g

(***************************************************************************)
(* The steps.                                                              *)
(***************************************************************************)

(* Memory without nodes is in order.                                        *)
LEMMA InitIInv == Init => IInv
<1> SUFFICES ASSUME Init PROVE IInv
  OBVIOUS
<1>1. heap = [n \in Nodes |-> Free] /\ result = Null
  BY DEF Init
<1>2. HeapType(heap) /\ Null \notin Nodes
  BY <1>1, FreeType, DataTreeAssumption DEF DataTreeAssumption
<1>3. \A n \in Nodes : /\ heap[n].parent = Null /\ heap[n].next = Null /\ heap[n].prev = Null
                       /\ heap[n].first = Null /\ heap[n].last = Null
                       /\ heap[n].current = Null /\ heap[n].count = 0
  BY <1>1 DEF Free
<1>4. Siblings(heap) /\ Lists(heap) /\ Named(heap)
  BY <1>3 DEF Siblings, Lists, Named
<1>5. Counted(heap)
  <2>1. \A q \in Nodes : Members(heap, q) = {}
    BY <1>2, <1>3 DEF Members
  <2> QED BY <1>3, <2>1, FS_EmptySet DEF Counted
<1>6. Acyclic(heap)
  BY <1>2, <1>3 DEF Acyclic, Ending, NextOf, PrevOf, ParentOf
<1> QED BY <1>1, <1>2, <1>4, <1>5, <1>6 DEF IInv, Good, Links

(* A call keeps the invariant if the heap it leaves is in order.           *)
LEMMA BecomeKeeps ==
  ASSUME NEW h, NEW c, NEW n, Become(h, c, n), Good(h), n \in Links
  PROVE  IInv'
  BY DEF Become, IInv

(* DDF::DDF()                                                              *)
LEMMA CreateKeeps ==
  ASSUME IInv, NEW n \in Nodes, Create(n)
  PROVE  IInv'
<1>1. PICK name \in Names \cup {NoName} : Become(New(heap, n, name), <<"new", name>>, n)
  BY DEF Create
<1>2. Good(heap) /\ heap[n].type = "free"
  BY DEF IInv, Create, Live
<1>3. Good(New(heap, n, name))
  BY <1>2, NewKeeps
<1> QED BY <1>1, <1>3, BecomeKeeps DEF Links

(* empty(), structure(), list() and the setters of values                  *)
LEMMA SetTypeKeeps ==
  ASSUME IInv, NEW n \in Nodes, SetType(n)
  PROVE  IInv'
<1>1. PICK type \in Types \ {"free"} : Become(Retype(heap, n, type), <<"become", n, type>>, Null)
  BY DEF SetType
<1>2. Good(Retype(heap, n, type))
  BY RetypeKeeps DEF IInv
<1> QED BY <1>1, <1>2, BecomeKeeps DEF Links

(* add()                                                                   *)
LEMMA AddKeeps ==
  ASSUME IInv, NEW p \in Nodes, NEW c \in Nodes, Add(p, c)
  PROVE  IInv'
<1>1. /\ Good(heap) /\ heap[p].type \in Containers /\ heap[c].type # "free"
      /\ p \notin Subtree(heap, c)
      /\ heap[p].type = "struct" => /\ heap[c].name # NoName
                                    /\ \A m \in Member(heap, p, heap[c].name) : c \notin Subtree(heap, m)
      /\ Become(Attach(heap, p, c), <<"add", p, c>>, Null)
  BY DEF IInv, Add, Live
<1>2. Good(Attach(heap, p, c))
  BY <1>1, AttachKeeps DEF MayAttach
<1> QED BY <1>1, <1>2, BecomeKeeps DEF Links

(* c may be put next to a member of the list p when it has left its parent. *)
LEMMA BesideJoins ==
  ASSUME IInv, NEW p \in Nodes, NEW c \in Nodes, NEW m \in Nodes, Beside(p, c, m),
         NEW u, u = Unlink(heap, c)
  PROVE  Good(u) /\ MayJoin(u, p, c) /\ u[m].parent = p
<1>1. /\ Good(heap) /\ heap[p].type = "list" /\ heap[c].type # "free" /\ heap[m].parent = p
      /\ c # m /\ p \notin Subtree(heap, c)
  BY DEF IInv, Beside, Live
<1>2. /\ Good(u) /\ SameData(heap, u)
      /\ \A n \in Nodes : u[n].parent = IF n = c THEN Null ELSE heap[n].parent
  <2>1. Good(heap) /\ u = Unlink(heap, c)
    BY <1>1
  <2>2. Good(u) /\ SameData(heap, u) /\ Orphaned(heap, c, u)
    BY <2>1, UnlinkKeeps
  <2> QED BY <2>2 DEF Orphaned
<1>3. Apart(u, p, c)
  <2>1. /\ Subtree(heap, c) \in SUBSET Nodes /\ c \in Subtree(heap, c)
        /\ \A n \in Nodes : heap[n].parent \in Subtree(heap, c) => n \in Subtree(heap, c)
    BY <1>1, SubtreeFacts
  <2>2. \A n \in Nodes : u[n].parent \in Subtree(heap, c) => n \in Subtree(heap, c)
    BY <1>2, <2>1
  <2> QED BY <1>1, <2>1, <2>2 DEF Apart
<1>4. MayJoin(u, p, c)
  BY <1>1, <1>2, <1>3 DEF MayJoin, SameData, Containers
<1> QED BY <1>1, <1>2, <1>4

(* addbefore() and addafter()                                              *)
LEMMA AddBesideKeeps ==
  ASSUME IInv, NEW p \in Nodes, NEW c \in Nodes, NEW m \in Nodes,
         AddBefore(p, c, m) \/ AddAfter(p, c, m)
  PROVE  IInv'
<1>1. PICK u : u = Unlink(heap, c)
  OBVIOUS
<1>2. Beside(p, c, m)
  BY DEF AddBefore, AddAfter
<1>3. Good(u) /\ MayJoin(u, p, c) /\ u[m].parent = p
  BY <1>1, <1>2, BesideJoins
<1>4. Good(LinkBefore(u, p, c, m)) /\ Good(LinkAfter(u, p, c, m))
  BY <1>3, LinkBeforeKeeps, LinkAfterKeeps
<1>5. CASE AddBefore(p, c, m)
  <2>1. Become(LinkBefore(u, p, c, m), <<"addbefore", p, c, m>>, Null)
    BY <1>1, <1>5, Zenon DEF AddBefore
  <2> QED BY <1>4, <2>1, BecomeKeeps DEF Links
<1>6. CASE AddAfter(p, c, m)
  <2>1. Become(LinkAfter(u, p, c, m), <<"addafter", p, c, m>>, Null)
    BY <1>1, <1>6, Zenon DEF AddAfter
  <2> QED BY <1>4, <2>1, BecomeKeeps DEF Links
<1> QED BY <1>5, <1>6

(* remove() and destroy()                                                  *)
LEMMA LeaveKeeps ==
  ASSUME IInv, NEW c \in Nodes, Remove(c) \/ Destroy(c)
  PROVE  IInv'
<1>1. Good(Unlink(heap, c)) /\ Good(Delete(heap, c))
  BY UnlinkKeeps, DeleteKeeps DEF IInv
<1>2. CASE Remove(c)
  BY <1>1, <1>2, BecomeKeeps DEF Remove, Links
<1>3. CASE Destroy(c)
  BY <1>1, <1>3, BecomeKeeps DEF Destroy, Links
<1> QED BY <1>2, <1>3

(* A node without members is all of its subtree.                            *)
LEMMA LoneSubtree ==
  ASSUME NEW h, Good(h), NEW n \in Nodes, h[n].first = Null
  PROVE  Subtree(h, n) = {n}
<1>1. HeapType(h) /\ Null \in Links
  BY DEF Good, Links
<1>2. Closed(h, {}) /\ {} \in SUBSET Nodes /\ Null \in {} \cup {Null}
  BY DEF Closed
<1>3. Reach(h, {Null}) \subseteq {}
  BY <1>1, <1>2, ReachFacts
<1> QED BY <1>3 DEF Subtree

(* The new member of a struct.                                             *)
LEMMA MayAttachNew ==
  ASSUME NEW h, Good(h), NEW p \in Nodes, h[p].type = "struct", NEW n \in Nodes,
         h[n].type = "free", NEW name \in Names
  PROVE  Good(New(h, n, name)) /\ MayAttach(New(h, n, name), p, n)
<1>1. PICK g : g = New(h, n, name)
  OBVIOUS
<1>2. /\ Good(g) /\ g[n].name = name /\ g[n].type = "leaf"
      /\ \A m \in Nodes : g[m].parent = h[m].parent
      /\ \A m \in Nodes \ {n} : g[m] = h[m]
  BY <1>1, NewKeeps
<1>3. p # n /\ g[p].type = "struct"
  BY <1>2
<1>4. HeapType(g) /\ Null \notin Nodes /\ name # NoName
  BY <1>2, DataTreeAssumption DEF DataTreeAssumption, Good
<1>5. g[n].parent = Null
  BY <1>2 DEF Good, Siblings
<1>6. g[n].first = Null
  <2>1. \A m \in Nodes : g[m].parent # n
    BY <1>2, <1>4 DEF Good, Siblings, Containers
  <2> QED BY <1>2, <1>4, <2>1, FieldTypes DEF Good, Lists, Links
<1>7. p \notin Subtree(g, n)
  BY <1>2, <1>3, <1>6, LoneSubtree
<1>8. ASSUME NEW m \in Member(g, p, g[n].name) PROVE n \notin Subtree(g, m)
  <2>1. m \in Nodes /\ g[m].parent = p
    BY <1>2, MemberFacts
  <2>2. /\ Subtree(g, m) \in SUBSET Nodes
        /\ \A k \in Subtree(g, m) : k = m \/ g[k].parent \in Subtree(g, m)
    BY <1>2, <2>1, SubtreeFacts
  <2> QED BY <1>4, <1>5, <2>1, <2>2
<1>9. MayAttach(g, p, n)
  BY <1>2, <1>3, <1>4, <1>7, <1>8 DEF MayAttach, Containers
<1> QED BY <1>1, <1>2, <1>9

(* addmember()                                                             *)
LEMMA AddMemberKeeps ==
  ASSUME IInv, NEW p \in Nodes, NEW name \in Names, AddMember(p, name)
  PROVE  IInv'
<1>1. PICK h : h = IF heap[p].type = "struct" THEN heap ELSE Retype(heap, p, "struct")
  OBVIOUS
<1>2. Good(h) /\ h[p].type = "struct"
  <2>1. CASE heap[p].type = "struct"
    BY <1>1, <2>1 DEF IInv
  <2>2. CASE heap[p].type # "struct"
    <3>1. "struct" \in Types \ {"free"}
      BY DEF Types, Containers
    <3>2. h = Retype(heap, p, "struct")
      BY <1>1, <2>2
    <3> QED BY <3>1, <3>2, RetypeKeeps DEF IInv
  <2> QED BY <2>1, <2>2
<1>3. IF Member(h, p, name) # {}
        THEN \E m \in Member(h, p, name) : Become(h, <<"addmember", p, name>>, m)
        ELSE \E n \in Nodes \ Live(h) :
               Become(Attach(New(h, n, name), p, n), <<"addmember", p, name>>, n)
  BY <1>1, Zenon DEF AddMember
<1>4. CASE Member(h, p, name) # {}
  <2>1. PICK m \in Member(h, p, name) : Become(h, <<"addmember", p, name>>, m)
    BY <1>3, <1>4
  <2>2. m \in Nodes
    BY <1>2, MemberFacts
  <2> QED BY <1>2, <2>1, <2>2, BecomeKeeps DEF Links
<1>5. CASE Member(h, p, name) = {}
  <2>1. PICK n \in Nodes \ Live(h) :
          Become(Attach(New(h, n, name), p, n), <<"addmember", p, name>>, n)
    BY <1>3, <1>5
  <2>2. h[n].type = "free"
    BY DEF Live
  <2>3. Good(New(h, n, name)) /\ MayAttach(New(h, n, name), p, n)
    BY <1>2, <2>2, MayAttachNew
  <2>4. Good(Attach(New(h, n, name), p, n))
    BY <2>3, AttachKeeps
  <2> QED BY <2>1, <2>4, BecomeKeeps DEF Links
<1> QED BY <1>4, <1>5

(* What copy() writes: one new node for each of the subtree.                *)
Copying(h, n, f, g) ==
  /\ f \in [Subtree(h, n) -> Nodes \ Live(h)]
  /\ \A m, k \in Subtree(h, n) : f[m] = f[k] => m = k
  /\ HeapType(g) /\ Copied(h, n, f, g)

(* copy() writes no more than that, and returns the copy of the node.        *)
LEMMA CopySomewhereWrites ==
  ASSUME IInv, NEW n \in Nodes, CopySomewhere(n)
  PROVE  \E f : Copying(heap, n, f, heap') /\ result' = f[n] /\ f[n] \in Nodes
<1> DEFINE S == Subtree(heap, n)
<1>1. PICK f \in [S -> Nodes \ Live(heap)] :
        (\A m, k \in S : f[m] = f[k] => m = k) /\ Copy(n, f)
  BY Zenon DEF CopySomewhere
<1>2. /\ Good(heap) /\ HeapType(heap) /\ Null \notin Nodes /\ heap[n].type # "free"
  BY <1>1, DataTreeAssumption DEF DataTreeAssumption, IInv, Good, Copy, Live
<1>3. /\ S \in SUBSET Nodes /\ n \in S
      /\ \A m \in S : /\ heap[m].first \in S \cup {Null} /\ heap[m].last \in S \cup {Null}
                      /\ heap[m].current \in S \cup {Null}
                      /\ m # n => /\ heap[m].parent \in S
                                  /\ heap[m].next \in (S \cup {Null}) \ {n}
                                  /\ heap[m].prev \in (S \cup {Null}) \ {n}
  BY <1>2, SubtreeLinks
<1> HIDE DEF S
<1> DEFINE e(m) == [heap[m] EXCEPT
                      !.parent = IF m = n THEN Null ELSE Follow(f, @),
                      !.next = IF m = n THEN Null ELSE Follow(f, @),
                      !.prev = IF m = n THEN Null ELSE Follow(f, @),
                      !.first = Follow(f, @), !.last = Follow(f, @), !.current = Follow(f, @)]
<1>4. /\ heap' = [q \in Nodes |-> IF q \notin Images(f) THEN heap[q]
                                  ELSE e(CHOOSE m \in DOMAIN f : f[m] = q)]
      /\ result' = f[n]
  BY <1>1, Zenon DEF Copy, Become, Follow, Images
<1>5. \A m \in S : f[m] \in Images(f) /\ f[m] \in Nodes /\ (CHOOSE k \in DOMAIN f : f[k] = f[m]) = m
  BY <1>1 DEF Images
<1>6. ASSUME NEW m \in S
      PROVE  /\ e(m).type = heap[m].type /\ e(m).name = heap[m].name /\ e(m).count = heap[m].count
             /\ e(m).parent = IF m = n THEN Null ELSE Follow(f, heap[m].parent)
             /\ e(m).next = IF m = n THEN Null ELSE Follow(f, heap[m].next)
             /\ e(m).prev = IF m = n THEN Null ELSE Follow(f, heap[m].prev)
             /\ e(m).first = Follow(f, heap[m].first)
             /\ e(m).last = Follow(f, heap[m].last)
             /\ e(m).current = Follow(f, heap[m].current)
  BY <1>2, <1>3 DEF HeapType
<1>7. ASSUME NEW m \in S
      PROVE  e(m) \in [type : Types, name : Names \cup {NoName}, parent : Links,
                       next : Links, prev : Links, first : Links, last : Links,
                       current : Links, count : Nat]
  <2>1. heap[m] \in [type : Types, name : Names \cup {NoName}, parent : Links,
                     next : Links, prev : Links, first : Links, last : Links,
                     current : Links, count : Nat]
    BY <1>2, <1>3 DEF HeapType
  <2>2. \A k \in S \cup {Null} : Follow(f, k) \in Links
    BY <1>1 DEF Follow, Links
  <2>3. /\ Null \in Links
        /\ Follow(f, heap[m].first) \in Links /\ Follow(f, heap[m].last) \in Links
        /\ Follow(f, heap[m].current) \in Links
        /\ m # n => /\ Follow(f, heap[m].parent) \in Links /\ Follow(f, heap[m].next) \in Links
                    /\ Follow(f, heap[m].prev) \in Links
    BY <1>3, <2>2 DEF Links
  <2> QED BY <2>1, <2>3
<1> HIDE DEF e
<1>8. \A m \in S : heap'[f[m]] = e(m)
  BY <1>4, <1>5
<1>9. \A q \in Nodes \ Images(f) : heap'[q] = heap[q]
  BY <1>4
<1>10. DOMAIN f = S
  BY <1>1
<1>11. Copied(heap, n, f, heap')
  BY <1>6, <1>8, <1>9, <1>10 DEF Copied
<1>12. HeapType(heap')
  <2>1. \A q \in Nodes : q \notin Images(f) \/ \E m \in S : q = f[m]
    BY <1>10 DEF Images
  <2>2. \A q \in Nodes : heap'[q] \in [type : Types, name : Names \cup {NoName}, parent : Links,
                                       next : Links, prev : Links, first : Links, last : Links,
                                       current : Links, count : Nat]
    BY <1>2, <1>7, <1>8, <1>9, <2>1 DEF HeapType
  <2>3. heap' = [q \in Nodes |-> heap'[q]]
    BY <1>4
  <2> HIDE DEF IInv
  <2> QED BY <2>2, <2>3 DEF HeapType
<1> QED BY <1>1, <1>3, <1>4, <1>5, <1>11, <1>12 DEF Copying, S

(* copy()                                                                  *)
LEMMA CopySomewhereKeeps ==
  ASSUME IInv, NEW n \in Nodes, CopySomewhere(n)
  PROVE  IInv'
<1>1. PICK f : Copying(heap, n, f, heap') /\ result' = f[n] /\ f[n] \in Nodes
  BY CopySomewhereWrites
<1>2. Good(heap) /\ heap[n].type # "free"
  BY DEF IInv, CopySomewhere, Copy, Live
<1>3. PICK S : S = Subtree(heap, n)
  OBVIOUS
<1>4. /\ f \in [S -> Nodes \ Live(heap)] /\ \A m, k \in S : f[m] = f[k] => m = k
      /\ HeapType(heap') /\ Copied(heap, n, f, heap')
  BY <1>1, <1>3 DEF Copying
<1>5. Good(heap')
  BY <1>2, <1>3, <1>4, CopyKeeps
<1> QED BY <1>1, <1>5 DEF IInv, Links

(* first(), next(), last() and previous()                                  *)
LEMMA IterateKeeps ==
  ASSUME IInv, NEW p \in Nodes, First(p) \/ Next_(p) \/ Last(p) \/ Previous(p)
  PROVE  IInv'
<1>1. Good(heap) /\ HeapType(heap) /\ Null \notin Nodes
  BY DataTreeAssumption DEF DataTreeAssumption, IInv, Good
<1>2. ASSUME NEW op, NEW current \in Links, NEW n \in Links, Iterate(op, p, current, n),
             current # Null => heap[current].parent = p
      PROVE  IInv'
  <2>1. Good([heap EXCEPT ![p].current = current])
    BY <1>1, <1>2, CursorKeeps
  <2> QED BY <1>2, <2>1, BecomeKeeps DEF Iterate
<1>3. /\ heap[p].first \in Links /\ heap[p].last \in Links /\ heap[p].current \in Links
      /\ heap[p].first # Null => heap[heap[p].first].parent = p
      /\ heap[p].last # Null => heap[heap[p].last].parent = p
      /\ heap[p].current # Null => heap[heap[p].current].parent = p
  BY <1>1, FieldTypes DEF Good, Lists
<1>4. \A m \in Nodes : heap[m].parent = p =>
         /\ heap[m].next \in Links /\ heap[m].prev \in Links
         /\ heap[m].next # Null => heap[heap[m].next].parent = p
         /\ heap[m].prev # Null => heap[heap[m].prev].parent = p
  BY <1>1, FieldTypes DEF Good, Siblings
<1>5. CASE First(p)
  BY <1>2, <1>3, <1>5 DEF First
<1>6. CASE Next_(p)
  <2>1. PICK n : n = IF heap[p].current = heap[p].last THEN Null
                     ELSE IF heap[p].current = Null THEN heap[p].first
                     ELSE heap[heap[p].current].next
    OBVIOUS
  <2>2. Iterate("next", p, IF heap[p].current = heap[p].last THEN heap[p].current ELSE n, n)
    BY <1>6, <2>1, Zenon DEF Next_
  <2>3. n \in Links /\ (n # Null => heap[n].parent = p)
    BY <1>3, <1>4, <2>1 DEF Links
  <2> QED BY <1>2, <1>3, <2>2, <2>3
<1>7. CASE Last(p)
  <2>1. Iterate("last", p, IF heap[p].last = Null THEN heap[p].current ELSE heap[heap[p].last].prev,
                heap[p].last)
    BY <1>7, Zenon DEF Last
  <2>2. heap[p].last # Null => /\ heap[heap[p].last].prev \in Links
                               /\ heap[heap[p].last].prev # Null =>
                                    heap[heap[heap[p].last].prev].parent = p
    BY <1>3, <1>4 DEF Links
  <2> QED BY <1>2, <1>3, <2>1, <2>2
<1>8. CASE Previous(p)
  <2>1. Iterate("previous", p,
                IF heap[p].current = Null THEN Null ELSE heap[heap[p].current].prev,
                heap[p].current)
    BY <1>8, Zenon DEF Previous
  <2>2. heap[p].current # Null => /\ heap[heap[p].current].prev \in Links
                                  /\ heap[heap[p].current].prev # Null =>
                                       heap[heap[heap[p].current].prev].parent = p
    BY <1>3, <1>4 DEF Links
  <2>3. Null \in Links
    BY DEF Links
  <2> QED BY <1>2, <1>3, <2>1, <2>2, <2>3
<1> QED BY <1>5, <1>6, <1>7, <1>8

(* No call, whatever its arguments, takes the nodes out of order: the       *)
(* invariant is inductive, for any finite memory and any names.            *)
THEOREM Inductive == Spec => []IInv
<1>1. Init => IInv
  BY InitIInv
<1>2. IInv /\ [Next]_vars => IInv'
  <2> SUFFICES ASSUME IInv, [Next]_vars PROVE IInv'
    OBVIOUS
  <2>1. CASE UNCHANGED vars
    BY <2>1 DEF IInv, vars
  <2>2. CASE Next
    <3>1. PICK n \in Nodes :
            \/ Create(n) \/ SetType(n) \/ Remove(n) \/ Destroy(n) \/ CopySomewhere(n)
            \/ First(n) \/ Next_(n) \/ Last(n) \/ Previous(n)
            \/ \E name \in Names : AddMember(n, name)
            \/ \E p \in Nodes : Add(p, n)
            \/ \E p, m \in Nodes : AddBefore(p, n, m) \/ AddAfter(p, n, m)
      BY <2>2 DEF Next
    <3>2. CASE Create(n)
      BY <3>2, CreateKeeps
    <3>3. CASE SetType(n)
      BY <3>3, SetTypeKeeps
    <3>4. CASE Remove(n) \/ Destroy(n)
      BY <3>4, LeaveKeeps
    <3>5. CASE CopySomewhere(n)
      BY <3>5, CopySomewhereKeeps
    <3>6. CASE First(n) \/ Next_(n) \/ Last(n) \/ Previous(n)
      BY <3>6, IterateKeeps
    <3>7. CASE \E name \in Names : AddMember(n, name)
      BY <3>7, AddMemberKeeps
    <3>8. CASE \E p \in Nodes : Add(p, n)
      BY <3>8, AddKeeps
    <3>9. CASE \E p, m \in Nodes : AddBefore(p, n, m) \/ AddAfter(p, n, m)
      BY <3>9, AddBesideKeeps
    <3> QED BY <3>1, <3>2, <3>3, <3>4, <3>5, <3>6, <3>7, <3>8, <3>9
  <2> QED BY <2>1, <2>2
<1> QED BY <1>1, <1>2, PTL DEF Spec

(* After every sequence of calls of DDF's functions (ddf.cpp) the nodes are *)
(* trees: each is in the list of its parent once and in no other, first,    *)
(* last, the cursor and the count agree with the list, nothing is below     *)
(* itself, and a struct has one member of a name.                          *)
THEOREM TreesSafe == Spec => []WellFormed
<1>1. IInv => WellFormed
  BY GoodIsWellFormed
<1> QED BY <1>1, Inductive, PTL

-----------------------------------------------------------------------------
(***************************************************************************)
(* The forest.  The list of members of a node, its cursor and what is      *)
(* below it change with every call as they should; the proof goes from     *)
(* operation to operation of the heap.                                     *)
(***************************************************************************)

(***************************************************************************)
(* Lists of members, as they are linked and as sequences.                  *)
(***************************************************************************)

(* One element less.                                                       *)
LEMMA RemoveAtFacts ==
  ASSUME NEW s \in Seq(Nodes), NEW k \in 1..Len(s), NEW t, t = Forest!RemoveAt(s, k)
  PROVE  /\ t \in Seq(Nodes) /\ Len(t) = Len(s) - 1
         /\ \A i \in 1..Len(t) : t[i] = IF i < k THEN s[i] ELSE s[i + 1]
<1> DEFINE a == SubSeq(s, 1, k - 1)
           b == SubSeq(s, k + 1, Len(s))
<1>1. Len(s) \in Nat /\ k \in Nat /\ k >= 1 /\ k <= Len(s)
  BY LenProperties
<1>2. a \in Seq(Nodes) /\ Len(a) = k - 1 /\ \A i \in 1..(k - 1) : a[i] = s[i]
  <2>1. /\ a \in Seq(Nodes)
        /\ Len(a) = IF 1 <= k - 1 THEN (k - 1) - 1 + 1 ELSE 0
        /\ \A i \in 1..((k - 1) - 1 + 1) : a[i] = s[1 + i - 1]
    BY <1>1, SubSeqProperties
  <2> QED BY <1>1, <2>1
<1>3. b \in Seq(Nodes) /\ Len(b) = Len(s) - k /\ \A i \in 1..(Len(s) - k) : b[i] = s[k + i]
  <2>1. /\ b \in Seq(Nodes)
        /\ Len(b) = IF k + 1 <= Len(s) THEN Len(s) - (k + 1) + 1 ELSE 0
        /\ \A i \in 1..(Len(s) - (k + 1) + 1) : b[i] = s[(k + 1) + i - 1]
    BY <1>1, SubSeqProperties
  <2> QED BY <1>1, <2>1
<1>4. t = a \o b
  BY Zenon DEF Forest!RemoveAt
<1> HIDE DEF a, b
<1>5. /\ t \in Seq(Nodes) /\ Len(t) = Len(a) + Len(b)
      /\ \A i \in 1..(Len(a) + Len(b)) : t[i] = IF i <= Len(a) THEN a[i] ELSE b[i - Len(a)]
  <2>1. a \in Seq(Nodes) /\ b \in Seq(Nodes)
    BY <1>2, <1>3
  <2>2. /\ a \o b \in Seq(Nodes) /\ Len(a \o b) = Len(a) + Len(b)
        /\ \A i \in 1..(Len(a) + Len(b)) : (a \o b)[i] = IF i <= Len(a) THEN a[i] ELSE b[i - Len(a)]
    BY <2>1, ConcatProperties
  <2> QED BY <1>4, <2>2, Zenon
<1>6. Len(t) = Len(s) - 1
  BY <1>1, <1>2, <1>3, <1>5
<1>7. ASSUME NEW i \in 1..Len(t) PROVE t[i] = IF i < k THEN s[i] ELSE s[i + 1]
  <2>1. t[i] = IF i <= k - 1 THEN a[i] ELSE b[i - (k - 1)]
    BY <1>2, <1>5
  <2>2. CASE i < k
    <3>1. i <= k - 1 /\ i \in 1..(k - 1)
      BY <1>1, <2>2
    <3> QED BY <1>2, <2>1, <2>2, <3>1
  <2>3. CASE ~(i < k)
    <3>1. ~(i <= k - 1) /\ i - (k - 1) \in 1..(Len(s) - k) /\ k + (i - (k - 1)) = i + 1
      BY <1>1, <1>6, <2>3
    <3> QED BY <1>3, <2>1, <2>3, <3>1
  <2> QED BY <2>2, <2>3
<1> QED BY <1>5, <1>6, <1>7

(* t is s with n put in as the k-th element.                               *)
Longer(s, k, n, t) ==
  /\ t \in Seq(Nodes) /\ Len(t) = Len(s) + 1
  /\ \A i \in 1..Len(t) : t[i] = IF i < k THEN s[i] ELSE IF i = k THEN n ELSE s[i - 1]

(* One element more.                                                       *)
LEMMA InsertAtFacts ==
  ASSUME NEW s \in Seq(Nodes), NEW k \in 1..(Len(s) + 1), NEW n \in Nodes,
         NEW t, t = Forest!InsertAt(s, k, n)
  PROVE  Longer(s, k, n, t)
<1> DEFINE a == SubSeq(s, 1, k - 1)
           b == SubSeq(s, k, Len(s))
           c == a \o <<n>>
<1>1. Len(s) \in Nat /\ k \in Nat /\ k >= 1 /\ k <= Len(s) + 1
  BY LenProperties
<1>2. a \in Seq(Nodes) /\ Len(a) = k - 1 /\ \A i \in 1..(k - 1) : a[i] = s[i]
  <2>1. /\ a \in Seq(Nodes)
        /\ Len(a) = IF 1 <= k - 1 THEN (k - 1) - 1 + 1 ELSE 0
        /\ \A i \in 1..((k - 1) - 1 + 1) : a[i] = s[1 + i - 1]
    BY <1>1, SubSeqProperties
  <2> QED BY <1>1, <2>1
<1>3. b \in Seq(Nodes) /\ Len(b) = Len(s) - k + 1 /\ \A i \in 1..(Len(s) - k + 1) : b[i] = s[k + i - 1]
  <2>1. /\ b \in Seq(Nodes)
        /\ Len(b) = IF k <= Len(s) THEN Len(s) - k + 1 ELSE 0
        /\ \A i \in 1..(Len(s) - k + 1) : b[i] = s[k + i - 1]
    BY <1>1, SubSeqProperties
  <2> QED BY <1>1, <2>1
<1>4. t = c \o b
  BY Zenon DEF Forest!InsertAt
<1>5. <<n>> \in Seq(Nodes) /\ Len(<<n>>) = 1 /\ <<n>>[1] = n
  OBVIOUS
<1> HIDE DEF a, b
<1>6. /\ c \in Seq(Nodes) /\ Len(c) = k
      /\ \A i \in 1..k : c[i] = IF i < k THEN s[i] ELSE n
  <2>1. /\ c \in Seq(Nodes) /\ Len(c) = Len(a) + Len(<<n>>)
        /\ \A i \in 1..(Len(a) + Len(<<n>>)) :
             c[i] = IF i <= Len(a) THEN a[i] ELSE <<n>>[i - Len(a)]
    BY <1>2, <1>5, ConcatProperties
  <2> HIDE DEF c
  <2>2. Len(c) = k
    BY <1>1, <1>2, <1>5, <2>1
  <2>3. ASSUME NEW i \in 1..k PROVE c[i] = IF i < k THEN s[i] ELSE n
    <3>1. Len(a) = k - 1 /\ i \in 1..(Len(a) + Len(<<n>>))
      BY <1>1, <1>2, <1>5
    <3>2. c[i] = IF i <= k - 1 THEN a[i] ELSE <<n>>[i - (k - 1)]
      BY <2>1, <3>1, Zenon
    <3>3. CASE i < k
      <4>1. i <= k - 1 /\ i \in 1..(k - 1)
        BY <1>1, <3>3
      <4> QED BY <1>2, <3>2, <3>3, <4>1
    <3>4. CASE ~(i < k)
      <4>1. ~(i <= k - 1) /\ i - (k - 1) = 1
        BY <1>1, <3>4
      <4> QED BY <1>5, <3>2, <3>4, <4>1
    <3> QED BY <3>3, <3>4
  <2> QED BY <2>1, <2>2, <2>3
<1> HIDE DEF c
<1>7. /\ t \in Seq(Nodes) /\ Len(t) = Len(c) + Len(b)
      /\ \A i \in 1..(Len(c) + Len(b)) : t[i] = IF i <= Len(c) THEN c[i] ELSE b[i - Len(c)]
  BY <1>3, <1>4, <1>6, ConcatProperties
<1>8. Len(t) = Len(s) + 1
  BY <1>1, <1>3, <1>6, <1>7
<1>9. ASSUME NEW i \in 1..Len(t)
      PROVE  t[i] = IF i < k THEN s[i] ELSE IF i = k THEN n ELSE s[i - 1]
  <2>1. t[i] = IF i <= k THEN c[i] ELSE b[i - k]
    BY <1>1, <1>3, <1>6, <1>7
  <2>2. CASE i <= k
    BY <1>1, <1>6, <2>1, <2>2
  <2>3. CASE ~(i <= k)
    <3>1. i - k \in 1..(Len(s) - k + 1) /\ k + (i - k) - 1 = i - 1 /\ ~(i < k) /\ i # k
      BY <1>1, <1>8, <2>3
    <3> QED BY <1>3, <2>1, <2>3, <3>1
  <2> QED BY <2>2, <2>3
<1> QED BY <1>7, <1>8, <1>9 DEF Longer

(* The links from p's first member on are those of the sequence s.          *)
Listed(h, p, s) ==
  /\ s \in Seq(Nodes)
  /\ h[p].first = IF s = <<>> THEN Null ELSE s[1]
  /\ \A i \in 1..Len(s) : h[s[i]].next = IF i < Len(s) THEN s[i + 1] ELSE Null

(* A link leads to the k-th member, or, if k is 0, nowhere.                 *)
At(link, s, k) == IF link = Null THEN k = 0 ELSE k \in 1..Len(s) /\ s[k] = link

(* The cursor of p is at the k-th member, or in front of the first.         *)
Placed(h, p, s, k) == At(h[p].current, s, k)

IsList(h, p, s, k) == Listed(h, p, s) /\ Placed(h, p, s, k)

Distinct(s) == \A i, j \in 1..Len(s) : s[i] = s[j] => i = j

(* Every node has a list: what ListOf says, each member once.               *)
LEMMA ListHas ==
  ASSUME NEW h, Good(h), NEW p \in Nodes
  PROVE  \E s, k : /\ IsList(h, p, s, k)
                   /\ ListOf(h, p) = [members |-> s, passed |-> k]
                   /\ s \in Seq(Nodes) /\ k \in 0..Len(s)
                   /\ Elements(s) = Members(h, p)
                   /\ Distinct(s)
                   /\ h[p].last = IF s = <<>> THEN Null ELSE s[Len(s)]
                   /\ \A i \in 1..Len(s) : h[s[i]].prev = IF i = 1 THEN Null ELSE s[i - 1]
<1> DEFINE s == Chain(h, p)
           k == IF h[p].current = Null THEN 0 ELSE CHOOSE i \in DOMAIN s : s[i] = h[p].current
<1>1. /\ s \in Seq(Nodes) /\ Elements(s) = Members(h, p)
      /\ Distinct(s)
      /\ h[p].last = IF s = <<>> THEN Null ELSE s[Len(s)]
      /\ \A i \in 1..Len(s) : h[s[i]].prev = IF i = 1 THEN Null ELSE s[i - 1]
  BY ChainFacts DEF Distinct
<1>2. ListOf(h, p) = [members |-> s, passed |-> k]
  BY Zenon DEF ListOf
<1>3. Listed(h, p, s)
  <2>1. CASE h[p].first = Null
    <3>1. s = <<>> /\ 1..Len(<<>>) = {}
      BY <2>1, ChainIsWay
    <3> QED BY <1>1, <2>1, <3>1 DEF Listed
  <2>2. CASE h[p].first # Null
    <3>1. Way(h, h[p].first, s)
      BY <2>2, ChainIsWay
    <3> QED BY <1>1, <3>1 DEF Way, Listed
  <2> QED BY <2>1, <2>2
<1> HIDE DEF s
<1>4. DOMAIN s = 1..Len(s) /\ Len(s) \in Nat
  BY <1>1, LenProperties
<1>5. Placed(h, p, s, k) /\ k \in 0..Len(s)
  <2>1. CASE h[p].current = Null
    BY <1>4, <2>1 DEF Placed, At
  <2>2. CASE h[p].current # Null
    <3>1. h[p].current \in Members(h, p)
      BY <2>2, FieldTypes DEF Good, Lists, Members, Links
    <3>2. \E i \in DOMAIN s : s[i] = h[p].current
      BY <1>1, <3>1 DEF Elements
    <3>3. k \in DOMAIN s /\ s[k] = h[p].current
      BY <2>2, <3>2
    <3> QED BY <1>4, <2>2, <3>3 DEF Placed, At
  <2> QED BY <2>1, <2>2
<1> HIDE DEF k
<1> QED BY <1>1, <1>2, <1>3, <1>5 DEF IsList

(* And it has no other.                                                    *)
LEMMA ListIs ==
  ASSUME NEW h, Good(h), NEW p \in Nodes, NEW s, NEW k, IsList(h, p, s, k)
  PROVE  ListOf(h, p) = [members |-> s, passed |-> k]
<1>1. PICK t, l : /\ IsList(h, p, t, l)
                  /\ ListOf(h, p) = [members |-> t, passed |-> l]
                  /\ Distinct(t)
  BY ListHas
<1>2. Listed(h, p, s) /\ Listed(h, p, t) /\ Placed(h, p, s, k) /\ Placed(h, p, t, l)
  BY <1>1 DEF IsList
<1>3. Null \notin Nodes
  BY DataTreeAssumption DEF DataTreeAssumption
<1>4. ASSUME NEW u, Listed(h, p, u)
      PROVE  h[p].first = Null <=> u = <<>>
  <2>1. CASE u = <<>>
    BY <1>4, <2>1 DEF Listed
  <2>2. CASE u # <<>>
    <3>1. u \in Seq(Nodes) /\ 1 \in 1..Len(u)
      BY <1>4, <2>2, EmptySeq DEF Listed
    <3>2. u[1] \in Nodes
      BY <3>1, ElementOfSeq
    <3> QED BY <1>3, <1>4, <2>2, <3>2 DEF Listed
  <2> QED BY <2>1, <2>2
<1>5. s = t
  <2>1. CASE h[p].first = Null
    BY <1>2, <1>4, <2>1
  <2>2. CASE h[p].first # Null
    <3>1. s # <<>> /\ t # <<>>
      BY <1>2, <1>4, <2>2
    <3>2. Way(h, h[p].first, s) /\ Way(h, h[p].first, t)
      BY <1>2, <3>1 DEF Listed, Way
    <3> QED BY <3>2, OneWay
  <2> QED BY <2>1, <2>2
<1>6. k = l
  BY <1>1, <1>2, <1>5 DEF At, Placed, Distinct
<1> QED BY <1>1, <1>5, <1>6

AllLists(h) == [p \in Nodes |-> ListOf(h, p)]

(* Nodes p and their lists are linked in g as in h, but for those of p.     *)
LEMMA SameList ==
  ASSUME NEW h, Good(h), NEW g, Good(g), NEW p \in Nodes,
         g[p].first = h[p].first, g[p].current = h[p].current,
         \A m \in Nodes : h[m].parent = p => g[m].next = h[m].next
  PROVE  ListOf(g, p) = ListOf(h, p)
<1>1. PICK s, k : /\ IsList(h, p, s, k)
                  /\ ListOf(h, p) = [members |-> s, passed |-> k]
                  /\ s \in Seq(Nodes) /\ Elements(s) = Members(h, p)
  BY ListHas
<1>2. DOMAIN s = 1..Len(s)
  BY <1>1, LenProperties
<1>3. \A i \in 1..Len(s) : s[i] \in Nodes /\ h[s[i]].parent = p
  BY <1>1, <1>2 DEF Elements, Members
<1>4. IsList(g, p, s, k)
  BY <1>1, <1>3 DEF IsList, Listed, Placed, At
<1> QED BY <1>1, <1>4, ListIs

(***************************************************************************)
(* remove()                                                                *)
(***************************************************************************)

(* Every node has a list after somebody has left.                           *)
LEMMA LeavingDomain ==
  ASSUME NEW L, NEW n
  PROVE  Forest!Leaving(L, n) = [p \in Nodes |-> Forest!Leaving(L, n)[p]]
<1> DEFINE known(p) == {i \in DOMAIN L[p].members : L[p].members[i] = n}
           e(p) == IF known(p) = {} THEN L[p]
                   ELSE Forest!Without(L[p], CHOOSE i \in known(p) : TRUE)
<1>1. Forest!Leaving(L, n) = [p \in Nodes |-> e(p)]
  BY Zenon DEF Forest!Leaving
<1> HIDE DEF e
<1> QED BY <1>1

(* What leaving means for one list.                                        *)
LEMMA LeavingFacts ==
  ASSUME NEW L, NEW n, NEW p \in Nodes, NEW s \in Seq(Nodes), NEW k,
         L[p] = [members |-> s, passed |-> k],
         Distinct(s)
  PROVE  /\ (\A i \in 1..Len(s) : s[i] # n) => Forest!Leaving(L, n)[p] = L[p]
         /\ \A j \in 1..Len(s) : s[j] = n =>
              Forest!Leaving(L, n)[p] =
                [members |-> Forest!RemoveAt(s, j), passed |-> IF j <= k THEN k - 1 ELSE k]
<1> DEFINE places == {i \in DOMAIN s : s[i] = n}
<1>1. L[p].members = s /\ L[p].passed = k
  OBVIOUS
<1>2. DOMAIN s = 1..Len(s)
  BY LenProperties
<1>3. Forest!Leaving(L, n)[p] =
        IF places = {} THEN L[p] ELSE Forest!Without(L[p], CHOOSE i \in places : TRUE)
  <2> DEFINE known == {i \in DOMAIN L[p].members : L[p].members[i] = n}
  <2>1. Forest!Leaving(L, n)[p] =
          IF known = {} THEN L[p] ELSE Forest!Without(L[p], CHOOSE i \in known : TRUE)
    BY Zenon DEF Forest!Leaving
  <2>2. known = places
    BY <1>1, Zenon
  <2> QED BY <2>1, <2>2, Zenon
<1>4. ASSUME \A i \in 1..Len(s) : s[i] # n PROVE Forest!Leaving(L, n)[p] = L[p]
  <2>1. places = {}
    BY <1>2, <1>4
  <2> QED BY <1>3, <2>1, Zenon
<1>5. ASSUME NEW j \in 1..Len(s), s[j] = n
      PROVE  Forest!Leaving(L, n)[p] =
                [members |-> Forest!RemoveAt(s, j), passed |-> IF j <= k THEN k - 1 ELSE k]
  <2>1. places = {j}
    BY <1>2, <1>5 DEF Distinct
  <2> HIDE DEF places
  <2>2. places # {} /\ (CHOOSE i \in places : TRUE) = j
    BY <2>1
  <2>3. Forest!Leaving(L, n)[p] = Forest!Without(L[p], j)
    BY <1>3, <2>2, Zenon
  <2> QED BY <1>1, <2>3, Zenon DEF Forest!Without
<1> QED BY <1>4, <1>5

(* A node that is unlinked leaves the list of its parent, whose cursor      *)
(* stays behind the same members, and no other list changes.               *)
LEMMA UnlinkLists ==
  ASSUME NEW h, Good(h), NEW c \in Nodes
  PROVE  AllLists(Unlink(h, c)) = Forest!Leaving(AllLists(h), c)
<1> DEFINE L == AllLists(h)
<1>1. PICK g : g = Unlink(h, c)
  OBVIOUS
<1>2. Good(g)
  BY <1>1, UnlinkKeeps
<1>3. Null \notin Nodes /\ HeapType(h)
  BY DataTreeAssumption DEF DataTreeAssumption, Good
<1>4. ASSUME NEW p \in Nodes PROVE ListOf(g, p) = Forest!Leaving(L, c)[p]
  <2>1. PICK s, k : /\ IsList(h, p, s, k)
                    /\ ListOf(h, p) = [members |-> s, passed |-> k]
                    /\ s \in Seq(Nodes) /\ k \in 0..Len(s)
                    /\ Elements(s) = Members(h, p)
                    /\ Distinct(s)
    BY ListHas
  <2>2. DOMAIN s = 1..Len(s) /\ Len(s) \in Nat /\ \A i \in 1..Len(s) : s[i] \in Nodes
    BY <2>1, LenProperties, ElementOfSeq
  <2>3. \A i \in 1..Len(s) : h[s[i]].parent = p
    BY <2>1, <2>2 DEF Elements, Members
  <2>4. L[p] = [members |-> s, passed |-> k]
    BY <2>1 DEF AllLists
  <2> HIDE DEF L
  <2>5. /\ (\A i \in 1..Len(s) : s[i] # c) => Forest!Leaving(L, c)[p] = L[p]
        /\ \A j \in 1..Len(s) : s[j] = c =>
              Forest!Leaving(L, c)[p] =
                [members |-> Forest!RemoveAt(s, j), passed |-> IF j <= k THEN k - 1 ELSE k]
    BY <2>1, <2>4, LeavingFacts
  <2>6. CASE h[c].parent = Null
    <3>1. g = h
      BY <1>1, <2>6, Zenon DEF Unlink
    <3>2. \A i \in 1..Len(s) : s[i] # c
      BY <1>3, <2>3, <2>6
    <3> QED BY <2>1, <2>4, <2>5, <3>1, <3>2
  <2>7. CASE h[c].parent # Null
    <3>1. \A n \in Nodes :
            /\ g[n].next = IF n = c THEN Null
                           ELSE IF n = h[c].prev THEN h[c].next ELSE h[n].next
            /\ g[n].first = IF n = h[c].parent /\ h[n].first = c THEN h[c].next ELSE h[n].first
            /\ g[n].current = IF n = h[c].parent /\ h[n].current = c THEN h[c].prev
                              ELSE h[n].current
      BY <1>1, <1>3, <2>7, UnlinkFields
    <3>2. h[c].prev # Null => h[h[c].prev].parent = h[c].parent
      BY DEF Good, Siblings
    <3>3. CASE h[c].parent # p
      <4>1. \A i \in 1..Len(s) : s[i] # c
        BY <2>3, <3>3
      <4>2. \A m \in Nodes : h[m].parent = p => g[m].next = h[m].next
        BY <1>3, <3>1, <3>2, <3>3
      <4>3. g[p].first = h[p].first /\ g[p].current = h[p].current
        BY <3>1, <3>3
      <4>4. ListOf(g, p) = ListOf(h, p)
        BY <1>2, <4>2, <4>3, SameList
      <4> QED BY <2>1, <2>4, <2>5, <4>1, <4>4
    <3>4. CASE h[c].parent = p
      <4>1. PICK j \in 1..Len(s) : s[j] = c
        BY <2>1, <2>2, <3>4 DEF Elements, Members
      <4>2. PICK t : t = Forest!RemoveAt(s, j)
        OBVIOUS
      <4>3. PICK l : l = IF j <= k THEN k - 1 ELSE k
        OBVIOUS
      <4>4. Forest!Leaving(L, c)[p] = [members |-> t, passed |-> l]
        BY <2>5, <4>1, <4>2, <4>3
      <4>5. /\ t \in Seq(Nodes) /\ Len(t) = Len(s) - 1 /\ j \in Nat /\ j >= 1 /\ j <= Len(s)
            /\ \A i \in 1..Len(t) : t[i] = IF i < j THEN s[i] ELSE s[i + 1]
        <5>1. s \in Seq(Nodes) /\ j \in 1..Len(s)
          BY <2>1, <4>1
        <5>2. /\ t \in Seq(Nodes) /\ Len(t) = Len(s) - 1
              /\ \A i \in 1..Len(t) : t[i] = IF i < j THEN s[i] ELSE s[i + 1]
          BY <4>2, <5>1, RemoveAtFacts
        <5> QED BY <2>2, <5>1, <5>2
      <4>6. /\ \A i \in 1..Len(s) : h[s[i]].next = IF i < Len(s) THEN s[i + 1] ELSE Null
            /\ h[p].first = s[1] /\ 1 \in 1..Len(s)
        BY <2>1, <2>2, <4>5, EmptySeq DEF IsList, Listed
      <4>7. h[c].next = IF j < Len(s) THEN s[j + 1] ELSE Null
        BY <4>1, <4>6
      <4>8. h[c].prev = IF j = 1 THEN Null ELSE s[j - 1]
        <5>1. CASE j = 1
          BY <1>3, <3>4, <4>1, <4>6, <5>1 DEF Good, Siblings
        <5>2. CASE j # 1
          <6>1. j - 1 \in 1..Len(s) /\ j - 1 < Len(s) /\ (j - 1) + 1 = j
            BY <2>2, <4>5, <5>2
          <6>2. h[s[j - 1]].next = c /\ s[j - 1] \in Nodes
            BY <2>2, <4>1, <4>6, <6>1
          <6> QED BY <1>3, <5>2, <6>2 DEF Good, Siblings
        <5> QED BY <5>1, <5>2
      <4>9. Listed(g, p, t)
        <5>1. g[p].first = IF t = <<>> THEN Null ELSE t[1]
          <6>1. t = <<>> <=> Len(s) = 1
            BY <2>2, <4>5, EmptySeq
          <6>2. CASE j = 1
            <7>1. g[p].first = h[c].next
              BY <3>1, <3>4, <4>1, <4>6, <6>2
            <7>2. 1 < Len(s) => 1 \in 1..Len(t) /\ ~(1 < j)
              BY <2>2, <4>5, <6>2
            <7> QED BY <2>2, <4>5, <4>7, <6>1, <6>2, <7>1, <7>2
          <6>3. CASE j # 1
            <7>1. 1 \in 1..Len(t) /\ 1 < j /\ Len(s) # 1
              BY <2>2, <4>5, <6>3
            <7>2. s[1] # c
              BY <2>1, <4>1, <4>6, <6>3 DEF Distinct
            <7> QED BY <3>1, <4>5, <4>6, <6>1, <7>1, <7>2
          <6> QED BY <6>2, <6>3
        <5>2. ASSUME NEW i \in 1..Len(t)
              PROVE  g[t[i]].next = IF i < Len(t) THEN t[i + 1] ELSE Null
          <6>1. CASE i < j - 1
            <7>1. /\ i \in 1..Len(s) /\ i < j /\ i < Len(t) /\ i < Len(s)
                  /\ i + 1 \in 1..Len(t) /\ i + 1 < j /\ i # j - 1 /\ i # j
              BY <2>2, <4>5, <6>1
            <7>2. t[i] = s[i] /\ t[i + 1] = s[i + 1]
              BY <4>5, <7>1
            <7>3. s[i] # c /\ s[i] # h[c].prev
              BY <1>3, <2>1, <2>2, <4>1, <4>5, <4>8, <7>1 DEF Distinct
            <7> QED BY <2>2, <3>1, <4>6, <7>1, <7>2, <7>3
          <6>2. CASE i = j - 1
            <7>1. /\ i \in 1..Len(s) /\ i < j /\ i # j /\ j # 1
                  /\ i < Len(t) <=> j < Len(s)
                  /\ j < Len(s) => i + 1 \in 1..Len(t) /\ ~(i + 1 < j) /\ (i + 1) + 1 = j + 1
              BY <2>2, <4>5, <6>2
            <7>2. t[i] = s[i] /\ (j < Len(s) => t[i + 1] = s[j + 1])
              BY <4>5, <7>1
            <7>3. s[i] # c /\ s[i] = h[c].prev
              BY <2>1, <4>1, <4>8, <6>2, <7>1 DEF Distinct
            <7> QED BY <2>2, <3>1, <4>7, <7>1, <7>2, <7>3
          <6>3. CASE i >= j
            <7>1. /\ i + 1 \in 1..Len(s) /\ ~(i < j) /\ i + 1 # j /\ i + 1 # j - 1
                  /\ i < Len(t) <=> i + 1 < Len(s)
                  /\ i < Len(t) => i + 1 \in 1..Len(t) /\ ~(i + 1 < j)
              BY <2>2, <4>5, <6>3
            <7>2. t[i] = s[i + 1] /\ (i < Len(t) => t[i + 1] = s[(i + 1) + 1])
              BY <4>5, <7>1
            <7>3. s[i + 1] # c /\ s[i + 1] # h[c].prev
              <8>1. s[i + 1] # c
                BY <2>1, <4>1, <7>1 DEF Distinct
              <8>2. j # 1 => j - 1 \in 1..Len(s)
                BY <2>2, <4>5
              <8> QED BY <1>3, <2>1, <2>2, <4>8, <7>1, <8>1, <8>2 DEF Distinct
            <7> QED BY <2>2, <3>1, <4>6, <7>1, <7>2, <7>3
          <6>4. i < j - 1 \/ i = j - 1 \/ i >= j
            BY <4>5
          <6> QED BY <6>1, <6>2, <6>3, <6>4
        <5> QED BY <4>5, <5>1, <5>2 DEF Listed
      <4>10. Placed(g, p, t, l)
        <5>1. Placed(h, p, s, k)
          BY <2>1 DEF IsList
        <5>2. CASE k = 0
          <6>1. h[p].current = Null /\ l = 0
            BY <2>2, <4>3, <4>5, <5>1, <5>2 DEF Placed, At
          <6>2. g[p].current = Null
            BY <3>1, <1>3, <6>1
          <6> QED BY <6>1, <6>2 DEF Placed, At
        <5>3. CASE k # 0
          <6>1. k \in 1..Len(s) /\ s[k] = h[p].current /\ s[k] \in Nodes
            BY <2>2, <5>1, <5>3 DEF Placed, At
          <6>2. CASE k = j
            <7>1. g[p].current = h[c].prev /\ l = j - 1
              BY <3>1, <3>4, <4>1, <4>3, <4>5, <6>1, <6>2
            <7>2. CASE j = 1
              BY <4>8, <7>1, <7>2 DEF Placed, At
            <7>3. CASE j # 1
              <8>1. j - 1 \in 1..Len(t) /\ j - 1 \in 1..Len(s) /\ j - 1 < j
                BY <2>2, <4>5, <7>3
              <8>2. t[j - 1] = s[j - 1] /\ s[j - 1] # Null
                BY <1>3, <2>2, <4>5, <8>1
              <8> QED BY <4>8, <7>1, <7>3, <8>1, <8>2 DEF Placed, At
            <7> QED BY <7>2, <7>3
          <6>3. CASE k # j
            <7>1. g[p].current = s[k] /\ s[k] # Null
              BY <1>3, <2>1, <3>1, <4>1, <6>1, <6>3 DEF Distinct
            <7>2. l \in 1..Len(t) /\ t[l] = s[k]
              <8>1. CASE j < k
                <9>1. l = k - 1 /\ l \in 1..Len(t) /\ ~(l < j) /\ l + 1 = k
                  BY <2>2, <4>3, <4>5, <6>1, <8>1
                <9> QED BY <4>5, <9>1
              <8>2. CASE ~(j < k)
                <9>1. l = k /\ l \in 1..Len(t) /\ l < j
                  BY <2>2, <4>3, <4>5, <6>1, <6>3, <8>2
                <9> QED BY <4>5, <9>1
              <8> QED BY <8>1, <8>2
            <7> QED BY <7>1, <7>2 DEF Placed, At
          <6> QED BY <6>2, <6>3
        <5> QED BY <5>2, <5>3
      <4> QED BY <1>2, <4>4, <4>9, <4>10, ListIs DEF IsList
    <3> QED BY <3>3, <3>4
  <2> QED BY <2>6, <2>7
<1>5. AllLists(g) = [p \in Nodes |-> Forest!Leaving(L, c)[p]]
  BY <1>4 DEF AllLists
<1>6. Forest!Leaving(L, c) = [p \in Nodes |-> Forest!Leaving(L, c)[p]]
  BY LeavingDomain
<1> QED BY <1>1, <1>5, <1>6

(***************************************************************************)
(* What is below a node, and freeing it.                                   *)
(***************************************************************************)

(* The members of the forest's lists are the members.                       *)
LEMMA MembersAre ==
  ASSUME Good(heap), NEW p \in Nodes
  PROVE  Forest!Members(p) = Members(heap, p)
<1>1. PICK s, k : /\ ListOf(heap, p) = [members |-> s, passed |-> k]
                  /\ Elements(s) = Members(heap, p)
  BY ListHas
<1> DEFINE L == [n \in Nodes |-> ListOf(heap, n)]
<1>2. L[p].members = s
  BY <1>1
<1>3. Forest!Members(p) = Elements(L[p].members)
  BY Zenon DEF Forest!Members, Forest!ToSet, Elements
<1> QED BY <1>1, <1>2, <1>3

(* All members of R are in R.                                              *)
Full(h, R) == \A m \in Nodes : h[m].parent \in R => m \in R

(* The subtree of n is in every set that holds n and all members of its     *)
(* elements.                                                               *)
LEMMA SubtreeLeast ==
  ASSUME NEW h, Good(h), NEW n \in Nodes, NEW R \in SUBSET Nodes, n \in R, Full(h, R)
  PROVE  Subtree(h, n) \subseteq R
<1> DEFINE S == Subtree(h, n)
           T == S \ R
<1>1. S \in SUBSET Nodes /\ \A m \in S : m = n \/ h[m].parent \in S
  BY SubtreeFacts
<1> HIDE DEF S
<1>2. ASSUME T # {} PROVE FALSE
  <2>1. T \in SUBSET Nodes
    BY <1>1
  <2>2. PICK m \in T : ParentOf(h)[m] \notin T
    <3> HIDE DEF T
    <3> QED BY <1>2, <2>1 DEF Good, Acyclic, Ending
  <2>3. m \in S /\ m \notin R /\ m \in Nodes /\ h[m].parent \notin T
    BY <2>1, <2>2 DEF ParentOf
  <2>4. h[m].parent \in R
    BY <1>1, <2>3
  <2> QED BY <2>3, <2>4 DEF Full
<1> QED BY <1>2 DEF S

(* A family of the forest is a subtree of the heap.                         *)
LEMMA FamilyIsSubtree ==
  ASSUME Good(heap), NEW n \in Nodes
  PROVE  Forest!Family(n) = Subtree(heap, n)
<1> DEFINE links == UNION {{p} \X Forest!Members(p) : p \in Nodes}
           S == Subtree(heap, n)
<1>1. Forest!Family(n) =
        {m \in Nodes : \A R \in {Q \in SUBSET Nodes : n \in Q /\ \A l \in links : l[1] \in Q => l[2] \in Q} :
                         m \in R}
  BY Zenon DEF Forest!Family
<1>2. ASSUME NEW R \in SUBSET Nodes
      PROVE  (\A l \in links : l[1] \in R => l[2] \in R) <=> Full(heap, R)
  <2>1. \A p \in Nodes : Forest!Members(p) = {m \in Nodes : heap[m].parent = p}
    BY MembersAre DEF Members
  <2>2. ASSUME \A l \in links : l[1] \in R => l[2] \in R PROVE Full(heap, R)
    <3>1. ASSUME NEW m \in Nodes, heap[m].parent \in R PROVE m \in R
      <4>1. <<heap[m].parent, m>> \in {heap[m].parent} \X Forest!Members(heap[m].parent)
        BY <2>1, <3>1
      <4>2. <<heap[m].parent, m>> \in links
        BY <3>1, <4>1
      <4> HIDE DEF links
      <4>3. <<heap[m].parent, m>>[1] \in R => <<heap[m].parent, m>>[2] \in R
        BY <2>2, <4>2
      <4> QED BY <3>1, <4>3
    <3> QED BY <3>1 DEF Full
  <2>3. ASSUME Full(heap, R), NEW l \in links, l[1] \in R PROVE l[2] \in R
    <3>1. PICK p \in Nodes : l \in {p} \X Forest!Members(p)
      BY <2>3
    <3>2. l[1] = p /\ l[2] \in Forest!Members(p)
      BY <3>1
    <3> QED BY <2>1, <2>3, <3>2 DEF Full
  <2> QED BY <2>2, <2>3
<1> HIDE DEF links
<1>3. Forest!Family(n) = {m \in Nodes : \A R \in SUBSET Nodes : n \in R /\ Full(heap, R) => m \in R}
  BY <1>1, <1>2
<1>4. S \in SUBSET Nodes /\ n \in S /\ Full(heap, S)
  BY SubtreeFacts DEF Full
<1>5. \A R \in SUBSET Nodes : n \in R /\ Full(heap, R) => S \subseteq R
  BY SubtreeLeast
<1> HIDE DEF S
<1> QED BY <1>3, <1>4, <1>5 DEF S

(* A subtree is given back: its nodes have no members any more, and no      *)
(* other list changes.                                                     *)
LEMMA CutLists ==
  ASSUME NEW h, Good(h), NEW g, Good(g), NEW c \in Nodes, NEW S, S = Subtree(h, c),
         \A n \in Nodes \ S : g[n] = h[n],
         \A n \in S : g[n].first = Null /\ g[n].current = Null,
         g[c].next = h[c].next
  PROVE  AllLists(g) = Forest!Emptied(AllLists(h), S)
<1>1. S \in SUBSET Nodes /\ \A m \in S : m = c \/ h[m].parent \in S
  BY SubtreeFacts
<1>2. ASSUME NEW p \in S PROVE ListOf(g, p) = Forest!Empty
  <2>1. <<>> \in Seq(Nodes) /\ 1..Len(<<>>) = {}
    OBVIOUS
  <2>2. IsList(g, p, <<>>, 0)
    BY <1>1, <2>1 DEF IsList, Listed, Placed, At
  <2>3. ListOf(g, p) = [members |-> <<>>, passed |-> 0]
    BY <1>1, <2>2, ListIs
  <2> QED BY <2>3, Zenon DEF Forest!Empty
<1>3. ASSUME NEW p \in Nodes \ S PROVE ListOf(g, p) = ListOf(h, p)
  <2>1. \A m \in Nodes : h[m].parent = p => g[m].next = h[m].next
    BY <1>1, <1>3
  <2> QED BY <1>3, <2>1, SameList
<1>4. AllLists(g) = [p \in Nodes |-> IF p \in S THEN Forest!Empty ELSE AllLists(h)[p]]
  BY <1>2, <1>3 DEF AllLists
<1> QED BY <1>4, Zenon DEF Forest!Emptied

(* Unlinking a node does not change what is below it.                       *)
LEMMA SubtreeStays ==
  ASSUME NEW h, Good(h), NEW c \in Nodes
  PROVE  Subtree(Unlink(h, c), c) = Subtree(h, c)
<1>1. PICK r : r = Unlink(h, c)
  OBVIOUS
<1>2. Good(r) /\ \A n \in Nodes : r[n].parent = IF n = c THEN Null ELSE h[n].parent
  BY <1>1, UnlinkKeeps DEF Orphaned
<1>3. Subtree(r, c) \subseteq Subtree(h, c)
  BY <1>2, SubtreeShrinks
<1>4. Subtree(h, c) \subseteq Subtree(r, c)
  <2>1. Subtree(r, c) \in SUBSET Nodes /\ c \in Subtree(r, c) /\ Full(r, Subtree(r, c))
    BY <1>2, SubtreeFacts DEF Full
  <2>2. Full(h, Subtree(r, c))
    BY <1>2, <2>1 DEF Full
  <2> QED BY <2>1, <2>2, SubtreeLeast
<1> QED BY <1>1, <1>3, <1>4

(* destroy()                                                               *)
LEMMA DeleteLists ==
  ASSUME NEW h, Good(h), NEW c \in Nodes
  PROVE  AllLists(Delete(h, c)) = Forest!Emptied(Forest!Leaving(AllLists(h), c), Subtree(h, c))
<1>1. PICK r : r = Unlink(h, c)
  OBVIOUS
<1>2. PICK S : S = Subtree(h, c)
  OBVIOUS
<1>3. PICK g : g = Release(r, S)
  OBVIOUS
<1>4. S = Subtree(r, c)
  BY <1>1, <1>2, SubtreeStays
<1>5. g = Delete(h, c)
  BY <1>1, <1>3, <1>4, Zenon DEF Delete
<1>6. Good(r) /\ r[c].parent = Null
  BY <1>1, UnlinkKeeps DEF Orphaned
<1>7. Good(g)
  BY <1>5, DeleteKeeps
<1>8. S \in SUBSET Nodes /\ c \in S
  BY <1>2, SubtreeFacts
<1>9. /\ \A n \in S : g[n] = Free
      /\ \A n \in Nodes \ S : g[n] = r[n]
  BY <1>3, <1>8 DEF Release
<1>10. r[c].next = Null
  BY <1>6 DEF Good, Siblings
<1>11. AllLists(g) = Forest!Emptied(AllLists(r), S)
  BY <1>4, <1>6, <1>7, <1>8, <1>9, <1>10, CutLists DEF Free
<1>12. AllLists(r) = Forest!Leaving(AllLists(h), c)
  BY <1>1, UnlinkLists
<1> QED BY <1>2, <1>5, <1>11, <1>12

(* In g the node n has another type, and what was below it is free.         *)
Retyped(h, n, type, g) ==
  /\ \A m \in Nodes \ Subtree(h, n) : g[m] = h[m]
  /\ \A m \in Subtree(h, n) \ {n} : g[m] = Free
  /\ g[n] = [Free EXCEPT !.type = type, !.name = h[n].name, !.parent = h[n].parent,
                         !.next = h[n].next, !.prev = h[n].prev]

(* What empty() and a change of type write.                                 *)
LEMMA RetypeFields ==
  ASSUME NEW h, Good(h), NEW n \in Nodes, NEW type
  PROVE  Retyped(h, n, type, Retype(h, n, type))
<1> DEFINE g == Retype(h, n, type)
<1>1. Subtree(h, n) \in SUBSET Nodes /\ n \in Subtree(h, n)
  BY SubtreeFacts
<1>2. PICK fresh : fresh = [Free EXCEPT !.type = type, !.name = h[n].name, !.parent = h[n].parent,
                                        !.next = h[n].next, !.prev = h[n].prev]
  OBVIOUS
<1>3. g = [Release(h, Subtree(h, n) \ {n}) EXCEPT ![n] = fresh]
  BY <1>2, Zenon DEF Retype
<1>4. g = [m \in Nodes |-> IF m = n THEN fresh ELSE IF m \in Subtree(h, n) THEN Free ELSE h[m]]
  BY <1>1, <1>3 DEF Release
<1> HIDE DEF g
<1>5. Retyped(h, n, type, g)
  BY <1>1, <1>2, <1>4 DEF Retyped
<1> QED BY <1>5 DEF g

(* empty() and a change of type                                            *)
LEMMA RetypeLists ==
  ASSUME NEW h, Good(h), NEW n \in Nodes, NEW type \in Types \ {"free"}
  PROVE  AllLists(Retype(h, n, type)) = Forest!Emptied(AllLists(h), Subtree(h, n))
<1>1. PICK g : g = Retype(h, n, type)
  OBVIOUS
<1>2. Good(g)
  BY <1>1, RetypeKeeps
<1>3. PICK S : S = Subtree(h, n)
  OBVIOUS
<1>4. Retyped(h, n, type, g)
  BY <1>1, RetypeFields
<1>5. g[n].first = Null /\ g[n].current = Null /\ g[n].next = h[n].next
  BY <1>4 DEF Free, Retyped
<1>6. \A m \in S : m # n => g[m] = Free
  BY <1>3, <1>4 DEF Retyped
<1>7. \A m \in S : g[m].first = Null /\ g[m].current = Null
  BY <1>5, <1>6 DEF Free
<1>8. \A m \in Nodes \ S : g[m] = h[m]
  BY <1>3, <1>4 DEF Retyped
<1>9. AllLists(g) = Forest!Emptied(AllLists(h), S)
  BY <1>2, <1>3, <1>5, <1>7, <1>8, CutLists
<1> QED BY <1>1, <1>3, <1>9

(***************************************************************************)
(* New nodes, and new members.                                             *)
(***************************************************************************)

(* Free memory is linked to nothing.                                       *)
LEMMA FreeNode ==
  ASSUME NEW h, Good(h), NEW n \in Nodes, h[n].type = "free"
  PROVE  /\ h[n].parent = Null /\ h[n].next = Null /\ h[n].prev = Null
         /\ h[n].first = Null /\ h[n].current = Null
<1>1. Null \notin Nodes /\ HeapType(h)
  BY DataTreeAssumption DEF DataTreeAssumption, Good
<1>2. \A m \in Nodes : h[m].parent # n
  BY <1>1 DEF Good, Siblings, Containers
<1>3. h[n].first \in Links /\ h[n].current \in Links
  BY <1>1, FieldTypes
<1>4. h[n].first = Null /\ h[n].current = Null
  BY <1>2, <1>3 DEF Good, Lists, Links
<1>5. h[n].parent = Null /\ h[n].next = Null /\ h[n].prev = Null
  BY DEF Good, Siblings
<1> QED BY <1>4, <1>5

(* new                                                                     *)
LEMMA NewLists ==
  ASSUME NEW h, Good(h), NEW n \in Nodes, h[n].type = "free", NEW name \in Names \cup {NoName}
  PROVE  AllLists(New(h, n, name)) = AllLists(h)
<1>1. PICK g : g = New(h, n, name)
  OBVIOUS
<1>2. Good(g) /\ \A m \in Nodes \ {n} : g[m] = h[m]
  BY <1>1, NewKeeps
<1>3. h[n].parent = Null /\ h[n].next = Null /\ h[n].first = Null /\ h[n].current = Null
  BY FreeNode
<1>4. g[n].next = Null /\ g[n].first = Null /\ g[n].current = Null
  <2>1. HeapType(h)
    BY DEF Good
  <2>2. g = [h EXCEPT ![n] = [Free EXCEPT !.type = "leaf", !.name = name]]
    BY <1>1, Zenon DEF New
  <2> QED BY <2>1, <2>2 DEF HeapType, Free
<1>5. ASSUME NEW p \in Nodes PROVE ListOf(g, p) = ListOf(h, p)
  <2>1. g[p].first = h[p].first /\ g[p].current = h[p].current
    BY <1>2, <1>3, <1>4
  <2>2. \A m \in Nodes : g[m].next = h[m].next
    BY <1>2, <1>3, <1>4
  <2> QED BY <1>2, <2>1, <2>2, SameList
<1> QED BY <1>1, <1>5 DEF AllLists

(* b and a are the nodes before and behind the place i in the list of p.    *)
Between(h, p, i, b, a) ==
  LET s == ListOf(h, p).members IN
  /\ i \in 1..(Len(s) + 1)
  /\ b = IF i = 1 THEN Null ELSE s[i - 1]
  /\ a = IF i = Len(s) + 1 THEN Null ELSE s[i]

(* A node that is put between two neighbours, or at an end, is in its place *)
(* in the list; the cursor stays behind the same members, and behind the    *)
(* new one if that is among them.                                          *)
LEMMA InsertLists ==
  ASSUME NEW h, Good(h), NEW p \in Nodes, NEW c \in Nodes, NEW b \in Links, NEW a \in Links,
         MayJoin(h, p, c), Adjacent(h, p, b, a), NEW j, Between(h, p, j, b, a),
         NEW g, Good(g), Inserted(h, p, c, b, a, g)
  PROVE  AllLists(g) = Forest!Joining(AllLists(h), p, j, c)
<1>1. Null \notin Nodes /\ h[c].parent = Null
  BY DataTreeAssumption DEF DataTreeAssumption, MayJoin
<1>2. /\ b # Null => h[b].parent = p
      /\ \A n \in Nodes :
           /\ g[n].current = h[n].current
           /\ g[n].next = IF n = c THEN a ELSE IF n = b THEN c ELSE h[n].next
           /\ g[n].first = IF n = p /\ b = Null THEN c ELSE h[n].first
  BY DEF Adjacent, Inserted
<1>3. ASSUME NEW q \in Nodes, q # p PROVE ListOf(g, q) = ListOf(h, q)
  <2>1. \A m \in Nodes : h[m].parent = q => g[m].next = h[m].next
    BY <1>1, <1>2, <1>3
  <2>2. g[q].first = h[q].first /\ g[q].current = h[q].current
    BY <1>2, <1>3
  <2> QED BY <2>1, <2>2, SameList
<1>4. ListOf(g, p) = Forest!With(ListOf(h, p), j, c)
  <2>1. PICK s, k : /\ IsList(h, p, s, k)
                    /\ ListOf(h, p) = [members |-> s, passed |-> k]
                    /\ s \in Seq(Nodes) /\ k \in 0..Len(s)
                    /\ Elements(s) = Members(h, p)
                    /\ Distinct(s)
    BY ListHas
  <2>2. DOMAIN s = 1..Len(s) /\ Len(s) \in Nat /\ \A i \in 1..Len(s) : s[i] \in Nodes
    BY <2>1, LenProperties, ElementOfSeq
  <2>3. \A i \in 1..Len(s) : h[s[i]].parent = p
    BY <2>1, <2>2 DEF Elements, Members
  <2>4. ListOf(h, p).members = s /\ ListOf(h, p).passed = k
    BY <2>1
  <2>5. /\ j \in 1..(Len(s) + 1) /\ j \in Nat
        /\ b = IF j = 1 THEN Null ELSE s[j - 1]
        /\ a = IF j = Len(s) + 1 THEN Null ELSE s[j]
    BY <2>2, <2>4 DEF Between
  <2>6. PICK t : t = Forest!InsertAt(s, j, c)
    OBVIOUS
  <2>7. PICK l : l = IF j <= k THEN k + 1 ELSE k
    OBVIOUS
  <2>8. Forest!With(ListOf(h, p), j, c) = [members |-> t, passed |-> l]
    BY <2>4, <2>6, <2>7, Zenon DEF Forest!With
  <2>9. /\ t \in Seq(Nodes) /\ Len(t) = Len(s) + 1
        /\ \A i \in 1..Len(t) : t[i] = IF i < j THEN s[i] ELSE IF i = j THEN c ELSE s[i - 1]
    <3>1. s \in Seq(Nodes) /\ j \in 1..(Len(s) + 1) /\ c \in Nodes
      BY <2>1, <2>5
    <3>2. Longer(s, j, c, t)
      BY <2>6, <3>1, InsertAtFacts
    <3> QED BY <3>2 DEF Longer
  <2>10. /\ \A i \in 1..Len(s) : h[s[i]].next = IF i < Len(s) THEN s[i + 1] ELSE Null
         /\ h[p].first = IF s = <<>> THEN Null ELSE s[1]
    BY <2>1 DEF IsList, Listed
  <2>11. \A i \in 1..Len(s) : s[i] # c
    BY <1>1, <2>3
  <2>12. \A i \in 1..Len(s) : s[i] = b <=> i = j - 1
    <3>1. CASE j = 1
      BY <1>1, <2>2, <2>5, <3>1
    <3>2. CASE j # 1
      <4>1. j - 1 \in 1..Len(s) /\ b = s[j - 1]
        BY <2>2, <2>5, <3>2
      <4> QED BY <2>1, <4>1 DEF Distinct
    <3> QED BY <3>1, <3>2
  <2>13. b = Null <=> j = 1
    BY <1>1, <2>2, <2>5
  <2>14. Listed(g, p, t)
    <3>1. g[p].first = IF t = <<>> THEN Null ELSE t[1]
      <4>1. t # <<>> /\ 1 \in 1..Len(t)
        BY <2>2, <2>9, EmptySeq
      <4>2. CASE j = 1
        BY <1>2, <2>9, <2>13, <4>1, <4>2
      <4>3. CASE j # 1
        <5>1. 1 < j /\ s # <<>>
          BY <2>2, <2>5, <4>3, EmptySeq
        <5> QED BY <1>2, <2>9, <2>10, <2>13, <4>1, <4>3, <5>1
      <4> QED BY <4>2, <4>3
    <3>2. ASSUME NEW i \in 1..Len(t)
          PROVE  g[t[i]].next = IF i < Len(t) THEN t[i + 1] ELSE Null
      <4>1. CASE i < j - 1
        <5>1. /\ i \in 1..Len(s) /\ i < j /\ i < Len(t) /\ i < Len(s) /\ i # j - 1
              /\ i + 1 \in 1..Len(t) /\ i + 1 < j
          BY <2>2, <2>5, <2>9, <4>1
        <5>2. t[i] = s[i] /\ t[i + 1] = s[i + 1]
          BY <2>9, <5>1
        <5> QED BY <1>2, <2>2, <2>10, <2>11, <2>12, <5>1, <5>2
      <4>2. CASE i = j - 1
        <5>1. /\ i \in 1..Len(s) /\ i < j /\ i < Len(t)
              /\ i + 1 \in 1..Len(t) /\ ~(i + 1 < j) /\ i + 1 = j
          BY <2>2, <2>5, <2>9, <4>2
        <5>2. t[i] = s[i] /\ t[i + 1] = c
          BY <2>9, <5>1
        <5> QED BY <1>2, <2>2, <2>11, <2>12, <4>2, <5>1, <5>2
      <4>3. CASE i = j
        <5>1. /\ t[i] = c /\ ~(i < j)
              /\ i < Len(t) <=> j # Len(s) + 1
              /\ i < Len(t) => i + 1 \in 1..Len(t) /\ ~(i + 1 < j) /\ i + 1 # j /\ (i + 1) - 1 = j
          BY <2>2, <2>5, <2>9, <4>3
        <5>2. i < Len(t) => t[i + 1] = s[j]
          BY <2>9, <5>1
        <5> QED BY <1>2, <2>5, <5>1, <5>2
      <4>4. CASE i > j
        <5>1. /\ i - 1 \in 1..Len(s) /\ ~(i < j) /\ i # j /\ i - 1 # j - 1
              /\ i < Len(t) <=> i - 1 < Len(s)
              /\ (i - 1) + 1 = i
              /\ i < Len(t) => /\ i + 1 \in 1..Len(t) /\ ~(i + 1 < j) /\ i + 1 # j
                               /\ (i + 1) - 1 = i
          BY <2>2, <2>5, <2>9, <4>4
        <5>2. t[i] = s[i - 1] /\ (i < Len(t) => t[i + 1] = s[i])
          BY <2>9, <5>1
        <5> QED BY <1>2, <2>2, <2>10, <2>11, <2>12, <5>1, <5>2
      <4>5. i < j - 1 \/ i = j - 1 \/ i = j \/ i > j
        BY <2>5
      <4> QED BY <4>1, <4>2, <4>3, <4>4, <4>5
    <3> QED BY <2>9, <3>1, <3>2 DEF Listed
  <2>15. Placed(g, p, t, l)
    <3>1. Placed(h, p, s, k) /\ g[p].current = h[p].current
      BY <1>2, <2>1 DEF IsList
    <3>2. CASE k = 0
      BY <1>1, <2>2, <2>5, <2>7, <3>1, <3>2 DEF Placed, At
    <3>3. CASE k # 0
      <4>1. k \in 1..Len(s) /\ s[k] = h[p].current /\ h[p].current # Null
        BY <2>2, <3>1, <3>3 DEF Placed, At
      <4>2. l \in 1..Len(t) /\ t[l] = s[k]
        <5>1. CASE j <= k
          <6>1. l = k + 1 /\ l \in 1..Len(t) /\ ~(l < j) /\ l # j /\ l - 1 = k
            BY <2>2, <2>5, <2>7, <2>9, <4>1, <5>1
          <6> QED BY <2>9, <6>1
        <5>2. CASE ~(j <= k)
          <6>1. l = k /\ l \in 1..Len(t) /\ l < j
            BY <2>2, <2>5, <2>7, <2>9, <4>1, <5>2
          <6> QED BY <2>9, <6>1
        <5> QED BY <5>1, <5>2
      <4> QED BY <3>1, <4>1, <4>2 DEF Placed, At
    <3> QED BY <3>2, <3>3
  <2> QED BY <2>8, <2>14, <2>15, ListIs DEF IsList
<1>5. AllLists(g) = [q \in Nodes |-> IF q = p THEN Forest!With(AllLists(h)[p], j, c) ELSE AllLists(h)[q]]
  BY <1>3, <1>4 DEF AllLists
<1>6. Forest!Joining(AllLists(h), p, j, c) =
        [AllLists(h) EXCEPT ![p] = Forest!With(AllLists(h)[p], j, c)]
  BY Zenon DEF Forest!Joining
<1>7. AllLists(h) \in [Nodes -> {AllLists(h)[q] : q \in Nodes}]
  BY DEF AllLists
<1> QED BY <1>5, <1>6, <1>7

(* A member of p is in its list.                                           *)
LEMMA InList ==
  ASSUME NEW h, Good(h), NEW p \in Nodes, NEW m \in Nodes, h[m].parent = p
  PROVE  \E i \in DOMAIN ListOf(h, p).members : ListOf(h, p).members[i] = m
<1>1. PICK s, k : /\ ListOf(h, p) = [members |-> s, passed |-> k]
                  /\ Elements(s) = Members(h, p)
  BY ListHas
<1>2. ListOf(h, p).members = s
  BY <1>1
<1>3. m \in Elements(s)
  BY <1>1 DEF Members
<1> QED BY <1>2, <1>3 DEF Elements

(* Links to members are links to neighbours in the list.                    *)
LEMMA Neighbours ==
  ASSUME NEW h, Good(h), NEW p \in Nodes, NEW i \in DOMAIN ListOf(h, p).members, NEW m,
         m = ListOf(h, p).members[i]
  PROVE  /\ Between(h, p, i, h[m].prev, m)
         /\ Between(h, p, i + 1, m, h[m].next)
<1>1. PICK s, k : /\ IsList(h, p, s, k)
                  /\ ListOf(h, p) = [members |-> s, passed |-> k]
                  /\ s \in Seq(Nodes)
                  /\ \A j \in 1..Len(s) : h[s[j]].prev = IF j = 1 THEN Null ELSE s[j - 1]
  BY ListHas
<1>2. ListOf(h, p).members = s
  BY <1>1
<1>3. DOMAIN s = 1..Len(s) /\ Len(s) \in Nat /\ m = s[i] /\ i \in 1..Len(s)
  BY <1>1, <1>2, LenProperties
<1>4. h[m].prev = (IF i = 1 THEN Null ELSE s[i - 1])
  BY <1>1, <1>3
<1>5. h[m].next = IF i < Len(s) THEN s[i + 1] ELSE Null
  BY <1>1, <1>3 DEF IsList, Listed
<1>6. /\ i \in 1..(Len(s) + 1) /\ i # Len(s) + 1 /\ i + 1 \in 1..(Len(s) + 1) /\ i + 1 # 1
      /\ (i + 1) - 1 = i /\ (i < Len(s) <=> i + 1 # Len(s) + 1)
  BY <1>3
<1>7. Between(h, p, i, h[m].prev, m)
  BY <1>2, <1>3, <1>4, <1>6 DEF Between
<1>8. Between(h, p, i + 1, m, h[m].next)
  BY <1>2, <1>3, <1>5, <1>6 DEF Between
<1> QED BY <1>7, <1>8

(* The rest of add()                                                       *)
LEMMA LinkLastLists ==
  ASSUME NEW h, Good(h), NEW p \in Nodes, NEW c \in Nodes, MayJoin(h, p, c)
  PROVE  AllLists(LinkLast(h, p, c)) = Forest!JoiningLast(AllLists(h), p, c)
<1>1. PICK g : g = LinkLast(h, p, c)
  OBVIOUS
<1>2. PICK l : l = h[p].last
  OBVIOUS
<1>3. PICK s, k : /\ ListOf(h, p) = [members |-> s, passed |-> k]
                  /\ s \in Seq(Nodes)
                  /\ l = IF s = <<>> THEN Null ELSE s[Len(s)]
  BY <1>2, ListHas
<1>4. ListOf(h, p).members = s /\ AllLists(h)[p].members = s
  BY <1>3 DEF AllLists
<1>5. Between(h, p, Len(s) + 1, l, Null)
  <2>1. Len(s) \in Nat /\ (s = <<>> <=> Len(s) = 0)
    BY <1>3, LenProperties, EmptySeq
  <2>2. Len(s) + 1 \in 1..(Len(s) + 1) /\ (Len(s) + 1 = 1 <=> s = <<>>) /\ (Len(s) + 1) - 1 = Len(s)
    BY <2>1
  <2> QED BY <1>3, <1>4, <2>2 DEF Between
<1>6. l \in Links /\ Null \in Links
  BY <1>2, FieldTypes DEF Good, Links
<1>7. Adjacent(h, p, l, Null) /\ Inserted(h, p, c, l, Null, g)
  BY <1>1, <1>2, LinkLastInserts
<1>8. Good(g)
  BY <1>1, LinkLastKeeps
<1>9. AllLists(g) = Forest!Joining(AllLists(h), p, Len(s) + 1, c)
  BY <1>5, <1>6, <1>7, <1>8, InsertLists
<1> QED BY <1>1, <1>4, <1>9, Zenon DEF Forest!JoiningLast

(* The rest of addbefore() and addafter()                                   *)
LEMMA LinkBesideLists ==
  ASSUME NEW h, Good(h), NEW p \in Nodes, NEW c \in Nodes, NEW m \in Nodes,
         MayJoin(h, p, c), h[m].parent = p,
         NEW i \in DOMAIN ListOf(h, p).members, m = ListOf(h, p).members[i]
  PROVE  /\ AllLists(LinkBefore(h, p, c, m)) = Forest!Joining(AllLists(h), p, i, c)
         /\ AllLists(LinkAfter(h, p, c, m)) = Forest!Joining(AllLists(h), p, i + 1, c)
<1>1. PICK b, a : b = h[m].prev /\ a = h[m].next
  OBVIOUS
<1>2. b \in Links /\ a \in Links /\ m \in Links
  BY <1>1, FieldTypes DEF Good, Links
<1>3. Between(h, p, i, b, m) /\ Between(h, p, i + 1, m, a)
  BY <1>1, Neighbours
<1>4. AllLists(LinkBefore(h, p, c, m)) = Forest!Joining(AllLists(h), p, i, c)
  <2>1. PICK g : g = LinkBefore(h, p, c, m)
    OBVIOUS
  <2>2. Adjacent(h, p, b, m) /\ Inserted(h, p, c, b, m, g)
    BY <1>1, <2>1, LinkBeforeInserts
  <2>3. Good(g)
    BY <2>1, LinkBeforeKeeps
  <2> QED BY <1>2, <1>3, <2>1, <2>2, <2>3, InsertLists
<1>5. AllLists(LinkAfter(h, p, c, m)) = Forest!Joining(AllLists(h), p, i + 1, c)
  <2>1. PICK g : g = LinkAfter(h, p, c, m)
    OBVIOUS
  <2>2. Adjacent(h, p, m, a) /\ Inserted(h, p, c, m, a, g)
    BY <1>1, <2>1, LinkAfterInserts
  <2>3. Good(g)
    BY <2>1, LinkAfterKeeps
  <2> QED BY <1>2, <1>3, <2>1, <2>2, <2>3, InsertLists
<1> QED BY <1>4, <1>5

(***************************************************************************)
(* first(), next(), last() and previous().                                 *)
(***************************************************************************)

(* The cursor of p is set, and i of its members are passed.                  *)
Pointed(h, p, current) == [h EXCEPT ![p].current = current]
Passing(L, p, i) == [L EXCEPT ![p].passed = i]

(* A cursor that is at the i-th member has passed i of them.                *)
LEMMA CursorLists ==
  ASSUME NEW h, Good(h), NEW p \in Nodes, NEW s, NEW k, IsList(h, p, s, k),
         NEW current \in Links, NEW i,
         At(current, s, i),
         NEW g, g = Pointed(h, p, current), Good(g)
  PROVE  AllLists(g) = Passing(AllLists(h), p, i)
<1>1. HeapType(h)
  BY DEF Good
<1>2. /\ \A n \in Nodes : g[n].first = h[n].first /\ g[n].next = h[n].next
      /\ \A n \in Nodes \ {p} : g[n].current = h[n].current
      /\ g[p].current = current
  BY <1>1 DEF HeapType, Pointed
<1>3. ASSUME NEW n \in Nodes, n # p PROVE ListOf(g, n) = ListOf(h, n)
  <2>1. g[n].first = h[n].first /\ g[n].current = h[n].current
    BY <1>2, <1>3
  <2>2. \A m \in Nodes : h[m].parent = n => g[m].next = h[m].next
    BY <1>2
  <2> QED BY <2>1, <2>2, SameList
<1>4. ListOf(h, p) = [members |-> s, passed |-> k]
  BY ListIs
<1>5. ListOf(g, p) = [members |-> s, passed |-> i]
  <2>1. Listed(h, p, s)
    BY DEF IsList
  <2>2. s \in Seq(Nodes) /\ \A j \in 1..Len(s) : s[j] \in Nodes
    BY <2>1, ElementOfSeq DEF Listed
  <2>3. Listed(g, p, s)
    BY <1>2, <2>1, <2>2 DEF Listed
  <2>4. Placed(g, p, s, i)
    BY <1>2 DEF Placed, At
  <2> QED BY <2>3, <2>4, ListIs DEF IsList
<1>6. AllLists(h) = [n \in Nodes |-> ListOf(h, n)] /\ AllLists(g) = [n \in Nodes |-> ListOf(g, n)]
  BY DEF AllLists
<1>7. [ListOf(h, p) EXCEPT !.passed = i] = ListOf(g, p)
  BY <1>4, <1>5
<1>8. [AllLists(h) EXCEPT ![p].passed = i] =
        [n \in Nodes |-> IF n = p THEN [ListOf(h, p) EXCEPT !.passed = i] ELSE ListOf(h, n)]
  BY <1>6
<1>9. AllLists(g) = [n \in Nodes |-> IF n = p THEN [ListOf(h, p) EXCEPT !.passed = i] ELSE ListOf(h, n)]
  <2>1. \A n \in Nodes : ListOf(g, n) = IF n = p THEN [ListOf(h, p) EXCEPT !.passed = i] ELSE ListOf(h, n)
    BY <1>3, <1>7
  <2> QED BY <1>6, <2>1
<1> QED BY <1>8, <1>9 DEF Passing

(* An iteration goes to where the forest's goes.                            *)
LEMMA VisitStep ==
  ASSUME IInv, IInv', NEW p \in Nodes, NEW op, NEW current \in Links, NEW n,
         Iterate(op, p, current, n),
         NEW s, NEW k, IsList(heap, p, s, k), NEW i, NEW j,
         At(current, s, i),
         n = IF j \in 1..Len(s) THEN s[j] ELSE Null
  PROVE  Forest!Visit(op, p, i, j)
<1>1. /\ heap' = [heap EXCEPT ![p].current = current]
      /\ call' = <<op, p>> /\ result' = n
  BY Zenon DEF Iterate, Become
<1>2. HeapType(heap) /\ Good(heap) /\ Good(heap')
  BY DEF IInv, Good
<1>3. AllLists(heap') = [AllLists(heap) EXCEPT ![p].passed = i]
  <2>1. PICK g : g = heap'
    OBVIOUS
  <2>2. g = Pointed(heap, p, current) /\ Good(g)
    BY <1>1, <1>2, <2>1 DEF Pointed
  <2>3. AllLists(g) = Passing(AllLists(heap), p, i)
    BY <1>2, <2>2, CursorLists
  <2> QED BY <2>1, <2>3 DEF Passing
<1>4. \A m \in Nodes : heap'[m].type = heap[m].type /\ heap'[m].name = heap[m].name
  BY <1>1, <1>2 DEF HeapType
<1>5. /\ [m \in Nodes |-> heap[m].type]' = [m \in Nodes |-> heap[m].type]
      /\ [m \in Nodes |-> heap[m].name]' = [m \in Nodes |-> heap[m].name]
  BY <1>4
<1>6. ListOf(heap, p) = [members |-> s, passed |-> k]
  BY <1>2, ListIs
<1>7. AllLists(heap)[p].members = s
  BY <1>6 DEF AllLists
<1>8. DOMAIN s = 1..Len(s)
  <2>1. s \in Seq(Nodes)
    BY DEF IsList, Listed
  <2> QED BY <2>1, LenProperties
<1>9. result' = IF j \in DOMAIN s THEN s[j] ELSE Null
  BY <1>1, <1>8
<1> QED BY <1>1, <1>3, <1>5, <1>7, <1>9, Zenon DEF Forest!Visit, AllLists

(* An iteration goes the way of the forest's, step by step.                 *)
LEMMA IterateStep ==
  ASSUME IInv, IInv', NEW p \in Nodes, First(p) \/ Next_(p) \/ Last(p) \/ Previous(p)
  PROVE  Forest!Iterate(p)
<1>0. /\ \A m \in Nat : m # 0 /\ m # 1 => m - 1 \in 1..m
      /\ \A m, j \in Nat : j <= m /\ j # 0 /\ j # 1 => j - 1 \in 1..m
  OBVIOUS
<1>1. Good(heap) /\ HeapType(heap) /\ Null \notin Nodes
  BY DataTreeAssumption DEF DataTreeAssumption, IInv, Good
<1>2. PICK s, k : /\ IsList(heap, p, s, k)
                  /\ ListOf(heap, p) = [members |-> s, passed |-> k]
                  /\ s \in Seq(Nodes) /\ k \in 0..Len(s)
                  /\ Distinct(s)
                  /\ heap[p].last = IF s = <<>> THEN Null ELSE s[Len(s)]
                  /\ \A i \in 1..Len(s) : heap[s[i]].prev = IF i = 1 THEN Null ELSE s[i - 1]
  BY <1>1, ListHas
<1>3. /\ Len(s) \in Nat /\ k \in Nat /\ k <= Len(s)
      /\ \A i \in 1..Len(s) : s[i] \in Nodes /\ s[i] # Null /\ s[i] \in Links
      /\ s = <<>> <=> Len(s) = 0
      /\ Null \in Links
  <2>1. Len(s) \in Nat /\ (s = <<>> <=> Len(s) = 0)
    BY <1>2, LenProperties, EmptySeq
  <2> QED BY <1>1, <1>2, <2>1, ElementOfSeq DEF Links
<1>4. /\ heap[p].first = IF s = <<>> THEN Null ELSE s[1]
      /\ \A i \in 1..Len(s) : heap[s[i]].next = IF i < Len(s) THEN s[i + 1] ELSE Null
      /\ At(heap[p].current, s, k)
  BY <1>2 DEF IsList, Listed, Placed
<1>5. IF k = 0 THEN heap[p].current = Null ELSE k \in 1..Len(s) /\ heap[p].current = s[k]
  BY <1>3, <1>4 DEF At
<1> DEFINE L == [n \in Nodes |-> ListOf(heap, n)]
           l == Len(s)
<1>6. L[p].passed = k /\ Len(L[p].members) = l
  BY <1>2
<1>7. ASSUME NEW op, NEW current, NEW n, NEW i, NEW j, Iterate(op, p, current, n),
             current \in Links, At(current, s, i), n = IF j \in 1..l THEN s[j] ELSE Null
      PROVE  Forest!Visit(op, p, i, j)
  BY <1>2, <1>7, VisitStep
<1>8. CASE First(p)
  <2>1. Iterate("first", p, heap[p].first, heap[p].first)
    BY <1>8 DEF First
  <2>2. PICK i : i = IF l = 0 THEN 0 ELSE 1
    OBVIOUS
  <2>3. /\ heap[p].first \in Links /\ At(heap[p].first, s, i)
        /\ heap[p].first = IF 1 \in 1..l THEN s[1] ELSE Null
    BY <1>3, <1>4, <2>2 DEF At
  <2>4. Forest!Visit("first", p, i, 1)
    BY <1>7, <2>1, <2>3
  <2> QED BY <1>6, <2>2, <2>4, Zenon DEF Forest!Iterate
<1>9. CASE Next_(p)
  <2>1. PICK n : n = IF heap[p].current = heap[p].last THEN Null
                     ELSE IF heap[p].current = Null THEN heap[p].first
                     ELSE heap[heap[p].current].next
    OBVIOUS
  <2>2. PICK current : current = IF heap[p].current = heap[p].last THEN heap[p].current ELSE n
    OBVIOUS
  <2>3. Iterate("next", p, current, n)
    BY <1>9, <2>1, <2>2, Zenon DEF Next_
  <2>4. PICK i : i = IF k < l THEN k + 1 ELSE k
    OBVIOUS
  <2>5. heap[p].current = heap[p].last <=> k = l
    BY <1>2, <1>3, <1>5 DEF Distinct
  <2>6. CASE k = l
    <3>1. n = Null /\ current = heap[p].current /\ i = k /\ k + 1 \notin 1..l
      BY <1>3, <2>1, <2>2, <2>4, <2>5, <2>6
    <3>2. current \in Links /\ At(current, s, i)
      BY <1>3, <1>4, <1>5, <3>1
    <3>3. Forest!Visit("next", p, i, k + 1)
      BY <1>7, <2>3, <3>1, <3>2
    <3> QED BY <1>6, <2>4, <3>3, Zenon DEF Forest!Iterate
  <2>7. CASE k # l
    <3>1. k < l /\ i = k + 1 /\ k + 1 \in 1..l /\ l # 0
      BY <1>3, <2>4, <2>7
    <3>2. n = s[k + 1] /\ current = n
      BY <1>3, <1>4, <1>5, <2>1, <2>2, <2>5, <2>7, <3>1
    <3>3. current \in Links /\ At(current, s, i)
      BY <1>3, <3>1, <3>2 DEF At
    <3>4. Forest!Visit("next", p, i, k + 1)
      BY <1>7, <2>3, <3>1, <3>2, <3>3
    <3> QED BY <1>6, <2>4, <3>4, Zenon DEF Forest!Iterate
  <2> QED BY <2>6, <2>7
<1>10. CASE Last(p)
  <2>1. PICK current : current = IF heap[p].last = Null THEN heap[p].current
                                 ELSE heap[heap[p].last].prev
    OBVIOUS
  <2>2. Iterate("last", p, current, heap[p].last)
    BY <1>10, <2>1, Zenon DEF Last
  <2>3. PICK i : i = IF l = 0 THEN k ELSE l - 1
    OBVIOUS
  <2>4. heap[p].last = IF l \in 1..l THEN s[l] ELSE Null
    BY <1>2, <1>3
  <2>5. current \in Links /\ At(current, s, i)
    <3>1. CASE l = 0
      BY <1>2, <1>3, <1>4, <1>5, <2>1, <2>3, <3>1
    <3>2. CASE l # 0
      <4>1. l \in 1..l /\ heap[p].last = s[l] /\ s[l] # Null
        BY <1>2, <1>3, <3>2
      <4>2. current = (IF l = 1 THEN Null ELSE s[l - 1]) /\ i = l - 1
        BY <1>2, <2>1, <2>3, <3>2, <4>1
      <4>3. l \in Nat
        BY <1>3
      <4>4. l # 1 => l - 1 \in 1..l
        BY <1>0, <3>2, <4>3, Zenon
      <4> QED BY <1>3, <4>2, <4>4 DEF At
    <3> QED BY <3>1, <3>2
  <2>6. Forest!Visit("last", p, i, l)
    BY <1>7, <2>2, <2>4, <2>5
  <2> QED BY <1>6, <2>3, <2>6, Zenon DEF Forest!Iterate
<1>11. CASE Previous(p)
  <2>1. PICK current : current = IF heap[p].current = Null THEN Null
                                 ELSE heap[heap[p].current].prev
    OBVIOUS
  <2>2. Iterate("previous", p, current, heap[p].current)
    BY <1>11, <2>1, Zenon DEF Previous
  <2>3. PICK i : i = IF k = 0 THEN 0 ELSE k - 1
    OBVIOUS
  <2>4. heap[p].current = IF k \in 1..l THEN s[k] ELSE Null
    BY <1>3, <1>5
  <2>5. current \in Links /\ At(current, s, i)
    <3>1. CASE k = 0
      BY <1>3, <1>5, <2>1, <2>3, <3>1 DEF At
    <3>2. CASE k # 0
      <4>1. k \in 1..l /\ heap[p].current = s[k] /\ s[k] # Null
        BY <1>3, <1>5, <3>2
      <4>2. current = (IF k = 1 THEN Null ELSE s[k - 1]) /\ i = k - 1
        BY <1>2, <2>1, <2>3, <3>2, <4>1
      <4>3. k \in Nat /\ l \in Nat /\ k <= l
        BY <1>3
      <4>4. k # 1 => k - 1 \in 1..l
        BY <1>0, <3>2, <4>3, Zenon
      <4> QED BY <1>3, <4>2, <4>4 DEF At
    <3> QED BY <3>1, <3>2
  <2>6. Forest!Visit("previous", p, i, k)
    BY <1>7, <2>2, <2>4, <2>5
  <2> QED BY <1>6, <2>3, <2>6, Zenon DEF Forest!Iterate
<1> QED BY <1>8, <1>9, <1>10, <1>11

(***************************************************************************)
(* The steps that make, change and free nodes.                             *)
(***************************************************************************)

(* In g the nodes of S are free, but for those of keep, whose type is k.    *)
Replaced(h, S, keep, k, g) ==
  \A n \in Nodes :
    /\ g[n].type = IF n \in keep THEN k ELSE IF n \in S THEN "free" ELSE h[n].type
    /\ g[n].name = IF n \in S \ keep THEN NoName ELSE h[n].name

(* Then they are so in the forest.                                         *)
LEMMA ReplaceStep ==
  ASSUME NEW S, NEW keep, NEW k, Replaced(heap, S, keep, k, heap')
  PROVE  Forest!Replace(S, keep, k)
<1> DEFINE kind == [n \in Nodes |-> heap[n].type]
           name == [n \in Nodes |-> heap[n].name]
<1>1. /\ \A n \in Nodes : /\ heap'[n].type = IF n \in keep THEN k ELSE IF n \in S THEN "free" ELSE kind[n]
                          /\ heap'[n].name = IF n \in S \ keep THEN NoName ELSE name[n]
  BY DEF Replaced
<1> HIDE DEF kind, name
<1>2. /\ [n \in Nodes |-> heap'[n].type] =
           [n \in Nodes |-> IF n \in keep THEN k ELSE IF n \in S THEN "free" ELSE kind[n]]
      /\ [n \in Nodes |-> heap'[n].name] = [n \in Nodes |-> IF n \in S \ keep THEN NoName ELSE name[n]]
  BY <1>1
<1> QED BY <1>2, Zenon DEF Forest!Replace, kind, name

(* What a step does not change in the heap, it does not change in the forest. *)
LEMMA SameDataStep ==
  ASSUME SameData(heap, heap')
  PROVE  /\ [n \in Nodes |-> heap[n].type]' = [n \in Nodes |-> heap[n].type]
         /\ [n \in Nodes |-> heap[n].name]' = [n \in Nodes |-> heap[n].name]
  BY DEF SameData

(* Nodes exist in the forest when they do in the heap.                      *)
LEMMA LiveIs == Forest!Live = Live(heap)
  BY DEF Forest!Live, Live

(* empty() frees what is below the node.                                   *)
LEMMA RetypeData ==
  ASSUME NEW h, Good(h), NEW n \in Nodes, NEW type
  PROVE  Replaced(h, Subtree(h, n), {n}, type, Retype(h, n, type))
<1>1. PICK g : g = Retype(h, n, type)
  OBVIOUS
<1>2. Retyped(h, n, type, g)
  BY <1>1, RetypeFields
<1>3. Subtree(h, n) \in SUBSET Nodes /\ n \in Subtree(h, n)
  BY SubtreeFacts
<1>4. g[n].type = type /\ g[n].name = h[n].name
  BY <1>2 DEF Retyped, Free
<1>5. \A m \in Subtree(h, n) \ {n} : g[m].type = "free" /\ g[m].name = NoName
  BY <1>2 DEF Retyped, Free
<1>6. \A m \in Nodes \ Subtree(h, n) : g[m] = h[m]
  BY <1>2 DEF Retyped
<1>7. Replaced(h, Subtree(h, n), {n}, type, g)
  BY <1>3, <1>4, <1>5, <1>6 DEF Replaced
<1> QED BY <1>1, <1>7

(* destroy() frees the node and what is below it.                           *)
LEMMA DeleteData ==
  ASSUME NEW h, Good(h), NEW c \in Nodes
  PROVE  Replaced(h, Subtree(h, c), {}, "free", Delete(h, c))
<1>1. PICK r : r = Unlink(h, c)
  OBVIOUS
<1>2. PICK g : g = Delete(h, c)
  OBVIOUS
<1>3. SameData(h, r) /\ Subtree(r, c) = Subtree(h, c)
  BY <1>1, UnlinkKeeps, SubtreeStays
<1>4. g = Release(r, Subtree(h, c))
  BY <1>1, <1>2, <1>3, Zenon DEF Delete
<1>5. \A n \in Nodes : g[n] = IF n \in Subtree(h, c) THEN Free ELSE r[n]
  BY <1>4 DEF Release
<1>6. Replaced(h, Subtree(h, c), {}, "free", g)
  BY <1>3, <1>5 DEF SameData, Replaced, Free
<1> QED BY <1>2, <1>6

(* new                                                                     *)
LEMMA CreateStep ==
  ASSUME IInv, NEW n \in Nodes, Create(n)
  PROVE  \E a \in Names \cup {NoName} : Forest!Create(n, a)
<1>1. PICK a \in Names \cup {NoName} : Become(New(heap, n, a), <<"new", a>>, n)
  BY DEF Create
<1>2. heap' = New(heap, n, a) /\ call' = <<"new", a>> /\ result' = n
  BY <1>1, Zenon DEF Become
<1>3. Good(heap) /\ HeapType(heap) /\ heap[n].type = "free" /\ n \notin Live(heap)
  BY DEF IInv, Good, Create, Live
<1>4. AllLists(heap') = AllLists(heap)
  BY <1>2, <1>3, NewLists
<1> DEFINE kind == [m \in Nodes |-> heap[m].type]
           name == [m \in Nodes |-> heap[m].name]
<1>5. \A m \in Nodes : /\ heap'[m].type = IF m = n THEN "leaf" ELSE heap[m].type
                       /\ heap'[m].name = IF m = n THEN a ELSE heap[m].name
  BY <1>2, <1>3 DEF HeapType, New, Free
<1>6. /\ [m \in Nodes |-> heap'[m].type] = [kind EXCEPT ![n] = "leaf"]
      /\ [m \in Nodes |-> heap'[m].name] = [name EXCEPT ![n] = a]
  BY <1>5
<1>7. n \notin Forest!Live
  BY <1>3, LiveIs
<1>8. Forest!Create(n, a)
  BY <1>2, <1>4, <1>6, <1>7, Zenon DEF Forest!Create, AllLists
<1> QED BY <1>8

(* A change of type                                                        *)
LEMMA SetTypeStep ==
  ASSUME IInv, NEW n \in Nodes, SetType(n)
  PROVE  \E k \in {"leaf", "list", "struct"} : Forest!Become(n, k)
<1>1. PICK type \in Types \ {"free"} : Become(Retype(heap, n, type), <<"become", n, type>>, Null)
  BY DEF SetType
<1>2. heap' = Retype(heap, n, type) /\ call' = <<"become", n, type>> /\ result' = Null
  BY <1>1, Zenon DEF Become
<1>3. Good(heap) /\ n \in Live(heap)
  BY DEF IInv, SetType
<1>4. PICK S : S = Subtree(heap, n)
  OBVIOUS
<1>5. Forest!Family(n) = S
  BY <1>3, <1>4, FamilyIsSubtree
<1>6. AllLists(heap') = Forest!Emptied(AllLists(heap), S)
  BY <1>2, <1>3, <1>4, RetypeLists
<1>7. Replaced(heap, S, {n}, type, heap')
  BY <1>2, <1>3, <1>4, RetypeData
<1>8. Forest!Replace(S, {n}, type)
  BY <1>7, ReplaceStep
<1>9. n \in Forest!Live
  BY <1>3, LiveIs
<1>10. Forest!Become(n, type)
  BY <1>2, <1>5, <1>6, <1>8, <1>9, Zenon DEF Forest!Become, AllLists
<1>11. type \in {"leaf", "list", "struct"}
  BY DEF Types, Containers
<1> QED BY <1>10, <1>11

(* remove()                                                                *)
LEMMA RemoveStep ==
  ASSUME IInv, NEW c \in Nodes, Remove(c)
  PROVE  Forest!Detach(c)
<1>1. heap' = Unlink(heap, c) /\ call' = <<"remove", c>> /\ result' = Null
  BY Zenon DEF Remove, Become
<1>2. Good(heap) /\ c \in Live(heap)
  BY DEF IInv, Remove
<1>3. AllLists(heap') = Forest!Leaving(AllLists(heap), c)
  BY <1>1, <1>2, UnlinkLists
<1>4. SameData(heap, heap')
  BY <1>1, <1>2, UnlinkKeeps
<1>5. c \in Forest!Live
  BY <1>2, LiveIs
<1> QED BY <1>1, <1>3, <1>4, <1>5, SameDataStep, Zenon DEF Forest!Detach, AllLists

(* destroy()                                                               *)
LEMMA DestroyStep ==
  ASSUME IInv, NEW c \in Nodes, Destroy(c)
  PROVE  Forest!Destroy(c)
<1>1. heap' = Delete(heap, c) /\ call' = <<"destroy", c>> /\ result' = Null
  BY Zenon DEF Destroy, Become
<1>2. Good(heap) /\ c \in Live(heap)
  BY DEF IInv, Destroy
<1>3. PICK S : S = Subtree(heap, c)
  OBVIOUS
<1>4. Forest!Family(c) = S
  BY <1>2, <1>3, FamilyIsSubtree
<1>5. AllLists(heap') = Forest!Emptied(Forest!Leaving(AllLists(heap), c), S)
  BY <1>1, <1>2, <1>3, DeleteLists
<1>6. Replaced(heap, S, {}, "free", heap')
  BY <1>1, <1>2, <1>3, DeleteData
<1>7. Forest!Replace(S, {}, "free")
  BY <1>6, ReplaceStep
<1>8. c \in Forest!Live
  BY <1>2, LiveIs
<1> QED BY <1>1, <1>4, <1>5, <1>7, <1>8, Zenon DEF Forest!Destroy, AllLists

(***************************************************************************)
(* The steps that add members.                                             *)
(***************************************************************************)

(* addbefore() and addafter()                                              *)
LEMMA BesideStep ==
  ASSUME IInv, NEW p \in Nodes, NEW c \in Nodes, NEW m \in Nodes,
         AddBefore(p, c, m) \/ AddAfter(p, c, m)
  PROVE  Forest!Beside("addbefore", p, c, m, 0) \/ Forest!Beside("addafter", p, c, m, 1)
<1>1. PICK u : u = Unlink(heap, c)
  OBVIOUS
<1>2. Beside(p, c, m)
  BY DEF AddBefore, AddAfter
<1>3. Good(heap) /\ heap[m].parent = p /\ c # m /\ p \notin Subtree(heap, c)
  BY <1>2 DEF IInv, Beside
<1>4. Good(u) /\ MayJoin(u, p, c) /\ u[m].parent = p
  BY <1>1, <1>2, BesideJoins
<1>5. SameData(heap, u) /\ AllLists(u) = Forest!Leaving(AllLists(heap), c)
  BY <1>1, <1>3, UnlinkKeeps, UnlinkLists
<1>6. m \in Forest!Members(p) \ {c} /\ p \notin Forest!Family(c)
  BY <1>3, MembersAre, FamilyIsSubtree DEF Members
<1>7. PICK i \in DOMAIN ListOf(u, p).members : ListOf(u, p).members[i] = m
  BY <1>4, InList
<1>8. /\ AllLists(LinkBefore(u, p, c, m)) = Forest!Joining(AllLists(u), p, i, c)
      /\ AllLists(LinkAfter(u, p, c, m)) = Forest!Joining(AllLists(u), p, i + 1, c)
  BY <1>4, <1>7, LinkBesideLists
<1>9. PICK rest : rest = Forest!Leaving(AllLists(heap), c)
  OBVIOUS
<1>10. i \in DOMAIN rest[p].members /\ rest[p].members[i] = m
  BY <1>5, <1>7, <1>9 DEF AllLists
<1>11. i + 0 = i
  <2>1. PICK s, k : ListOf(u, p) = [members |-> s, passed |-> k] /\ s \in Seq(Nodes)
    BY <1>4, ListHas
  <2>2. i \in 1..Len(s)
    BY <1>7, <2>1, LenProperties
  <2> QED BY <2>2
<1>12. /\ SameData(u, LinkBefore(u, p, c, m))
       /\ SameData(u, LinkAfter(u, p, c, m))
  BY <1>4, LinkBeforeInserts, LinkAfterInserts DEF Inserted, SameData
<1>13. CASE AddBefore(p, c, m)
  <2>1. /\ heap' = LinkBefore(u, p, c, m)
        /\ call' = <<"addbefore", p, c, m>> /\ result' = Null
    BY <1>1, <1>13, Zenon DEF AddBefore, Become
  <2>2. AllLists(heap') = Forest!Joining(rest, p, i + 0, c)
    BY <1>5, <1>8, <1>9, <1>11, <2>1
  <2>3. SameData(heap, heap')
    BY <1>5, <1>12, <2>1 DEF SameData
  <2>4. Forest!Beside("addbefore", p, c, m, 0)
    BY <1>6, <1>9, <1>10, <2>1, <2>2, <2>3, SameDataStep, Zenon DEF Forest!Beside, AllLists
  <2> QED BY <2>4
<1>14. CASE AddAfter(p, c, m)
  <2>1. /\ heap' = LinkAfter(u, p, c, m)
        /\ call' = <<"addafter", p, c, m>> /\ result' = Null
    BY <1>1, <1>14, Zenon DEF AddAfter, Become
  <2>2. AllLists(heap') = Forest!Joining(rest, p, i + 1, c)
    BY <1>5, <1>8, <1>9, <2>1
  <2>3. SameData(heap, heap')
    BY <1>5, <1>12, <2>1 DEF SameData
  <2>4. Forest!Beside("addafter", p, c, m, 1)
    BY <1>6, <1>9, <1>10, <2>1, <2>2, <2>3, SameDataStep, Zenon DEF Forest!Beside, AllLists
  <2> QED BY <2>4
<1> QED BY <1>13, <1>14

(* getmember() finds what the forest has under a name.                      *)
LEMMA NamedIs ==
  ASSUME Good(heap), NEW p \in Nodes, NEW a
  PROVE  /\ heap[p].type # "struct" => Forest!Named(p, a) = {}
         /\ heap[p].type = "struct" => /\ Member(heap, p, a) \subseteq Forest!Named(p, a)
                                       /\ Member(heap, p, a) = {} => Forest!Named(p, a) = {}
<1> DEFINE kind == [n \in Nodes |-> heap[n].type]
           name == [n \in Nodes |-> heap[n].name]
<1>1. Forest!Named(p, a) = {m \in Forest!Members(p) : kind[p] = "struct" /\ name[m] = a}
  BY Zenon DEF Forest!Named
<1>2. Forest!Named(p, a) = {m \in Nodes : /\ heap[m].parent = p
                                          /\ heap[p].type = "struct" /\ heap[m].name = a}
  <2>1. Forest!Members(p) = {m \in Nodes : heap[m].parent = p}
    BY MembersAre DEF Members
  <2> QED BY <1>1, <2>1
<1>3. /\ \A m \in Member(heap, p, a) : m \in Nodes /\ heap[m].parent = p /\ heap[m].name = a
      /\ Member(heap, p, a) = {} => \A m \in Nodes : heap[m].parent = p => heap[m].name # a
  BY MemberFacts
<1> QED BY <1>2, <1>3

(* add()                                                                   *)
LEMMA AddStep ==
  ASSUME IInv, NEW p \in Nodes, NEW c \in Nodes, Add(p, c)
  PROVE  Forest!Add(p, c)
<1>1. /\ heap' = Attach(heap, p, c) /\ call' = <<"add", p, c>> /\ result' = Null
  BY Zenon DEF Add, Become
<1>2. Good(heap) /\ p \in Live(heap) /\ c \in Live(heap) /\ p \notin Subtree(heap, c)
  BY DEF IInv, Add
<1>3. MayAttach(heap, p, c)
  BY DEF Add, MayAttach, Live
<1>4. PICK r : r = MadeRoom(heap, p, c)
  OBVIOUS
<1>5. PICK u : u = Unlink(r, c)
  OBVIOUS
<1>6. Good(r) /\ Good(u) /\ MayJoin(u, p, c) /\ heap' = LinkLast(u, p, c)
  BY <1>1, <1>2, <1>3, <1>4, <1>5, AttachJoins
<1>7. AllLists(heap') = Forest!JoiningLast(Forest!Leaving(AllLists(r), c), p, c)
  BY <1>5, <1>6, UnlinkLists, LinkLastLists
<1>8. SameData(r, heap')
  <2>1. SameData(r, u)
    BY <1>5, <1>6, UnlinkKeeps
  <2>2. SameData(u, heap')
    BY <1>6, LinkLastInserts DEF Inserted, SameData
  <2> QED BY <2>1, <2>2 DEF SameData
<1>9. {p, c} \subseteq Forest!Live /\ p \notin Forest!Family(c)
  BY <1>2, LiveIs, FamilyIsSubtree
<1>10. PICK a : a = heap[c].name
  OBVIOUS
<1>11. [n \in Nodes |-> heap[n].name][c] = a
  BY <1>10
<1> DEFINE old == IF heap[p].type = "struct" THEN Member(heap, p, heap[c].name) ELSE {}
<1>12. old = IF heap[p].type = "struct" THEN Member(heap, p, a) ELSE {}
  BY <1>10
<1>13. r = IF old = {} THEN heap ELSE Delete(heap, CHOOSE m \in old : TRUE)
  BY <1>4, Zenon DEF MadeRoom
<1> HIDE DEF old
<1>14. CASE old = {}
  <2>1. Forest!Named(p, a) = {}
    BY <1>2, <1>12, <1>14, NamedIs
  <2>2. SameData(heap, heap') /\ AllLists(heap') = Forest!JoiningLast(Forest!Leaving(AllLists(heap), c), p, c)
    BY <1>7, <1>8, <1>13, <1>14
  <2> QED BY <1>1, <1>9, <1>11, <2>1, <2>2, SameDataStep, Zenon DEF Forest!Add, AllLists
<1>15. CASE old # {}
  <2>1. PICK m \in old : r = Delete(heap, m)
    BY <1>13, <1>15
  <2>2. heap[p].type = "struct" /\ m \in Member(heap, p, a)
    BY <1>12, <2>1
  <2>3. m \in Nodes /\ heap[m].parent = p /\ m \in Forest!Named(p, a)
    BY <1>2, <2>2, MemberFacts, NamedIs
  <2>4. PICK S : S = Subtree(heap, m)
    OBVIOUS
  <2>5. S = Forest!Family(m)
    BY <1>2, <2>3, <2>4, FamilyIsSubtree
  <2>6. p \notin S /\ c \notin S
    <3>1. p \notin S
      BY <1>2, <2>3, <2>4, SubtreeFacts
    <3> QED BY <1>3, <1>10, <2>2, <2>4, <3>1 DEF MayAttach
  <2>7. AllLists(r) = Forest!Emptied(Forest!Leaving(AllLists(heap), m), S)
    BY <1>2, <2>1, <2>3, <2>4, DeleteLists
  <2>8. Replaced(heap, S, {}, "free", heap')
    <3>1. Replaced(heap, S, {}, "free", r)
      BY <1>2, <2>1, <2>3, <2>4, DeleteData
    <3> QED BY <1>8, <3>1 DEF Replaced, SameData
  <2>9. Forest!Replace(S, {}, "free")
    BY <2>8, ReplaceStep
  <2>10. {p, c} \cap Forest!Family(m) = {}
    BY <2>5, <2>6
  <2>11. AllLists(heap') =
           Forest!JoiningLast(Forest!Leaving(Forest!Emptied(Forest!Leaving(AllLists(heap), m), S), c), p, c)
    BY <1>7, <2>7
  <2> QED BY <1>1, <1>9, <1>11, <2>3, <2>5, <2>9, <2>10, <2>11, Zenon DEF Forest!Add, AllLists
<1> QED BY <1>14, <1>15

(* A node that is made and added to a struct without a member of its name   *)
(* becomes the last of the members, and nothing else changes.               *)
LEMMA AttachNew ==
  ASSUME NEW h, Good(h), NEW p \in Nodes, h[p].type = "struct", NEW n \in Nodes,
         h[n].type = "free", NEW a \in Names, Member(h, p, a) = {},
         NEW g, g = Attach(New(h, n, a), p, n)
  PROVE  /\ AllLists(g) = Forest!JoiningLast(AllLists(h), p, n)
         /\ \A m \in Nodes : /\ g[m].type = IF m = n THEN "leaf" ELSE h[m].type
                             /\ g[m].name = IF m = n THEN a ELSE h[m].name
<1>1. PICK w : w = New(h, n, a)
  OBVIOUS
<1>2. /\ Good(w) /\ w[n].name = a /\ w[n].type = "leaf"
      /\ \A m \in Nodes : w[m].parent = h[m].parent
      /\ \A m \in Nodes \ {n} : w[m] = h[m]
      /\ AllLists(w) = AllLists(h)
  BY <1>1, NewKeeps, NewLists
<1>3. MayAttach(w, p, n) /\ Null \notin Nodes
  BY <1>1, MayAttachNew, DataTreeAssumption DEF DataTreeAssumption
<1>4. w[n].parent = Null
  BY <1>2, FreeNode
<1>5. Member(w, p, a) = {}
  <2>1. ASSUME NEW m \in Member(w, p, a) PROVE FALSE
    <3>1. m \in Nodes /\ w[m].parent = p /\ w[m].name = a
      BY <1>2, MemberFacts
    <3>2. m # n
      BY <1>3, <1>4, <3>1
    <3>3. h[m].parent = p /\ h[m].name = a
      BY <1>2, <3>1, <3>2
    <3> QED BY <3>1, <3>3, MemberFacts
  <2> QED BY <2>1
<1>6. PICK r : r = MadeRoom(w, p, n)
  OBVIOUS
<1>7. PICK u : u = Unlink(r, n)
  OBVIOUS
<1>8. r = w
  <2> DEFINE old == IF w[p].type = "struct" THEN Member(w, p, w[n].name) ELSE {}
  <2>1. r = IF old = {} THEN w ELSE Delete(w, CHOOSE m \in old : TRUE)
    BY <1>6, Zenon DEF MadeRoom
  <2>2. old = {}
    BY <1>2, <1>5
  <2> HIDE DEF old
  <2> QED BY <2>1, <2>2
<1>9. u = w
  BY <1>4, <1>7, <1>8, Zenon DEF Unlink
<1>10. MayJoin(w, p, n) /\ g = LinkLast(w, p, n)
  <2>1. MayJoin(u, p, n) /\ Attach(w, p, n) = LinkLast(u, p, n)
    BY <1>2, <1>3, <1>6, <1>7, AttachJoins
  <2> QED BY <1>1, <1>9, <2>1
<1>11. AllLists(g) = Forest!JoiningLast(AllLists(w), p, n)
  BY <1>2, <1>10, LinkLastLists
<1>12. \A m \in Nodes : g[m].type = w[m].type /\ g[m].name = w[m].name
  BY <1>2, <1>10, LinkLastInserts DEF Inserted
<1> QED BY <1>2, <1>11, <1>12

(* addmember()                                                             *)
LEMMA AddMemberStep ==
  ASSUME IInv, NEW p \in Nodes, NEW a \in Names, AddMember(p, a)
  PROVE  \E n \in Nodes : Forest!AddMember(p, a, n)
<1>1. PICK h : h = IF heap[p].type = "struct" THEN heap ELSE Retype(heap, p, "struct")
  OBVIOUS
<1>2. Good(heap) /\ p \in Live(heap)
  BY DEF IInv, AddMember
<1>3. PICK S : S = Subtree(heap, p)
  OBVIOUS
<1>4. PICK dead : dead = IF heap[p].type = "struct" THEN {} ELSE S \ {p}
  OBVIOUS
<1>5. p \in S /\ S = Forest!Family(p) /\ p \in Forest!Live
  BY <1>2, <1>3, SubtreeFacts, FamilyIsSubtree, LiveIs
<1>6. /\ Good(h) /\ h[p].type = "struct"
      /\ AllLists(h) = IF heap[p].type = "struct" THEN AllLists(heap)
                       ELSE Forest!Emptied(AllLists(heap), S)
      /\ \A m \in Nodes :
           /\ h[m].type = IF m = p THEN "struct" ELSE IF m \in dead THEN "free" ELSE heap[m].type
           /\ h[m].name = IF m \in dead THEN NoName ELSE heap[m].name
      /\ heap[p].type # "struct" => Members(h, p) = {}
  <2>1. CASE heap[p].type = "struct"
    BY <1>1, <1>2, <1>4, <2>1
  <2>2. CASE heap[p].type # "struct"
    <3>1. "struct" \in Types \ {"free"}
      BY DEF Types, Containers
    <3>2. h = Retype(heap, p, "struct")
      BY <1>1, <2>2
    <3>3. Good(h) /\ h[p].type = "struct" /\ Members(h, p) = {}
      BY <1>2, <3>1, <3>2, RetypeKeeps
    <3>4. AllLists(h) = Forest!Emptied(AllLists(heap), S)
      BY <1>2, <1>3, <3>1, <3>2, RetypeLists
    <3>5. Replaced(heap, S, {p}, "struct", h)
      BY <1>2, <1>3, <3>2, RetypeData
    <3> QED BY <1>4, <1>5, <2>2, <3>3, <3>4, <3>5 DEF Replaced
  <2> QED BY <2>1, <2>2
<1>7. IF Member(h, p, a) # {}
        THEN \E m \in Member(h, p, a) : Become(h, <<"addmember", p, a>>, m)
        ELSE \E n \in Nodes \ Live(h) :
               Become(Attach(New(h, n, a), p, n), <<"addmember", p, a>>, n)
  BY <1>1, Zenon DEF AddMember
<1>8. CASE Member(h, p, a) # {}
  <2>1. PICK m \in Member(h, p, a) : Become(h, <<"addmember", p, a>>, m)
    BY <1>7, <1>8
  <2>2. heap' = h /\ call' = <<"addmember", p, a>> /\ result' = m
    BY <2>1, Zenon DEF Become
  <2>3. m \in Nodes /\ h[m].parent = p
    BY <1>6, MemberFacts
  <2>4. heap[p].type = "struct" /\ h = heap
    BY <1>1, <1>6, <2>3 DEF Members
  <2>5. m \in Forest!Named(p, a)
    BY <1>2, <2>1, <2>4, NamedIs
  <2>6. heap' = heap
    BY <2>2, <2>4
  <2>7. SameData(heap, heap') /\ AllLists(heap') = AllLists(heap)
    BY <2>6 DEF SameData
  <2>8. Forest!AddMember(p, a, m)
    BY <1>5, <2>2, <2>5, <2>7, SameDataStep, Zenon DEF Forest!AddMember, AllLists
  <2> QED BY <2>3, <2>8
<1>9. CASE Member(h, p, a) = {}
  <2>1. PICK n \in Nodes \ Live(h) :
          Become(Attach(New(h, n, a), p, n), <<"addmember", p, a>>, n)
    BY <1>7, <1>9
  <2>2. heap' = Attach(New(h, n, a), p, n) /\ call' = <<"addmember", p, a>> /\ result' = n
    BY <2>1, Zenon DEF Become
  <2>3. h[n].type = "free" /\ n # p
    BY <1>6, <2>1 DEF Live
  <2>4. PICK g : g = heap'
    OBVIOUS
  <2>5. /\ AllLists(g) = Forest!JoiningLast(AllLists(h), p, n)
        /\ \A m \in Nodes : /\ g[m].type = IF m = n THEN "leaf" ELSE h[m].type
                            /\ g[m].name = IF m = n THEN a ELSE h[m].name
    BY <1>6, <1>9, <2>2, <2>3, <2>4, AttachNew
  <2>6. n \notin Forest!Live \ dead
    <3>1. n \notin Live(heap) \ dead
      BY <1>6, <2>3 DEF Live
    <3> QED BY <3>1, LiveIs
  <2>7. Forest!Named(p, a) = {}
    <3>1. CASE heap[p].type = "struct"
      BY <1>1, <1>2, <1>9, <3>1, NamedIs
    <3>2. CASE heap[p].type # "struct"
      BY <1>2, <3>2, NamedIs
    <3> QED BY <3>1, <3>2
  <2>8. AllLists(heap') =
          Forest!JoiningLast(IF heap[p].type = "struct" THEN AllLists(heap)
                             ELSE Forest!Emptied(AllLists(heap), S), p, n)
    BY <1>6, <2>4, <2>5
  <2> DEFINE kind == [m \in Nodes |-> heap[m].type]
             name == [m \in Nodes |-> heap[m].name]
  <2>9. /\ [m \in Nodes |-> heap'[m].type] =
             [m \in Nodes |-> IF m = n THEN "leaf" ELSE IF m = p THEN "struct"
                              ELSE IF m \in dead THEN "free" ELSE kind[m]]
        /\ [m \in Nodes |-> heap'[m].name] =
             [m \in Nodes |-> IF m = n THEN a ELSE IF m \in dead THEN NoName ELSE name[m]]
    BY <1>6, <2>4, <2>5
  <2>10. kind[p] = heap[p].type
    OBVIOUS
  <2> HIDE DEF kind, name
  <2>11. /\ dead = IF kind[p] = "struct" THEN {} ELSE Forest!Family(p) \ {p}
         /\ AllLists(heap') =
              Forest!JoiningLast(IF kind[p] = "struct" THEN AllLists(heap)
                                 ELSE Forest!Emptied(AllLists(heap), Forest!Family(p)), p, n)
    BY <1>4, <1>5, <2>8, <2>10
  <2>12. Forest!AddMember(p, a, n)
    BY <1>5, <2>2, <2>6, <2>7, <2>9, <2>11, Zenon DEF Forest!AddMember, AllLists, kind, name
  <2> QED BY <2>12
<1> QED BY <1>8, <1>9

(***************************************************************************)
(* copy()                                                                  *)
(***************************************************************************)

(* In g the list of a copy is the copy of a list, and no other list changes. *)
ListsCopied(h, S, f, g) ==
  /\ \A m \in S :
       \E s, k : /\ ListOf(h, m) = [members |-> s, passed |-> k]
                 /\ ListOf(g, f[m]) = [members |-> [i \in DOMAIN s |-> f[s[i]]], passed |-> k]
  /\ \A q \in Nodes \ Images(f) : ListOf(g, q) = ListOf(h, q)

(* This is what copy() does.                                               *)
LEMMA CopyLists ==
  ASSUME NEW h, Good(h), NEW n \in Nodes, h[n].type # "free", NEW f, NEW g, Good(g),
         Copying(h, n, f, g)
  PROVE  ListsCopied(h, Subtree(h, n), f, g)
<1>1. PICK S : S = Subtree(h, n)
  OBVIOUS
<1>2. /\ f \in [S -> Nodes \ Live(h)]
      /\ Copied(h, n, f, g) /\ DOMAIN f = S
  BY <1>1 DEF Copying
<1>3. Null \notin Nodes /\ HeapType(h)
  BY DataTreeAssumption DEF DataTreeAssumption, Good
<1>4. /\ S \in SUBSET Nodes /\ n \in S
      /\ \A m \in S : m # n => h[m].next \in (S \cup {Null}) \ {n}
      /\ \A m \in Nodes : h[m].parent \in S => m \in S /\ m # n
  BY <1>1, SubtreeLinks
<1>5. \A m \in S : f[m] \in Nodes /\ h[f[m]].type = "free"
  BY <1>2 DEF Live
<1>6. ASSUME NEW m \in S
      PROVE  \E s, k : /\ ListOf(h, m) = [members |-> s, passed |-> k]
                       /\ ListOf(g, f[m]) = [members |-> [i \in DOMAIN s |-> f[s[i]]], passed |-> k]
  <2>1. PICK s, k : /\ IsList(h, m, s, k)
                    /\ ListOf(h, m) = [members |-> s, passed |-> k]
                    /\ s \in Seq(Nodes) /\ Elements(s) = Members(h, m)
    BY <1>4, ListHas
  <2>2. PICK t : t = [i \in DOMAIN s |-> f[s[i]]]
    OBVIOUS
  <2>3. DOMAIN s = 1..Len(s) /\ Len(s) \in Nat
    BY <2>1, LenProperties
  <2>4. \A i \in 1..Len(s) : s[i] \in S /\ s[i] # n /\ s[i] # Null /\ f[s[i]] \in Nodes /\ s[i] \in Nodes
    <3>1. \A i \in 1..Len(s) : s[i] \in Nodes /\ h[s[i]].parent = m
      BY <2>1, <2>3 DEF Elements, Members
    <3>2. \A i \in 1..Len(s) : s[i] \in S /\ s[i] # n
      BY <1>4, <3>1
    <3> QED BY <1>3, <1>5, <3>1, <3>2
  <2>5. /\ t \in Seq(Nodes) /\ Len(t) = Len(s)
        /\ \A i \in 1..Len(s) : t[i] = f[s[i]]
    <3>1. t = [i \in 1..Len(s) |-> f[s[i]]]
      BY <2>2, <2>3
    <3>2. t \in [1..Len(s) -> Nodes]
      BY <2>4, <3>1
    <3>3. t \in Seq(Nodes)
      BY <2>3, <3>2, SeqDef
    <3>4. DOMAIN t = 1..Len(t) /\ Len(t) \in Nat /\ DOMAIN t = 1..Len(s)
      BY <3>1, <3>3, LenProperties
    <3>5. Len(t) = Len(s)
      <4>1. PICK a, b : a = Len(t) /\ b = Len(s)
        OBVIOUS
      <4>2. a \in Nat /\ b \in Nat /\ 1..a = 1..b
        BY <2>3, <3>4, <4>1
      <4>3. (a # 0 => a \in 1..b) /\ (b # 0 => b \in 1..a)
        <5>1. (a # 0 => a \in 1..a) /\ (b # 0 => b \in 1..b)
          BY <4>2
        <5> QED BY <4>2, <5>1
      <4>4. a = b
        <5>1. a \in Nat /\ b \in Nat
          BY <4>2
        <5> QED BY <4>3, <5>1
      <4> QED BY <4>1, <4>4
    <3> QED BY <3>1, <3>3, <3>5
  <2>6. s = <<>> <=> t = <<>>
    BY <2>1, <2>5, EmptySeq
  <2>7. /\ h[m].first = IF s = <<>> THEN Null ELSE s[1]
        /\ \A i \in 1..Len(s) : h[s[i]].next = IF i < Len(s) THEN s[i + 1] ELSE Null
        /\ At(h[m].current, s, k)
    BY <2>1 DEF IsList, Listed, Placed
  <2>8. /\ g[f[m]].first = Follow(f, h[m].first) /\ g[f[m]].current = Follow(f, h[m].current)
        /\ \A l \in S : l # n => g[f[l]].next = Follow(f, h[l].next)
    BY <1>2 DEF Copied
  <2>9. Listed(g, f[m], t)
    <3>1. g[f[m]].first = IF t = <<>> THEN Null ELSE t[1]
      <4>1. CASE s = <<>>
        BY <2>6, <2>7, <2>8, <4>1 DEF Follow
      <4>2. CASE s # <<>>
        <5>1. 1 \in 1..Len(s)
          BY <2>1, <2>3, <4>2, EmptySeq
        <5> QED BY <2>4, <2>5, <2>6, <2>7, <2>8, <4>2, <5>1 DEF Follow
      <4> QED BY <4>1, <4>2
    <3>2. ASSUME NEW i \in 1..Len(t)
          PROVE  g[t[i]].next = IF i < Len(t) THEN t[i + 1] ELSE Null
      <4>1. i \in 1..Len(s) /\ t[i] = f[s[i]] /\ s[i] \in S /\ s[i] # n
        BY <2>4, <2>5
      <4>2. g[t[i]].next = Follow(f, h[s[i]].next)
        BY <2>8, <4>1
      <4>3. CASE i < Len(s)
        <5>1. i + 1 \in 1..Len(s)
          BY <2>3, <4>1, <4>3
        <5>2. h[s[i]].next = s[i + 1] /\ s[i + 1] # Null /\ t[i + 1] = f[s[i + 1]]
          BY <2>4, <2>5, <2>7, <4>1, <4>3, <5>1
        <5> QED BY <2>5, <4>2, <4>3, <5>2 DEF Follow
      <4>4. CASE ~(i < Len(s))
        BY <2>5, <2>7, <4>1, <4>2, <4>4 DEF Follow
      <4> QED BY <4>3, <4>4
    <3> QED BY <2>5, <3>1, <3>2 DEF Listed
  <2>10. Placed(g, f[m], t, k)
    <3>1. CASE h[m].current = Null
      BY <2>7, <2>8, <3>1 DEF Placed, At, Follow
    <3>2. CASE h[m].current # Null
      <4>1. k \in 1..Len(s) /\ s[k] = h[m].current
        BY <2>7, <3>2 DEF At
      <4>2. k \in 1..Len(t) /\ t[k] = f[s[k]] /\ t[k] # Null
        BY <1>3, <2>4, <2>5, <4>1
      <4>3. g[f[m]].current = t[k]
        BY <2>8, <3>2, <4>1, <4>2 DEF Follow
      <4> QED BY <4>2, <4>3 DEF Placed, At
    <3> QED BY <3>1, <3>2
  <2>11. ListOf(g, f[m]) = [members |-> t, passed |-> k]
    <3>1. IsList(g, f[m], t, k) /\ f[m] \in Nodes
      BY <1>5, <2>9, <2>10 DEF IsList
    <3> QED BY <3>1, ListIs
  <2> QED BY <2>1, <2>2, <2>11
<1>7. ASSUME NEW q \in Nodes \ Images(f) PROVE ListOf(g, q) = ListOf(h, q)
  <2>1. \A m \in Nodes \ Images(f) : g[m] = h[m]
    BY <1>2 DEF Copied
  <2>2. ASSUME NEW m \in Nodes, h[m].parent = q PROVE g[m].next = h[m].next
    <3>1. h[m].type # "free"
      BY <1>3, <2>2 DEF Good, Siblings
    <3>2. m \notin Images(f)
      BY <1>2, <1>5, <3>1 DEF Images
    <3> QED BY <2>1, <3>2
  <2>3. g[q].first = h[q].first /\ g[q].current = h[q].current
    BY <2>1
  <2> QED BY <2>2, <2>3, SameList
<1> QED BY <1>1, <1>6, <1>7 DEF ListsCopied

(* The list that copy() makes of a list.                                    *)
LEMMA CopiedList ==
  ASSUME NEW f, NEW s, NEW k, NEW l, l = [members |-> s, passed |-> k]
  PROVE  [l EXCEPT !.members = [i \in DOMAIN @ |-> f[@[i]]]] =
           [members |-> [i \in DOMAIN s |-> f[s[i]]], passed |-> k]
  OBVIOUS

(* A copy is one of the forest.                                            *)
LEMMA CopyStep ==
  ASSUME IInv, IInv', NEW n \in Nodes, CopySomewhere(n)
  PROVE  Forest!Copy(n)
<1>1. PICK f : Copying(heap, n, f, heap') /\ result' = f[n] /\ f[n] \in Nodes
  BY CopySomewhereWrites
<1>2. Good(heap) /\ Good(heap') /\ heap[n].type # "free" /\ call' = <<"copy", n>> /\ n \in Live(heap)
  BY DEF IInv, CopySomewhere, Copy, Live, Become
<1>3. PICK S : S = Subtree(heap, n)
  OBVIOUS
<1>4. PICK g : g = heap'
  OBVIOUS
<1>5. /\ f \in [S -> Nodes \ Live(heap)] /\ DOMAIN f = S
      /\ \A m, k \in S : f[m] = f[k] => m = k
      /\ Copied(heap, n, f, g) /\ Copying(heap, n, f, g) /\ Good(g)
  BY <1>1, <1>2, <1>3, <1>4 DEF Copying
<1>6. S = Forest!Family(n) /\ Live(heap) = Forest!Live /\ S \in SUBSET Nodes
  BY <1>2, <1>3, FamilyIsSubtree, LiveIs, SubtreeFacts
<1> DEFINE from(q) == CHOOSE m \in DOMAIN f : f[m] = q
           kind == [q \in Nodes |-> heap[q].type]
           name == [q \in Nodes |-> heap[q].name]
           lists == [q \in Nodes |-> ListOf(heap, q)]
           l(q) == lists[from(q)]
           copied(q) == [l(q) EXCEPT !.members = [i \in DOMAIN @ |-> f[@[i]]]]
<1>7. \A m \in S : from(f[m]) = m
  BY <1>5
<1>8. Forest!Range(f) = Images(f)
  BY Zenon DEF Forest!Range, Images
<1>9. Forest!IsInjective(f)
  <2>1. \A a, b \in DOMAIN f : f[a] = f[b] => a = b
    BY <1>5
  <2> QED BY <2>1, Zenon DEF Forest!IsInjective
<1>10. \A q \in Images(f) : \E m \in S : q = f[m]
  BY <1>5 DEF Images
<1> HIDE DEF from
<1>11. \A q \in Nodes : /\ g[q].type = IF q \in Images(f) THEN kind[from(q)] ELSE kind[q]
                        /\ g[q].name = IF q \in Images(f) THEN name[from(q)] ELSE name[q]
  <2> SUFFICES ASSUME NEW q \in Nodes
               PROVE  /\ g[q].type = IF q \in Images(f) THEN kind[from(q)] ELSE kind[q]
                      /\ g[q].name = IF q \in Images(f) THEN name[from(q)] ELSE name[q]
    OBVIOUS
  <2>1. CASE q \in Images(f)
    <3>1. PICK m \in S : q = f[m]
      BY <1>10, <2>1
    <3>2. from(q) = m /\ m \in Nodes
      BY <1>6, <1>7, <3>1
    <3>3. g[q].type = heap[m].type /\ g[q].name = heap[m].name
      BY <1>5, <3>1 DEF Copied
    <3> QED BY <2>1, <3>2, <3>3
  <2>2. CASE q \notin Images(f)
    BY <1>5, <2>2 DEF Copied
  <2> QED BY <2>1, <2>2
<1>12. ListsCopied(heap, S, f, g)
  BY <1>2, <1>3, <1>5, CopyLists
<1>13. ASSUME NEW q \in Nodes
       PROVE  ListOf(g, q) = IF q \in Images(f) THEN copied(q) ELSE lists[q]
  <2>1. CASE q \in Images(f)
    <3>1. PICK m \in S : q = f[m]
      BY <1>10, <2>1
    <3>2. from(q) = m /\ m \in Nodes
      BY <1>6, <1>7, <3>1
    <3>3. PICK s, k : /\ ListOf(heap, m) = [members |-> s, passed |-> k]
                      /\ ListOf(g, q) = [members |-> [i \in DOMAIN s |-> f[s[i]]], passed |-> k]
      BY <1>12, <3>1 DEF ListsCopied
    <3>4. l(q) = [members |-> s, passed |-> k]
      BY <3>2, <3>3
    <3> HIDE DEF l
    <3>5. copied(q) = [members |-> [i \in DOMAIN s |-> f[s[i]]], passed |-> k]
      BY <3>4, CopiedList
    <3> HIDE DEF copied
    <3> QED BY <2>1, <3>3, <3>5
  <2>2. CASE q \notin Images(f)
    BY <1>12, <2>2 DEF ListsCopied
  <2> QED BY <2>1, <2>2
<1> HIDE DEF kind, name, lists, copied, l
<1>14. /\ [q \in Nodes |-> g[q].type] =
            [q \in Nodes |-> IF q \in Forest!Range(f) THEN kind[from(q)] ELSE kind[q]]
       /\ [q \in Nodes |-> g[q].name] =
            [q \in Nodes |-> IF q \in Forest!Range(f) THEN name[from(q)] ELSE name[q]]
       /\ [q \in Nodes |-> ListOf(g, q)] =
            [q \in Nodes |-> IF q \in Forest!Range(f) THEN copied(q) ELSE lists[q]]
  BY <1>8, <1>11, <1>13
<1>15. /\ [q \in Nodes |-> heap'[q].type] =
            [q \in Nodes |-> IF q \in Forest!Range(f) THEN kind[from(q)] ELSE kind[q]]
       /\ [q \in Nodes |-> heap'[q].name] =
            [q \in Nodes |-> IF q \in Forest!Range(f) THEN name[from(q)] ELSE name[q]]
       /\ [q \in Nodes |-> ListOf(heap', q)] =
            [q \in Nodes |-> IF q \in Forest!Range(f) THEN copied(q) ELSE lists[q]]
  BY <1>4, <1>14
<1>16. f \in [Forest!Family(n) -> Nodes \ Forest!Live] /\ n \in Forest!Live
  BY <1>2, <1>5, <1>6
<1>17. result' = f[n]
  BY <1>1
<1> QED BY <1>2, <1>9, <1>15, <1>16, <1>17, Zenon
        DEF Forest!Copy, from, kind, name, lists, l, copied

(***************************************************************************)
(* The theorem.                                                            *)
(***************************************************************************)

(* At first there is no node.                                              *)
LEMMA InitForest == Init => Forest!Init
<1> SUFFICES ASSUME Init PROVE Forest!Init
  OBVIOUS
<1>1. IInv /\ call = <<>> /\ result = Null /\ \A n \in Nodes : heap[n] = Free
  BY InitIInv DEF Init
<1>2. ASSUME NEW n \in Nodes PROVE ListOf(heap, n) = Forest!Empty
  <2>1. <<>> \in Seq(Nodes) /\ 1..Len(<<>>) = {}
    OBVIOUS
  <2>2. heap[n].first = Null /\ heap[n].current = Null
    BY <1>1 DEF Free
  <2>3. IsList(heap, n, <<>>, 0)
    BY <2>1, <2>2 DEF IsList, Listed, Placed, At
  <2>4. ListOf(heap, n) = [members |-> <<>>, passed |-> 0]
    BY <1>1, <2>3, ListIs DEF IInv
  <2> QED BY <2>4, Zenon DEF Forest!Empty
<1>3. /\ [n \in Nodes |-> ListOf(heap, n)] = [n \in Nodes |-> Forest!Empty]
      /\ [n \in Nodes |-> heap[n].type] = [n \in Nodes |-> "free"]
      /\ [n \in Nodes |-> heap[n].name] = [n \in Nodes |-> NoName]
  BY <1>1, <1>2 DEF Free
<1> QED BY <1>1, <1>3, Zenon DEF Forest!Init

(* Every call is one of the forest.                                        *)
LEMMA NextForest ==
  ASSUME IInv, IInv', [Next]_vars
  PROVE  [Forest!Next]_(Forest!vars)
<1>1. CASE UNCHANGED vars
  BY <1>1 DEF vars, Forest!vars
<1>2. ASSUME NEW n \in Nodes, Create(n) PROVE Forest!Next
  BY <1>2, CreateStep, Zenon DEF Forest!Next
<1>3. ASSUME NEW n \in Nodes, SetType(n) PROVE Forest!Next
  BY <1>3, SetTypeStep, Zenon DEF Forest!Next
<1>4. ASSUME NEW n \in Nodes, Remove(n) PROVE Forest!Next
  BY <1>4, RemoveStep, Zenon DEF Forest!Next
<1>5. ASSUME NEW n \in Nodes, Destroy(n) PROVE Forest!Next
  BY <1>5, DestroyStep, Zenon DEF Forest!Next
<1>6. ASSUME NEW n \in Nodes, CopySomewhere(n) PROVE Forest!Next
  BY <1>6, CopyStep, Zenon DEF Forest!Next
<1>7. ASSUME NEW n \in Nodes, First(n) \/ Next_(n) \/ Last(n) \/ Previous(n) PROVE Forest!Next
  BY <1>7, IterateStep, Zenon DEF Forest!Next
<1>8. ASSUME NEW n \in Nodes, NEW a \in Names, AddMember(n, a) PROVE Forest!Next
  BY <1>8, AddMemberStep, Zenon DEF Forest!Next
<1>9. ASSUME NEW n \in Nodes, NEW p \in Nodes, Add(p, n) PROVE Forest!Next
  BY <1>9, AddStep, Zenon DEF Forest!Next
<1>10. ASSUME NEW n \in Nodes, NEW p \in Nodes, NEW m \in Nodes, AddBefore(p, n, m) \/ AddAfter(p, n, m)
       PROVE  Forest!Next
  BY <1>10, BesideStep, Zenon DEF Forest!Next
<1>11. CASE Next
  BY <1>2, <1>3, <1>4, <1>5, <1>6, <1>7, <1>8, <1>9, <1>10, <1>11, Zenon DEF Next
<1> QED BY <1>1, <1>11

(* The linked nodes of a DDF implement the forest, for any finite memory    *)
(* and any names (ddf.cpp): every call changes the sequences of members as  *)
(* it should, and an iteration visits, in order, the members behind its     *)
(* cursor, whatever is added and removed under way.                        *)
THEOREM ForestImplemented == Spec => ImplementsForest
<1>1. Init => Forest!Init
  BY InitForest
<1>2. IInv /\ IInv' /\ [Next]_vars => [Forest!Next]_(Forest!vars)
  BY NextForest
<1> QED BY <1>1, <1>2, Inductive, PTL DEF Spec, ImplementsForest, Forest!Spec

=============================================================================
