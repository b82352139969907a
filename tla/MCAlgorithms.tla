---------------------------- MODULE MCAlgorithms ----------------------------
(***************************************************************************)
(* The pure parts of the library on every input of a small domain: one step *)
(* takes an input, and the properties compare what the code computes of it  *)
(* with what it should be.                                                  *)
(***************************************************************************)
EXTENDS Packet, Algorithms

None == [kind |-> "none"]
Init == input = None

Pairs(A, B) == {<<>>} \cup {<<x>> : x \in A} \cup {<<x, y>> : x \in A, y \in B}
UpTo(n, A) == UNION {[1..k -> A] : k \in 0..n}

-----------------------------------------------------------------------------
(* Trees of three levels with every type of node, and smaller ones with     *)
(* every pair of paths.                                                     *)
Leaves(name) ==
  {Node("string", name, v, <<>>) : v \in {Null, <<"x">>, <<"raw">>}}
  \cup {Node("unsafe", name, v, <<>>) : v \in {Null, <<"raw">>}}
  \cup {Node("int", name, 3, <<>>), Node("float", name, 14, <<>>), Node("float", name, Inf, <<>>),
        Node("pointer", name, Null, <<>>), Leaf(name)}
Structs(name, A, B) == {Node("struct", name, Null, kids) : kids \in Pairs(A, B)}
Lists(name, A, B) == {Node("list", name, Null, kids) : kids \in Pairs(A, B)}
Inner(name) == Structs(name, Leaves("a"), Leaves("b")) \cup Lists(name, Leaves(Null), Leaves("a"))
Small(name) == {Leaf(name), Node("string", name, <<"x">>, <<>>)}
Some_(name) ==
  Small(name) \cup Structs(name, Small("a"), Small("[1]"))
  \cup Lists(name, Small("a") \cup Structs(Null, Small("a"), Small("b")), Small(Null))

WrittenTrees ==
  Inner(Null) \cup Structs(Null, Inner("a"), Small("b")) \cup Lists("c", Inner("a"), Small(Null))
GrowingTrees ==
  Small(Null) \cup Structs(Null, Some_("a"), Small("b")) \cup Structs(Null, Small("a"), Some_("b"))
  \cup Lists(Null, Some_(Null), Small("b"))
Paths == UNION {[1..n -> {"a", "b"}] : n \in 1..3}
OtherPaths == Paths \cup {<<"[0]", "a">>, <<"a", "[0]">>, <<"b", "[1]">>}

TakeTree ==
  /\ input = None
  /\ input' \in [kind : {"written"}, tree : WrittenTrees]
                  \cup [kind : {"growing"}, tree : GrowingTrees, path : Paths, other : OtherPaths]

(* What operator<< writes of a tree is what operator>> reads (ddf.cpp).     *)
TreeArrives == input.kind = "written" => ArrivesWhole(input.tree)

(* A member that has been added is found by its path, and changes no other  *)
(* (ddf.cpp:632-691).                                                       *)
MembersAdded ==
  input.kind = "growing" =>
    FoundAgain(input.tree, input.path) /\ OthersKept(input.tree, input.path, input.other)

-----------------------------------------------------------------------------
(* Texts of up to five atoms, and requests with two short ones.             *)
Atoms == {"a", "=", "&", "+", "%3D", "%2B", "%00", Byte255}
ShortTexts == UpTo(3, {"a", "=", "&"})

TakeText ==
  /\ input = None
  /\ input' \in [kind : {"text"}, text : UpTo(5, Atoms)]
                  \cup [kind : {"request"}, query : ShortTexts, body : UpTo(3, {"a", "=", "&", "+"}),
                        method : {"GET", "POST"}, form : BOOLEAN]

-----------------------------------------------------------------------------
(* Lists of two blocks of two families, readable or not, and every client.  *)
BehindSlash == {NoPrefix, NoNumber} \cup -1..4
Blocks ==
  {[family |-> "text", number |-> 0, prefix |-> NoPrefix]}
  \cup {[family |-> a.family, number |-> a.number, prefix |-> p] : a \in Addresses, p \in BehindSlash}
Ports == {-1, 0, 1, 1600, 65535, 65536, 65537}

TakeConfiguration ==
  /\ input = None
  /\ input' \in [kind : {"acl"}, blocks : {<<b>> : b \in Blocks}, peer : Addresses]
                  \cup [kind : {"acl"}, blocks : [1..2 -> {b \in Blocks : b.number \in {0, 2}}], peer : Addresses]
                  \cup [kind : {"port"}, attribute : Ports, environment : Ports]

-----------------------------------------------------------------------------
(* Elements of up to three generations, and a handler asked for a property. *)
Texts == {"", "true", "t", "1", "7", "9", "x"}
Elements == UNION {[D -> {"", "7", "x"}] : D \in SUBSET {"p", "xmlns:q"}}
FullElements == UNION {[D -> Texts] : D \in SUBSET {"p"}}

TakeElements ==
  /\ input = None
  /\ input' \in [kind : {"elements"}, elements : UpTo(3, Elements)]
                  \cup [kind : {"property"}, elements : [1..2 -> FullElements],
                        parameter : Texts \cup {Absent}, from : SUBSET {"request", "fixed"}]

-----------------------------------------------------------------------------
Next == TakeTree \/ TakeText \/ TakeConfiguration \/ TakeElements

Spec == Init /\ [][Next]_input

MCWidth == [v4 |-> 2, v6 |-> 3]
MCLoopback == [family |-> "v4", number |-> 1]
MCEscapes == [e \in {"%3D", "%2B", "%00"} |-> CASE e = "%3D" -> "=" [] e = "%2B" -> "+" [] OTHER -> Nul]
MCUnsignedOf == [t \in {"1", "7", "9"} |-> CASE t = "1" -> 1 [] t = "7" -> 7 [] OTHER -> 9]
MCIntOf == [t \in Texts |-> CASE t = "1" -> 1 [] t = "7" -> 7 [] t = "9" -> -1 [] OTHER -> 0]
=============================================================================
