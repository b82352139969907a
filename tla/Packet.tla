------------------------------- MODULE Packet -------------------------------
(***************************************************************************)
(* A DDF as a value (ddf.cpp): its paths, and the wddx packet in which it   *)
(* crosses the socket.  DataTree has the same trees with their links and    *)
(* memory; here a tree is what it says.  A text is a sequence of atoms, so  *)
(* that concatenation is what it is in the code, and an atom of Raw stands  *)
(* for bytes that an XML document in UTF-8 cannot hold.  Names are ASCII.   *)
(***************************************************************************)
EXTENDS Integers, Sequences, SequencesExt

CONSTANTS
  Null, \* the null pointer
  Inf,  \* a floating value that is printed without a decimal point
  Raw   \* the atoms that are not UTF-8

Readable(text) == IF text = Null THEN TRUE ELSE Raw \cap ToSet(text) = {}

Node(type, name, value, kids) == [type |-> type, name |-> name, value |-> value, kids |-> kids]
NoNode == Node("none", Null, Null, <<>>)

(* ddf_strdup(): a text without characters is kept as the null pointer.     *)
Kept(text) == IF text = <<>> THEN Null ELSE text

(* What the conversions leave of a node, whatever it was.                   *)
String(n, text) == Node("string", n.name, Kept(text), <<>>)
UnsafeString(n, text) == Node("unsafe", n.name, Kept(text), <<>>)
Integer(n, i) == Node("int", n.name, i, <<>>)
Floating(n, x) == Node("float", n.name, x, <<>>)
Structure(n) == Node("struct", n.name, Null, <<>>)
List(n) == Node("list", n.name, Null, <<>>)

Leaf(name) == Node("empty", name, Null, <<>>)

(* string() and integer(), which answer for any node, and for none.  Nobody *)
(* asks for the number that a text or a floating value would give.          *)
Text(n) == IF n.type \in {"string", "unsafe"} THEN n.value ELSE Null
Number(n) ==
  CASE n.type = "int" -> n.value
    [] n.type \in {"struct", "list"} -> Len(n.kids)
    [] OTHER -> 0

-----------------------------------------------------------------------------
(* Paths.  A path is the sequence of what stands between its dots, and a    *)
(* place in a tree the sequence of positions that leads to it; Nowhere is   *)
(* the null handle.                                                         *)

CONSTANT Nowhere

(* ddf_token(): the names that begin with a bracket, and their numbers.     *)
Indexes == [name \in {"[0]", "[1]"} |-> IF name = "[0]" THEN 0 ELSE 1]
Blank(path) == path \in {<<>>, <<"">>}

RECURSIVE At(_, _)
At(t, place) == IF place = <<>> THEN t ELSE At(t.kids[Head(place)], Tail(place))

RECURSIVE Put(_, _, _)
Put(t, place, n) ==
  IF place = <<>> THEN n
  ELSE [t EXCEPT !.kids[Head(place)] = Put(@, Tail(place), n)]

(* The first member of that name.                                           *)
Named(t, name) ==
  LET found == {i \in DOMAIN t.kids : t.kids[i].name = name}
  IN IF found = {} THEN Nowhere ELSE <<CHOOSE i \in found : \A j \in found : i <= j>>

Under(place, below) == IF below = Nowhere THEN Nowhere ELSE place \o below

RECURSIVE GetMember(_, _)
GetMember(t, path) ==
  LET name == Head(path)
      rest == Tail(path)
      here == CASE name \in DOMAIN Indexes ->
                     IF t.type = "list" /\ Indexes[name] < Len(t.kids) THEN <<Indexes[name] + 1>>
                     ELSE IF Indexes[name] = 0 THEN <<>> ELSE Nowhere
                [] name \notin DOMAIN Indexes /\ t.type = "struct" -> Named(t, name)
                [] OTHER -> Nowhere
  IN CASE Blank(path) \/ name = "" -> Nowhere
       [] t.type = "list" /\ name # "" /\ name \notin DOMAIN Indexes ->
            IF t.kids = <<>> THEN Nowhere ELSE Under(<<1>>, GetMember(t.kids[1], path))
       [] OTHER ->
            IF here = Nowhere \/ Blank(rest) THEN here
            ELSE Under(here, GetMember(At(t, here), rest))

Member(t, path) ==
  LET place == GetMember(t, path) IN IF place = Nowhere THEN NoNode ELSE At(t, place)

(* add(): a struct takes only what has a name, in place of the member that  *)
(* getmember() finds under it, which for [0] would be the struct itself.    *)
Add(t, child) ==
  LET old == IF t.type = "struct" /\ child.name # Null THEN GetMember(t, <<child.name>>) ELSE Nowhere
  IN CASE t.type = "list" -> [t EXCEPT !.kids = Append(@, child)]
       [] t.type = "struct" /\ child.name # Null ->
            IF old = <<>> THEN NoNode
            ELSE [t EXCEPT !.kids = Append(IF old = Nowhere THEN @ ELSE RemoveAt(@, old[1]), child)]
       [] OTHER -> t

(* addmember(): the tree afterwards, and the place of the member in it.     *)
Added(t, place) == [tree |-> t, place |-> place]

(* Mutant: what is there is not made a struct before it takes a member.     *)
RECURSIVE AddMemberUnconverted(_, _)
AddMemberUnconverted(t, path) ==
  LET name == Head(path)
      found == GetMember(t, <<name>>)
      grown == IF found = Nowhere THEN Add(t, Leaf(name)) ELSE t
      place == IF found = Nowhere /\ grown # t THEN <<Len(grown.kids)>> ELSE found
      below == AddMemberUnconverted(At(grown, place), Tail(path))
  IN CASE Blank(path) \/ name = "" -> Added(t, Nowhere)
       [] OTHER -> IF place = Nowhere \/ Blank(Tail(path)) THEN Added(grown, place)
                   ELSE Added(Put(grown, place, below.tree), Under(place, below.place))

(* Mutant: a member that exists is added again.                             *)
RECURSIVE AddMemberAnew(_, _)
AddMemberAnew(t, path) ==
  LET name == Head(path)
      base == IF t.type = "struct" THEN t ELSE Structure(t)
      grown == Add(base, Leaf(name))
      place == <<Len(grown.kids)>>
      below == AddMemberAnew(At(grown, place), Tail(path))
  IN CASE Blank(path) \/ name = "" -> Added(t, Nowhere)
       [] OTHER -> IF Blank(Tail(path)) THEN Added(grown, place)
                   ELSE Added(Put(grown, place, below.tree), Under(place, below.place))

RECURSIVE AddMember(_, _)
AddMember(t, path) ==
  LET name == Head(path)
      rest == Tail(path)
      base == IF t.type = "struct" THEN t ELSE Structure(t)
      found == GetMember(base, <<name>>)
      grown == IF found = Nowhere THEN Add(base, Leaf(name)) ELSE base
      place == IF found = Nowhere THEN <<Len(grown.kids)>> ELSE found
      below == AddMember(At(grown, place), rest)
  IN CASE Blank(path) \/ name = "" -> Added(t, Nowhere)
       [] name # "" /\ ~Blank(path) /\ Blank(rest) -> Added(grown, place)
       [] OTHER ->
            IF below.place # Nowhere
              THEN Added(Put(grown, place, below.tree), place \o below.place)
              ELSE Added(IF place = <<>> THEN NoNode
                         ELSE [grown EXCEPT !.kids = RemoveAt(@, place[1])], Nowhere)

-----------------------------------------------------------------------------
(* The packet.                                                              *)

Element(tag, name, text, mark, kids) ==
  [tag |-> tag, name |-> name, text |-> text, mark |-> mark, kids |-> kids]

(* Mutant: the members of a list are written as those of a struct.          *)
RECURSIVE SerializeNameless(_, _)
SerializeNameless(t, nameAttr) ==
  LET name == IF nameAttr THEN t.name ELSE Null
      Inner(k) == SerializeNameless(k, FALSE)
      Kid(k) == IF t.type = "struct" THEN Element("var", k.name, Null, "", <<Inner(k)>>) ELSE Inner(k)
      kids == [i \in DOMAIN t.kids |-> Kid(t.kids[i])]
  IN CASE t.type = "string" -> Element("string", name, t.value, "", <<>>)
       [] t.type = "unsafe" -> Element("string", name, t.value, IF t.value = Null THEN "" ELSE "unsafe", <<>>)
       [] t.type = "int" -> Element("number", name, t.value, "", <<>>)
       [] t.type = "float" -> Element("number", name, t.value, IF t.value = Inf THEN "" ELSE "point", <<>>)
       [] t.type \in {"struct", "list"} -> Element(IF t.type = "list" THEN "array" ELSE "struct", name, Null, "", kids)
       [] OTHER -> Element("null", name, Null, "", <<>>)

(* `fixed', at a precision of 15: a floating value is counted here in       *)
(* tenths of the last digit that is written.                                *)
Rounded(x) == ((x + 5) \div 10) * 10

(* serialize(): the name of a struct's member is an attribute of its "var". *)
(* A mark says that a text is URL-encoded, or a number has a point.         *)
RECURSIVE Serialize(_, _)
Serialize(t, nameAttr) ==
  LET name == IF nameAttr THEN t.name ELSE Null
      Written(k) == IF t.type = "struct"
                      THEN Element("var", k.name, Null, "", <<Serialize(k, FALSE)>>)
                      ELSE Serialize(k, TRUE)
      kids == [i \in DOMAIN t.kids |-> Written(t.kids[i])]
  IN CASE t.type = "string" -> Element("string", name, t.value, "", <<>>)
       [] t.type = "unsafe" -> Element("string", name, t.value, IF t.value = Null THEN "" ELSE "unsafe", <<>>)
       [] t.type = "int" -> Element("number", name, t.value, "", <<>>)
       [] t.type = "float" ->
            IF t.value = Inf THEN Element("number", name, Inf, "", <<>>)
            ELSE Element("number", name, Rounded(t.value), "point", <<>>)
       [] t.type = "struct" -> Element("struct", name, Null, "", kids)
       [] t.type = "list" -> Element("array", name, Null, "", kids)
       [] OTHER -> Element("null", name, Null, "", <<>>)

(* operator<<, and whether the parser takes what it has written.            *)
Packet(t) == Serialize(t, TRUE)

RECURSIVE Parses(_)
Parses(e) ==
  /\ IF e.tag = "string" /\ e.mark # "unsafe" THEN Readable(e.text) ELSE TRUE
  /\ \A i \in DOMAIN e.kids : Parses(e.kids[i])

(* deserialize() and operator>>.  A number without a point is read as an    *)
(* integer, which "inf" is not: atol() gives 0.                             *)
RECURSIVE Deserialize(_)
Deserialize(e) ==
  LET body == IF e.tag = "var" THEN e.kids[1] ELSE e
      obj == Leaf(e.name)
      grown(base) == FoldLeft(LAMBDA t, k : Add(t, Deserialize(k)), base, body.kids)
  IN CASE body.tag = "string" /\ body.text # Null ->
            IF body.mark = "unsafe" THEN UnsafeString(obj, body.text) ELSE String(obj, body.text)
       [] body.tag = "number" ->
            IF body.mark = "point" THEN Floating(obj, body.text)
            ELSE Integer(obj, IF body.text = Inf THEN 0 ELSE body.text)
       [] body.tag = "array" -> grown(List(obj))
       [] body.tag = "struct" -> grown(Structure(obj))
       [] OTHER -> obj

-----------------------------------------------------------------------------
(* What the two promise.                                                    *)

(* What a reader gets of a tree: the same tree, but for strings without a   *)
(* character and pointers, which arrive as empty nodes, and for floating    *)
(* values, which lose what stands behind the fifteenth digit.               *)
RECURSIVE Arrival(_)
Arrival(t) ==
  CASE t.type \in {"string", "unsafe"} /\ t.value = Null -> Leaf(t.name)
    [] t.type = "float" ->
         IF t.value = Inf THEN Integer(t, 0) ELSE Floating(t, Rounded(t.value))
    [] t.type = "pointer" -> Leaf(t.name)
    [] OTHER -> [t EXCEPT !.kids = [i \in DOMAIN t.kids |-> Arrival(t.kids[i])]]

(* Only a safe string can hold what the parser refuses.                     *)
RECURSIVE SafeStringsReadable(_)
SafeStringsReadable(t) ==
  /\ t.type = "string" => Readable(t.value)
  /\ \A i \in DOMAIN t.kids : SafeStringsReadable(t.kids[i])

(* What operator>> makes of what operator<< wrote (ddf.cpp:829-1063) is the *)
(* tree that was sent, names, order and nesting included; it is refused     *)
(* only for a safe string that is not UTF-8; and a tree that is sent on     *)
(* changes no more.                                                         *)
ArrivesWhole(t) ==
  /\ Parses(Packet(t)) <=> SafeStringsReadable(t)
  /\ Parses(Packet(t)) => Deserialize(Packet(t)) = Arrival(t)
  /\ Arrival(Arrival(t)) = Arrival(t)

(* What addmember() gives is what getmember() finds under the same path,    *)
(* however the tree looked (ddf.cpp:632-691): each name of the path is made *)
(* a member, and what stood in its way is gone.                             *)
FoundAgain(t, path) ==
  LET added == AddMember(t, path)
  IN added.place # Nowhere /\ GetMember(added.tree, path) = added.place

(* addmember() leaves what it does not lead through: any other path means   *)
(* the same node afterwards, if what the new path goes through was a struct *)
(* already.                                                                 *)
OthersKept(t, path, other) ==
  LET added == AddMember(t, path)
      through == {SubSeq(path, 1, i) : i \in 1..(Len(path) - 1)}
  IN (/\ t.type = "struct"
      /\ \A p \in through : Member(t, p).type \in {"none", "struct"}
      /\ GetMember(t, other) # Nowhere
      /\ ~IsPrefix(GetMember(t, other), added.place))
     => Member(added.tree, other) = Member(t, other)
=============================================================================
