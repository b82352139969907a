--------------------------- MODULE OrderedForest ---------------------------
(***************************************************************************)
(* What a DDF promises its users: every node has an ordered list of        *)
(* members, and a cursor stands between the members an iteration has       *)
(* passed and those it has yet to visit, whatever is added and removed in  *)
(* the meantime.  A struct has one member of a name at most.               *)
(***************************************************************************)
EXTENDS Naturals, Sequences, SequencesExt

CONSTANTS
  Nodes,   (* nodes there can be                                           *)
  Null,    (* no node                                                      *)
  Names,   (* names of nodes                                               *)
  NoName   (* the name of a node that has none                             *)

VARIABLES
  kind,    (* leaf, list or struct, or free: not a node yet, or no more    *)
  name,    (* its name                                                     *)
  lists,   (* its members in their order, and how many of them an          *)
           (* iteration has passed                                         *)
  call,    (* the last call: a function and its arguments                  *)
  result   (* the node it returned                                         *)

vars == <<kind, name, lists, call, result>>

Empty == [members |-> <<>>, passed |-> 0]

Init ==
  /\ kind = [n \in Nodes |-> "free"]
  /\ name = [n \in Nodes |-> NoName]
  /\ lists = [n \in Nodes |-> Empty]
  /\ call = <<>>
  /\ result = Null

Live == {n \in Nodes : kind[n] # "free"}

Members(p) == ToSet(lists[p].members)

(* Node n and everything below it: what is in every set that holds n and   *)
(* the members of what it holds.                                           *)
Family(n) ==
  LET links == UNION {{p} \X Members(p) : p \in Nodes}
      closed == {R \in SUBSET Nodes : n \in R /\ \A l \in links : l[1] \in R => l[2] \in R}
  IN {m \in Nodes : \A R \in closed : m \in R}

(* The members of p with a name, if p is a struct. *)
Named(p, a) == {m \in Members(p) : kind[p] = "struct" /\ name[m] = a}

(* The i-th member leaves the list l. *)
Without(l, i) ==
  [members |-> RemoveAt(l.members, i), passed |-> IF i <= l.passed THEN l.passed - 1 ELSE l.passed]

(* n becomes the i-th member of l; among those passed it counts as passed.  *)
With(l, i, n) ==
  [members |-> InsertAt(l.members, i, n), passed |-> IF i <= l.passed THEN l.passed + 1 ELSE l.passed]

(* n leaves its list. *)
Leaving(L, n) ==
  [p \in Nodes |->
     LET l == L[p]
         places == {i \in DOMAIN l.members : l.members[i] = n}
     IN IF places = {} THEN l ELSE Without(l, CHOOSE i \in places : TRUE)]

(* The nodes of S have no members any more. *)
Emptied(L, S) == [p \in Nodes |-> IF p \in S THEN Empty ELSE L[p]]

(* n becomes the i-th member of p, or the last one. *)
Joining(L, p, i, n) == [L EXCEPT ![p] = With(@, i, n)]
JoiningLast(L, p, n) == Joining(L, p, Len(L[p].members) + 1, n)

(* The nodes of S cease to be, but for those of keep, which are of kind k. *)
Replace(S, keep, k) ==
  /\ kind' = [n \in Nodes |-> IF n \in keep THEN k ELSE IF n \in S THEN "free" ELSE kind[n]]
  /\ name' = [n \in Nodes |-> IF n \in S \ keep THEN NoName ELSE name[n]]

Create(n, a) ==
  /\ call' = <<"new", a>> /\ result' = n
  /\ n \notin Live
  /\ kind' = [kind EXCEPT ![n] = "leaf"] /\ name' = [name EXCEPT ![n] = a]
  /\ UNCHANGED lists

(* n loses its members. *)
Become(n, k) ==
  /\ call' = <<"become", n, k>> /\ result' = Null
  /\ n \in Live
  /\ Replace(Family(n), {n}, k)
  /\ lists' = Emptied(lists, Family(n))

(* A struct gives up its member of that name. *)
Add(p, n) ==
  /\ call' = <<"add", p, n>> /\ result' = Null
  /\ {p, n} \subseteq Live /\ p \notin Family(n)
  /\ \/ /\ Named(p, name[n]) = {}
        /\ lists' = JoiningLast(Leaving(lists, n), p, n)
        /\ UNCHANGED <<kind, name>>
     \/ \E m \in Named(p, name[n]) :
          LET dead == Family(m) IN
          /\ {p, n} \cap dead = {}
          /\ lists' = JoiningLast(Leaving(Emptied(Leaving(lists, m), dead), n), p, n)
          /\ Replace(dead, {}, "free")

(* n goes next to m: k places behind it. *)
Beside(op, p, n, m, k) ==
  LET rest == Leaving(lists, n) IN
  /\ call' = <<op, p, n, m>> /\ result' = Null
  /\ m \in Members(p) \ {n} /\ p \notin Family(n)
  /\ \E i \in DOMAIN rest[p].members :
       rest[p].members[i] = m /\ lists' = Joining(rest, p, i + k, n)
  /\ UNCHANGED <<kind, name>>

Detach(n) ==
  /\ call' = <<"remove", n>> /\ result' = Null
  /\ n \in Live
  /\ lists' = Leaving(lists, n)
  /\ UNCHANGED <<kind, name>>

Destroy(n) ==
  /\ call' = <<"destroy", n>> /\ result' = Null
  /\ n \in Live
  /\ lists' = Emptied(Leaving(lists, n), Family(n))
  /\ Replace(Family(n), {}, "free")

(* Gives the member of that name, a new one if there is none; what has not  *)
(* been a struct becomes one and loses its members.                        *)
AddMember(p, a, n) ==
  /\ call' = <<"addmember", p, a>> /\ result' = n
  /\ p \in Live
  /\ \/ n \in Named(p, a) /\ UNCHANGED <<kind, name, lists>>
     \/ LET dead == IF kind[p] = "struct" THEN {} ELSE Family(p) \ {p} IN
        /\ Named(p, a) = {} /\ n \notin Live \ dead
        /\ kind' = [m \in Nodes |-> IF m = n THEN "leaf" ELSE IF m = p THEN "struct"
                                    ELSE IF m \in dead THEN "free" ELSE kind[m]]
        /\ name' = [m \in Nodes |-> IF m = n THEN a ELSE IF m \in dead THEN NoName ELSE name[m]]
        /\ lists' = JoiningLast(IF kind[p] = "struct" THEN lists ELSE Emptied(lists, Family(p)), p, n)

(* A copy of n and of what is below it; f gives each node its copy.         *)
Copy(n) ==
  /\ call' = <<"copy", n>>
  /\ n \in Live
  /\ \E f \in [Family(n) -> Nodes \ Live] :
       LET CopiedFrom(q) == CHOOSE m \in DOMAIN f : f[m] = q
           Copied(attribute) ==
             [q \in Nodes |-> IF q \in Range(f) THEN attribute[CopiedFrom(q)] ELSE attribute[q]]
       IN /\ result' = f[n]
          /\ IsInjective(f)
          /\ kind' = Copied(kind) /\ name' = Copied(name)
          /\ lists' = [q \in Nodes |->
               IF q \in Range(f)
                 THEN LET l == lists[CopiedFrom(q)] IN
                      [l EXCEPT !.members = [i \in DOMAIN @ |-> f[@[i]]]]
                 ELSE lists[q]]

(* i members of p are passed now, and the iteration gives the j-th, if there *)
(* is one.                                                                 *)
Visit(op, p, i, j) ==
  LET s == lists[p].members IN
  /\ call' = <<op, p>>
  /\ result' = IF j \in DOMAIN s THEN s[j] ELSE Null
  /\ lists' = [lists EXCEPT ![p].passed = i]
  /\ UNCHANGED <<kind, name>>

Iterate(p) ==
  LET c == lists[p].passed
      l == Len(lists[p].members)
  IN \/ Visit("first", p, IF l = 0 THEN 0 ELSE 1, 1)
     \/ Visit("next", p, IF c < l THEN c + 1 ELSE c, c + 1)
     \/ Visit("last", p, IF l = 0 THEN c ELSE l - 1, l)
     \/ Visit("previous", p, IF c = 0 THEN 0 ELSE c - 1, c)

Next ==
  \E n \in Nodes :
    \/ \E a \in Names \cup {NoName} : Create(n, a)
    \/ \E k \in {"leaf", "list", "struct"} : Become(n, k)
    \/ Detach(n) \/ Destroy(n) \/ Copy(n) \/ Iterate(n)
    \/ \E p \in Nodes : Add(p, n)
    \/ \E p \in Nodes, a \in Names : AddMember(p, a, n)
    \/ \E p, m \in Nodes : Beside("addbefore", p, n, m, 0) \/ Beside("addafter", p, n, m, 1)

Spec == Init /\ [][Next]_vars
=============================================================================
