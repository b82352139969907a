------------------------------ MODULE DataTree ------------------------------
(***************************************************************************)
(* The DDF, the tree of data that is remoted: ddf_body_t nodes on the heap *)
(* with links to the parent and the siblings, and, for a struct or a list, *)
(* to the first, the last and the current member and their number.         *)
(*                                                                         *)
(* heap is the memory; an operation of the heap is an operator from heap   *)
(* to heap, and a function that calls others composes them in the order of *)
(* the calls.  As in the code that uses DDF, a node gets its name when it  *)
(* is made, and names have no dots, as addmember makes them; no node is    *)
(* put below itself, next to itself, or into a struct in place of a member *)
(* it is below.                                                            *)
(***************************************************************************)
EXTENDS Naturals, FiniteSets, Sequences

CONSTANTS
  Nodes,   (* ddf_body_t objects                                           *)
  Null,    (* nullptr                                                      *)
  Names,   (* names of nodes                                               *)
  NoName   (* the name of a node that has none                             *)

(* Memory is finite. *)
ASSUME DataTreeAssumption ==
  /\ IsFiniteSet(Nodes) /\ Null \notin Nodes
  /\ NoName \notin Names

Containers == {"list", "struct"}
(* "leaf" is a node without members, whatever its value is, and "free" is  *)
(* memory that holds no node.                                              *)
Types == {"free", "leaf"} \cup Containers

Free == [type |-> "free", name |-> NoName, parent |-> Null, next |-> Null, prev |-> Null,
         first |-> Null, last |-> Null, current |-> Null, count |-> 0]

VARIABLES
  heap,    (* the nodes                                                    *)
  call,    (* the last call: a function and its arguments                  *)
  result   (* the node it returned                                         *)

vars == <<heap, call, result>>

Links == Nodes \cup {Null}

TypeOK ==
  /\ heap \in [Nodes -> [type : Types, name : Names \cup {NoName}, parent : Links,
                         next : Links, prev : Links, first : Links, last : Links,
                         current : Links, count : Nat]]
  /\ result \in Links

Init ==
  /\ heap = [n \in Nodes |-> Free]
  /\ call = <<>>
  /\ result = Null

Live(h) == {n \in Nodes : h[n].type # "free"}

(* What destroy() reaches when it starts at S and takes the first member,   *)
(* and then the next, as long as there is one: the nodes that are in every  *)
(* set that these links do not lead out of.                                *)
Reach(h, S) ==
  LET LinkedTo(R) == {h[m].first : m \in R} \cup {h[m].next : m \in R}
      Closed == {R \in SUBSET Nodes : S \cup LinkedTo(R) \subseteq R \cup {Null}}
  IN {n \in Nodes : \A R \in Closed : n \in R}

(* n and what is below it. *)
Subtree(h, n) == {n} \cup Reach(h, {h[n].first})

(* Every node with those behind it, from link to link. *)
Walk(h) ==
  LET from[n \in Links] == IF n = Null THEN <<>> ELSE <<n>> \o from[h[n].next]
  IN from

(* The members of p in their order. *)
Chain(h, p) == Walk(h)[h[p].first]

-----------------------------------------------------------------------------
(* Operations of the heap.                                                 *)

(* Mutant: the cursor stays at the node that is removed. *)
RemoveKeepsCurrent(h, c) ==
  LET b == h[c] IN
  IF b.parent = Null THEN h
  ELSE [n \in Nodes |-> [h[n] EXCEPT
          !.parent = IF n = c THEN Null ELSE @,
          !.next = IF n = c THEN Null ELSE IF n = b.prev THEN b.next ELSE @,
          !.prev = IF n = c THEN Null ELSE IF n = b.next THEN b.prev ELSE @,
          !.first = IF n = b.parent /\ @ = c THEN b.next ELSE @,
          !.last = IF n = b.parent /\ @ = c THEN b.prev ELSE @,
          !.count = IF n = b.parent THEN @ - 1 ELSE @]]

(* Mutant: the cursor goes on to the next member. *)
RemoveAdvances(h, c) ==
  LET b == h[c]
      r == RemoveKeepsCurrent(h, c)
  IN IF b.parent # Null /\ h[b.parent].current = c
       THEN [r EXCEPT ![b.parent].current = b.next] ELSE r

(* remove(): c leaves its parent, whose cursor steps back if it is at c.   *)
Unlink(h, c) ==
  LET b == h[c] IN
  IF b.parent = Null THEN h
  ELSE [n \in Nodes |-> [h[n] EXCEPT
          !.parent = IF n = c THEN Null ELSE @,
          !.next = IF n = c THEN Null ELSE IF n = b.prev THEN b.next ELSE @,
          !.prev = IF n = c THEN Null ELSE IF n = b.next THEN b.prev ELSE @,
          !.first = IF n = b.parent /\ @ = c THEN b.next ELSE @,
          !.last = IF n = b.parent /\ @ = c THEN b.prev ELSE @,
          !.current = IF n = b.parent /\ @ = c THEN b.prev ELSE @,
          !.count = IF n = b.parent THEN @ - 1 ELSE @]]

(* The memory of the nodes of S is given back. *)
Release(h, S) == [n \in Nodes |-> IF n \in S THEN Free ELSE h[n]]

(* destroy() *)
Delete(h, c) == LET r == Unlink(h, c) IN Release(r, Subtree(r, c))

(* Mutant: the members of the new node are not counted from zero. *)
RetypeUncounted(h, n, type) ==
  [Release(h, Subtree(h, n) \ {n}) EXCEPT
     ![n] = [Free EXCEPT !.type = type, !.name = h[n].name, !.parent = h[n].parent,
                         !.next = h[n].next, !.prev = h[n].prev, !.count = Null]]

(* empty(), and then the node becomes one of the given type. *)
Retype(h, n, type) ==
  [Release(h, Subtree(h, n) \ {n}) EXCEPT
     ![n] = [Free EXCEPT !.type = type, !.name = h[n].name, !.parent = h[n].parent,
                         !.next = h[n].next, !.prev = h[n].prev]]

(* new ddf_body_t, and name() *)
New(h, n, name) == [h EXCEPT ![n] = [Free EXCEPT !.type = "leaf", !.name = name]]

(* The rest of add(), addbefore() and addafter(), when c belongs to nobody. *)
LinkLast(h, p, c) ==
  LET l == h[p].last IN
  [n \in Nodes |-> [h[n] EXCEPT
     !.first = IF n = p /\ @ = Null THEN c ELSE @,
     !.last = IF n = p THEN c ELSE @,
     !.count = IF n = p THEN @ + 1 ELSE @,
     !.next = IF n = l THEN c ELSE @,
     !.prev = IF n = c THEN l ELSE @,
     !.parent = IF n = c THEN p ELSE @]]

LinkBefore(h, p, c, b) ==
  [n \in Nodes |-> [h[n] EXCEPT
     !.first = IF n = p /\ @ = b THEN c ELSE @,
     !.count = IF n = p THEN @ + 1 ELSE @,
     !.next = IF n = c THEN b ELSE IF n = h[b].prev THEN c ELSE @,
     !.prev = IF n = c THEN h[b].prev ELSE IF n = b THEN c ELSE @,
     !.parent = IF n = c THEN p ELSE @]]

(* Mutant: a new last member is not noted as the last. *)
LinkAfterKeepsLast(h, p, c, a) ==
  [n \in Nodes |-> [h[n] EXCEPT
     !.count = IF n = p THEN @ + 1 ELSE @,
     !.prev = IF n = c THEN a ELSE IF n = h[a].next THEN c ELSE @,
     !.next = IF n = c THEN h[a].next ELSE IF n = a THEN c ELSE @,
     !.parent = IF n = c THEN p ELSE @]]

LinkAfter(h, p, c, a) ==
  [n \in Nodes |-> [h[n] EXCEPT
     !.last = IF n = p /\ @ = a THEN c ELSE @,
     !.count = IF n = p THEN @ + 1 ELSE @,
     !.prev = IF n = c THEN a ELSE IF n = h[a].next THEN c ELSE @,
     !.next = IF n = c THEN h[a].next ELSE IF n = a THEN c ELSE @,
     !.parent = IF n = c THEN p ELSE @]]

(* Mutant: the first member is not looked at. *)
MemberNotFirst(h, p, name) ==
  {Chain(h, p)[i] : i \in {j \in DOMAIN Chain(h, p) : j > 1 /\ h[Chain(h, p)[j]].name = name}}

(* getmember() in a struct: the first member with the name, if there is one. *)
Member(h, p, name) ==
  LET s == Chain(h, p)
      Named == {i \in DOMAIN s : h[s[i]].name = name}
  IN {s[i] : i \in {j \in Named : \A k \in Named : j <= k}}

(* add(): a struct gives up its member of that name. *)
Attach(h, p, c) ==
  LET old == IF h[p].type = "struct" THEN Member(h, p, h[c].name) ELSE {}
      r == IF old = {} THEN h ELSE Delete(h, CHOOSE m \in old : TRUE)
  IN LinkLast(Unlink(r, c), p, c)

-----------------------------------------------------------------------------
(* The actions: one call of a function of DDF.                             *)

(* The call c leaves the heap h and returns the node n. *)
Become(h, c, n) == heap' = h /\ call' = c /\ result' = n

Create(n) ==
  /\ n \notin Live(heap)
  /\ \E name \in Names \cup {NoName} : Become(New(heap, n, name), <<"new", name>>, n)

SetType(n) ==
  /\ n \in Live(heap)
  /\ \E type \in Types \ {"free"} : Become(Retype(heap, n, type), <<"become", n, type>>, Null)

Add(p, c) ==
  /\ {p, c} \subseteq Live(heap)
  /\ heap[p].type \in Containers /\ heap[c].parent # p
  /\ heap[p].type = "struct" => /\ heap[c].name # NoName
                                /\ \A m \in Member(heap, p, heap[c].name) :
                                     c \notin Subtree(heap, m)
  /\ p \notin Subtree(heap, c)
  /\ Become(Attach(heap, p, c), <<"add", p, c>>, Null)

Beside(p, c, m) ==
  /\ {p, c, m} \subseteq Live(heap)
  /\ heap[p].type = "list" /\ heap[m].parent = p
  /\ c # m /\ p \notin Subtree(heap, c)

AddBefore(p, c, b) ==
  /\ Beside(p, c, b)
  /\ Become(LinkBefore(Unlink(heap, c), p, c, b), <<"addbefore", p, c, b>>, Null)

AddAfter(p, c, a) ==
  /\ Beside(p, c, a)
  /\ Become(LinkAfter(Unlink(heap, c), p, c, a), <<"addafter", p, c, a>>, Null)

Remove(c) == c \in Live(heap) /\ Become(Unlink(heap, c), <<"remove", c>>, Null)

Destroy(c) == c \in Live(heap) /\ Become(Delete(heap, c), <<"destroy", c>>, Null)

(* addmember() with one token of a path; with more it goes on at the member. *)
AddMember(p, name) ==
  /\ p \in Live(heap)
  /\ LET h == IF heap[p].type = "struct" THEN heap ELSE Retype(heap, p, "struct")
         old == Member(h, p, name)
     IN IF old # {} THEN \E m \in old : Become(h, <<"addmember", p, name>>, m)
        ELSE \E n \in Nodes \ Live(h) :
               Become(Attach(New(h, n, name), p, n), <<"addmember", p, name>>, n)

(* copy(), which gives each node of the subtree a new one: f. *)
Copy(n, f) ==
  LET h == heap
      Image == {f[m] : m \in DOMAIN f}
      Of(link) == IF link = Null THEN Null ELSE f[link]
  IN /\ n \in Live(heap)
     /\ Become([q \in Nodes |->
          IF q \notin Image THEN h[q]
          ELSE LET m == CHOOSE m \in DOMAIN f : f[m] = q IN
               [h[m] EXCEPT !.parent = IF m = n THEN Null ELSE Of(@),
                            !.next = IF m = n THEN Null ELSE Of(@),
                            !.prev = IF m = n THEN Null ELSE Of(@),
                            !.first = Of(@), !.last = Of(@), !.current = Of(@)]],
          <<"copy", n>>, f[n])

CopySomewhere(n) ==
  LET S == Subtree(heap, n) IN
  \E f \in [S -> Nodes \ Live(heap)] :
    (\A m, k \in S : f[m] = f[k] => m = k) /\ Copy(n, f)

Iterate(op, p, current, n) == Become([heap EXCEPT ![p].current = current], <<op, p>>, n)

First(p) ==
  /\ heap[p].type \in Containers
  /\ Iterate("first", p, heap[p].first, heap[p].first)

(* Mutant: the iteration does not start again when its cursor fell off the front. *)
NextFromCurrent(p) ==
  /\ heap[p].type \in Containers
  /\ LET b == heap[p]
         n == IF b.current = Null \/ b.current = b.last THEN Null ELSE heap[b.current].next
     IN Iterate("next", p, IF n = Null THEN b.current ELSE n, n)

Next_(p) ==
  /\ heap[p].type \in Containers
  /\ LET b == heap[p]
         n == IF b.current = b.last THEN Null
              ELSE IF b.current = Null THEN b.first ELSE heap[b.current].next
     IN Iterate("next", p, IF b.current = b.last THEN b.current ELSE n, n)

Last(p) ==
  /\ heap[p].type \in Containers
  /\ LET l == heap[p].last IN
       Iterate("last", p, IF l = Null THEN heap[p].current ELSE heap[l].prev, l)

Previous(p) ==
  /\ heap[p].type \in Containers
  /\ LET c == heap[p].current IN
       Iterate("previous", p, IF c = Null THEN Null ELSE heap[c].prev, c)

Next ==
  \E n \in Nodes :
    \/ Create(n) \/ SetType(n) \/ Remove(n) \/ Destroy(n) \/ CopySomewhere(n)
    \/ First(n) \/ Next_(n) \/ Last(n) \/ Previous(n)
    \/ \E name \in Names : AddMember(n, name)
    \/ \E p \in Nodes : Add(p, n)
    \/ \E p, m \in Nodes : AddBefore(p, n, m) \/ AddAfter(p, n, m)

Spec == Init /\ [][Next]_vars

-----------------------------------------------------------------------------
(* The links of a list agree with each other, with its count and with the  *)
(* cursor, and nothing is below itself.                                    *)
LinksAgree ==
  \A p \in Nodes :
    LET s == Chain(heap, p) IN
    /\ {s[i] : i \in DOMAIN s} = {n \in Live(heap) : heap[n].parent = p}
    /\ Len(s) = heap[p].count
    /\ \A i \in DOMAIN s : heap[s[i]].prev = IF i = 1 THEN Null ELSE s[i - 1]
    /\ heap[p].last = IF s = <<>> THEN Null ELSE s[Len(s)]
    /\ heap[p].current \in {Null} \cup {s[i] : i \in DOMAIN s}
    /\ p \notin Reach(heap, {heap[p].first})
    /\ s # <<>> => heap[p].type \in Containers

(* The members of a struct have names, all different: getmember() finds     *)
(* every one of them.                                                      *)
NamesUnique ==
  \A p \in Nodes : heap[p].type = "struct" =>
    \A i, j \in DOMAIN Chain(heap, p) :
      LET name(k) == heap[Chain(heap, p)[k]].name IN
      name(i) # NoName /\ (name(i) = name(j) => i = j)

(* The nodes are trees after every call (ddf.cpp): each is a member of the  *)
(* list of its parent and of no other, no link leads to freed memory, and a *)
(* struct has one member of a name.                                        *)
WellFormed == TypeOK /\ LinksAgree /\ NamesUnique

(* The members of p; the place of the current one tells how many of them an *)
(* iteration has passed.                                                   *)
ListOf(h, p) ==
  LET s == Chain(h, p) IN
  [members |-> s,
   passed |-> IF h[p].current = Null THEN 0 ELSE CHOOSE i \in DOMAIN s : s[i] = h[p].current]

Forest == INSTANCE OrderedForest WITH
  kind <- [n \in Nodes |-> heap[n].type], name <- [n \in Nodes |-> heap[n].name],
  lists <- [n \in Nodes |-> ListOf(heap, n)]

(* The linked nodes implement the forest: each call changes the sequences  *)
(* of members as it should, and an iteration visits, in order, the members *)
(* behind its cursor, also when members are added or removed under way.    *)
ImplementsForest == Forest!Spec
=============================================================================
