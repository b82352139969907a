---------------------------- MODULE PropertySets ----------------------------
(***************************************************************************)
(* DOMPropertySet with its parents, and the properties of a handler that a  *)
(* request may set (AbstractHandler).  A chain is the map of a set followed *)
(* by those of its ancestors; a property is what an attribute says.  The    *)
(* documents are parsed without namespaces: names have none, and nested     *)
(* sets, which are found by theirs, do not exist.                           *)
(***************************************************************************)
EXTENDS Integers, Sequences, SequencesExt

CONSTANTS
  Absent,     \* the null pointer
  UnsignedOf, \* UnsignedOf[text]: its number, for the texts that are one
  IntOf,      \* IntOf[text]: what atoi() makes of it
  INT_MAX,    \* the greatest int
  BeginsTrue  \* the texts that begin with 't' or '1'

(* Both read the same of what fits in both; of a greater number atoi() makes *)
(* something else.                                                         *)
ASSUME NumberAssumption ==
  /\ Absent \notin DOMAIN UnsignedOf
  /\ \A text \in DOMAIN UnsignedOf : UnsignedOf[text] <= INT_MAX => IntOf[text] = UnsignedOf[text]

(* load(): empty attributes are no properties.  A declaration is one, for   *)
(* it is known by its namespace only, and the parser gives it none.         *)
Load(attributes) ==
  [name \in {n \in DOMAIN attributes : attributes[n] \notin {Absent, ""}} |-> attributes[name]]

(* The set that has the property: the nearest, 0 if none.                   *)
Holder(chain, name) == SelectInSeq(chain, LAMBDA own : name \in DOMAIN own)

Found(value) == [found |-> TRUE, value |-> value]
NotFound(value) == [found |-> FALSE, value |-> value]

GetString(chain, name) ==
  IF Holder(chain, name) = 0 THEN NotFound(Absent) ELSE Found(chain[Holder(chain, name)][name])

GetBool(chain, name) ==
  IF Holder(chain, name) = 0 THEN NotFound(FALSE)
  ELSE Found(chain[Holder(chain, name)][name] \in {"true", "1"})

GetInt(chain, name) ==
  IF Holder(chain, name) = 0 THEN NotFound(0) ELSE Found(IntOf[chain[Holder(chain, name)][name]])

(* Mutant: for a text that is no number the parent is asked.                *)
GetUnsignedIntOfAny(chain, name) ==
  LET numbers == SelectSeq(chain, LAMBDA own : IF name \in DOMAIN own THEN own[name] \in DOMAIN UnsignedOf ELSE FALSE)
  IN IF numbers = <<>> THEN NotFound(0) ELSE Found(UnsignedOf[numbers[1][name]])

GetUnsignedInt(chain, name) ==
  LET text == GetString(chain, name).value
  IN IF text \in DOMAIN UnsignedOf THEN Found(UnsignedOf[text]) ELSE NotFound(0)

(* properties[...] = ..., for all of its own.                               *)
Overwrite(all, own) ==
  [name \in DOMAIN own \cup DOMAIN all |-> IF name \in DOMAIN own THEN own[name] ELSE all[name]]

(* Mutant: the parent is asked last, and what it says stays.                *)
GetAllParentLast(chain) == FoldLeft(Overwrite, <<>>, chain)

(* getAll(): the parent first, and then what the set says itself.           *)
GetAll(chain) == FoldRight(LAMBDA own, all : Overwrite(all, own), chain, <<>>)

(* The parameter of the request, if the caller asks for it and it is not    *)
(* empty; the fixed property, if the caller asks for it.                    *)
Asked(parameter, from) == "request" \in from /\ parameter \notin {Absent, ""}

(* Mutant: an empty parameter counts.                                       *)
HandlerStringEmpty(chain, name, parameter, from) ==
  IF "request" \in from /\ parameter # Absent THEN Found(parameter)
  ELSE IF "fixed" \in from THEN GetString(chain, name) ELSE NotFound(Absent)

HandlerString(chain, name, parameter, from) ==
  IF Asked(parameter, from) THEN Found(parameter)
  ELSE IF "fixed" \in from THEN GetString(chain, name) ELSE NotFound(Absent)

HandlerBool(chain, name, parameter, from) ==
  IF Asked(parameter, from) THEN Found(parameter \in BeginsTrue)
  ELSE IF "fixed" \in from THEN GetBool(chain, name) ELSE NotFound(FALSE)

HandlerInt(chain, name, parameter, from) ==
  IF Asked(parameter, from) THEN Found(IntOf[parameter])
  ELSE IF "fixed" \in from THEN GetInt(chain, name) ELSE NotFound(0)

HandlerUnsignedInt(chain, name, parameter, from) ==
  IF Asked(parameter, from)
    THEN IF parameter \in DOMAIN UnsignedOf THEN Found(UnsignedOf[parameter]) ELSE NotFound(0)
  ELSE IF "fixed" \in from THEN GetUnsignedInt(chain, name) ELSE NotFound(0)

-----------------------------------------------------------------------------
(* A property has the value of the nearest element that gives it one that   *)
(* is not empty, and all at once says the same as one by one                *)
(* (DOMPropertySet.cpp:90-123, 188-203, 259-265).  elements[1] is the set's *)
(* own element; then come its ancestors.                                    *)
NearestCounts(elements) ==
  LET chain == [i \in DOMAIN elements |-> Load(elements[i])]
      Says(i, name) == IF name \in DOMAIN elements[i] THEN elements[i][name] \notin {Absent, ""} ELSE FALSE
      names == UNION {DOMAIN elements[i] : i \in DOMAIN elements}
      Given(name) == {i \in DOMAIN elements : Says(i, name)}
  IN /\ DOMAIN GetAll(chain) = {n \in names : Given(n) # {}}
     /\ \A n \in names :
          /\ GetString(chain, n).found <=> Given(n) # {}
          /\ \A i \in Given(n) :
               (\A j \in Given(n) : i <= j) =>
                 GetString(chain, n).value = elements[i][n] /\ GetAll(chain)[n] = elements[i][n]

(* Whichever type a reader asks for, it gets the same text read as that     *)
(* type: a text that is no number hides an ancestor's number, and is not    *)
(* found as an unsigned one; and a number is the same in both, if it can be *)
(* (DOMPropertySet.cpp:172-257).                                            *)
SameText(chain, name) ==
  LET text == GetString(chain, name)
      number == GetUnsignedInt(chain, name)
  IN /\ GetBool(chain, name).found = text.found /\ GetInt(chain, name).found = text.found
     /\ number.found <=> text.found /\ text.value \in DOMAIN UnsignedOf
     /\ number.found /\ number.value <= INT_MAX => number.value = GetInt(chain, name).value
     /\ GetBool(chain, name).value => text.value \in {"true", "1"}

(* A request changes a handler's property only by a parameter that is not   *)
(* empty and only where the caller lets it, in all types alike; the fixed   *)
(* property counts in all other cases (AbstractHandler.cpp:137-219).        *)
RequestOverrides(chain, name, parameter, from) ==
  LET text == HandlerString(chain, name, parameter, from)
      number == HandlerUnsignedInt(chain, name, parameter, from)
  IN /\ text.found => text.value # ""
     /\ "request" \notin from /\ text.found => text = GetString(chain, name)
     /\ "fixed" \notin from /\ text.found => text.value = parameter
     /\ "fixed" \in from => (text.found <=> GetString(chain, name).found \/ Asked(parameter, from))
     /\ HandlerBool(chain, name, parameter, from).found = text.found
     /\ HandlerInt(chain, name, parameter, from).found = text.found
     /\ number.found <=> text.found /\ text.value \in DOMAIN UnsignedOf
     /\ number.found /\ number.value <= INT_MAX =>
          number.value = HandlerInt(chain, name, parameter, from).value
=============================================================================
