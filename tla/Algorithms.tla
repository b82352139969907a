----------------------------- MODULE Algorithms -----------------------------
(***************************************************************************)
(* The pure parts of the library that need no recursion: a state is an      *)
(* input, and the properties compare what the code computes of it with what *)
(* it should be.                                                            *)
(***************************************************************************)
EXTENDS CGIParameters, AddressRanges, PropertySets

VARIABLE input

(* A query is parsed as its encoding defines it (CGIParser.cpp:116-130),    *)
(* and comes before the form (102-109).                                     *)
ParametersRead ==
  /\ input.kind = "text" => ParsedAsDefined(input.text)
  /\ input.kind = "request" => QueryBeforeForm(input)

(* The TCP listener admits whom its list names (TCPListener.cpp:280), and   *)
(* has a port that can be bound (114-120).                                  *)
ListedAdmitted ==
  /\ input.kind = "acl" => AdmitsTheListed(input.blocks, input.peer)
  /\ input.kind = "port" => PortUsable(input.attribute, input.environment)

Chain == [i \in DOMAIN input.elements |-> Load(input.elements[i])]

(* The nearest element counts (DOMPropertySet.cpp:188-265), all types read  *)
(* the same text (172-257), and a request overrides what it may             *)
(* (AbstractHandler.cpp:137-219).                                           *)
PropertiesRead ==
  /\ input.kind = "elements" => NearestCounts(input.elements)
  /\ input.kind = "property" =>
       SameText(Chain, "p") /\ RequestOverrides(Chain, "p", input.parameter, input.from)
=============================================================================
