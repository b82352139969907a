---------------------------- MODULE XACMLRequest ----------------------------
(***************************************************************************)
(* XACMLRequestBuilder: the attributes that a decision request collects,    *)
(* and the document that is made of them.  A builder is a function from     *)
(* categories to functions from attribute ids to attributes.                *)
(***************************************************************************)
EXTENDS Packet, TLC

CONSTANT Garbled \* what transcode() makes of bytes it cannot read

NoAttributes == <<>>

(* m_AttributeMap[category], which is empty if it was not there.            *)
InCategory(b, category) == IF category \in DOMAIN b THEN b[category] ELSE <<>>

(* addAttribute(): an attribute that exists is given back as it is.         *)
AddAttribute(b, category, id, includeInResult) ==
  IF id \in DOMAIN InCategory(b, category) THEN b
  ELSE (category :> ((id :> [include |-> includeInResult, values |-> <<>>]) @@ InCategory(b, category))) @@ b

AddAttributeValue(b, category, id, value, dataType) ==
  [b EXCEPT ![category][id].values = Append(@, [value |-> value, type |-> dataType])]

Transcoded(text) == IF Readable(text) THEN text ELSE Garbled

(* getDocument(): one Attributes element for each category, with an         *)
(* Attribute for each id; both stand in the order of their names.           *)
GetDocument(b) ==
  {[category |-> c,
    attributes |->
      {[id |-> id, include |-> b[c][id].include,
        values |-> [i \in DOMAIN b[c][id].values |->
                      [b[c][id].values[i] EXCEPT !.value = Transcoded(@)]]] : id \in DOMAIN b[c]}]
     : c \in DOMAIN b}
=============================================================================
