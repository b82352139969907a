---------------------------- MODULE CGIParameters ----------------------------
(***************************************************************************)
(* CGIParser and the parameters of a request.  A text is a sequence of      *)
(* atoms, which are characters and escapes of the form %xx.                 *)
(***************************************************************************)
EXTENDS Integers, Sequences, SequencesExt, FiniteSetsExt

CONSTANTS
  Missing,  \* no parameter
  Escapes,  \* Escapes[a]: the character the escape a stands for
  Nul,      \* the character that ends a C string
  Byte255   \* the character that is EOF as a char

ASSUME EscapeAssumption == DOMAIN Escapes \cap {"=", "&"} = {} /\ Nul # " "

(* fmakeword(): a word ends before an '&', behind a character that equals   *)
(* EOF, and at the end of the text.                                         *)
End(text, i) == Min({Len(text)} \cup {j \in i..Len(text) : text[j] \in {"&", Byte255}})
Word(text, i) ==
  SubSeq(text, i, IF text[End(text, i)] = "&" THEN End(text, i) - 1 ELSE End(text, i))

(* The words from a position on, and of the whole text.                     *)
Words(text) ==
  LET from[i \in 1..(Len(text) + 1)] ==
        IF i > Len(text) THEN <<>> ELSE <<Word(text, i)>> \o from[End(text, i) + 1]
  IN from[1]

(* Mutant: escapes are replaced before the plus signs.                      *)
DecodedPlusLast(word) ==
  LET d == [i \in DOMAIN word |-> IF word[i] \in DOMAIN Escapes THEN Escapes[word[i]] ELSE word[i]]
  IN [i \in DOMAIN d |-> IF d[i] = "+" THEN " " ELSE d[i]]

(* plustospace() and decode().                                              *)
Decoded(word) ==
  [i \in DOMAIN word |->
     IF word[i] = "+" THEN " "
     ELSE IF word[i] \in DOMAIN Escapes THEN Escapes[word[i]] ELSE word[i]]

(* A C string as its reader sees it.                                        *)
CString(text) == SubSeq(text, 1, Min({Len(text) + 1} \cup {i \in DOMAIN text : text[i] = Nul}) - 1)

(* makeword(): the text up to the first '=', and what is behind it.         *)
SplitAtEquals(text) ==
  LET equals == Min({Len(text) + 1} \cup {i \in DOMAIN text : text[i] = "="})
  IN [name |-> SubSeq(text, 1, equals - 1), value |-> SubSeq(text, equals + 1, Len(text))]

Parse(text) == [i \in DOMAIN Words(text) |-> SplitAtEquals(CString(Decoded(Words(text)[i])))]

(* Mutant: the body of every POST is parsed, and before the query.          *)
ParametersBodyFirst(r) ==
  (IF r.method = "POST" /\ r.form THEN Parse(r.body) ELSE <<>>) \o Parse(r.query)

(* The constructor; kvp_map keeps equal names in the order of insertion.    *)
Parameters(r) ==
  Parse(r.query) \o (IF r.method = "POST" /\ r.form THEN Parse(r.body) ELSE <<>>)

(* getParameters() and getParameter() of the two kinds of request.          *)
GetParameters(r, name) == {i \in DOMAIN Parameters(r) : Parameters(r)[i].name = name}
GetParameter(r, name) ==
  IF GetParameters(r, name) = {} THEN Missing ELSE Parameters(r)[Min(GetParameters(r, name))].value

-----------------------------------------------------------------------------
(* What a form says, by the definition of its encoding: the parts between   *)
(* the '&'s, cut at the first '=' and then decoded.  No part follows an '&' *)
(* at the end.                                                              *)
Ends(text) ==
  {i \in DOMAIN text : text[i] = "&"}
  \cup (IF text = <<>> \/ Last(text) = "&" THEN {} ELSE {Len(text) + 1})
EndOf(text, k) == CHOOSE e \in Ends(text) : Cardinality({f \in Ends(text) : f < e}) = k - 1
Part(text, k) == SubSeq(text, IF k = 1 THEN 1 ELSE EndOf(text, k - 1) + 1, EndOf(text, k) - 1)

Meaning(a) == CASE a = "+" -> " " [] a # "+" /\ a \in DOMAIN Escapes -> Escapes[a] [] OTHER -> a
Meant(chars) == [i \in DOMAIN chars |-> Meaning(chars[i])]
Pair(part) == [name |-> Meant(SplitAtEquals(part).name), value |-> Meant(SplitAtEquals(part).value)]

Standard(text) == [k \in 1..Cardinality(Ends(text)) |-> Pair(Part(text, k))]

(* The parser decodes a part before it looks for the '='.  This makes no    *)
(* difference if no escape stands for '=' in a name, or for NUL; and if no  *)
(* character is taken for EOF.                                              *)
Unambiguous(text) ==
  \A i \in DOMAIN text :
    /\ text[i] # Byte255
    /\ text[i] \in DOMAIN Escapes =>
         /\ Escapes[text[i]] # Nul
         /\ Escapes[text[i]] = "=" =>
              \E j \in 1..(i - 1) : text[j] = "=" /\ \A k \in j..i : text[k] # "&"

(* The parameters of a text are those of the encoding's definition, empty   *)
(* ones and repeated ones included (CGIParser.cpp:116-130).                 *)
ParsedAsDefined(text) == Unambiguous(text) => Parse(text) = Standard(text)

(* A parameter of the query hides one of the form, and a form counts only   *)
(* in a POST of that content type (CGIParser.cpp:102-109).                  *)
QueryBeforeForm(r) ==
  LET FirstOf(pairs, name) ==
        IF \E i \in DOMAIN pairs : pairs[i].name = name
          THEN pairs[SelectInSeq(pairs, LAMBDA p : p.name = name)].value ELSE Missing
      form == IF r.method = "POST" /\ r.form THEN Parse(r.body) ELSE <<>>
      names == {p.name : p \in ToSet(Parse(r.query)) \cup ToSet(Parse(r.body))}
  IN \A name \in names :
       GetParameter(r, name) =
         IF \E p \in ToSet(Parse(r.query)) : p.name = name
           THEN FirstOf(Parse(r.query), name) ELSE FirstOf(form, name)
=============================================================================
