----------------------------- MODULE HeaderList -----------------------------
(***************************************************************************)
(* What clearAttributeHeaders() of an application promises to the requests  *)
(* that call it at the same time: the list of headers is fetched as a whole *)
(* and once, and each call that does not fail clears all of it.             *)
(***************************************************************************)
EXTENDS Sequences

CONSTANTS Threads, Lists

VARIABLES
  list,   \* the headers, or none yet
  call,   \* call[t]: where the call of t is
  cleared \* cleared[t]: what the last call of t has cleared

Init ==
  /\ list = <<>>
  /\ call = [t \in Threads |-> "none"]
  /\ cleared = [t \in Threads |-> <<>>]

Begin(t) ==
  /\ call[t] # "begun"
  /\ call' = [call EXCEPT ![t] = "begun"]
  /\ cleared' = [cleared EXCEPT ![t] = <<>>]
  /\ UNCHANGED list

(* Only a call fetches, and only a list that is not there.                  *)
Fetch ==
  /\ list = <<>>
  /\ \E t \in Threads : call[t] = "begun"
  /\ list' \in Lists
  /\ UNCHANGED <<call, cleared>>

End(t) ==
  /\ call[t] = "begun"
  /\ call' = [call EXCEPT ![t] = "ended"]
  /\ cleared' = [cleared EXCEPT ![t] = list]
  /\ UNCHANGED list

Fail(t) ==
  /\ call[t] = "begun" /\ list = <<>>
  /\ call' = [call EXCEPT ![t] = "failed"]
  /\ UNCHANGED <<list, cleared>>

Next == Fetch \/ \E t \in Threads : Begin(t) \/ End(t) \/ Fail(t)

Spec == Init /\ [][Next]_<<list, call, cleared>>
=============================================================================
