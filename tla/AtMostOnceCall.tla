--------------------------- MODULE AtMostOnceCall ---------------------------
(***************************************************************************)
(* What ListenerService::send promises its callers: a remoted message is   *)
(* handled at most once, a caller gets the result (or the exception) of    *)
(* its own message and only after the message was handled, and nothing is  *)
(* handled for a caller that has been told of a failure.  A failure leaves *)
(* open whether the message was handled; so does the end of the process    *)
(* that the calls are made in, of which nobody is told.                    *)
(***************************************************************************)
CONSTANT Calls   (* the calls of ListenerService::send *)

VARIABLE state   (* how far each call has come         *)

Init == state = [c \in Calls |-> "idle"]

Step(c, from, to) == state[c] \in from /\ state' = [state EXCEPT ![c] = to]

(* A thread calls send().                                                  *)
Invoke(c) == Step(c, {"idle"}, "called")

(* The message's handler runs in the daemon.                               *)
Handle(c) == Step(c, {"called"}, "handled")

(* send() returns the reply, or raises the exception it holds.             *)
Return(c) == Step(c, {"handled"}, "returned")
Raise(c) == Step(c, {"handled"}, "raised")

(* send() throws a ListenerException of its own.                           *)
Fail(c) == Step(c, {"called", "handled"}, "failed")

(* The calling process ends, and with it the calls it is in.               *)
Lose ==
  state' = [c \in Calls |-> IF state[c] \in {"called", "handled"} THEN "lost" ELSE state[c]]

Next ==
  \/ \E c \in Calls : Invoke(c) \/ Handle(c) \/ Return(c) \/ Raise(c) \/ Fail(c)
  \/ Lose

Spec == Init /\ [][Next]_state

(* A call comes to an end.                                                 *)
Ends(c) == Handle(c) \/ Return(c) \/ Raise(c) \/ Fail(c)

Fair(c) == WF_state(Ends(c))

FairSpec == Spec /\ \A c \in Calls : Fair(c)
=============================================================================
