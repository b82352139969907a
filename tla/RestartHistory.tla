--------------------------- MODULE RestartHistory ---------------------------
(***************************************************************************)
(* RemoteCall with a history variable: what a call's first send() left for *)
(* its second to meet.  The variable is only written, so that every        *)
(* behaviour of RemoteCall is one here.                                    *)
(***************************************************************************)
EXTENDS RemoteCall

VARIABLE
  spare   (* whether another stale socket was, or was about to be, in the  *)
          (* pool when a call's first send() failed                        *)

(* The rest of a reply, to its end, can be read.                           *)
Complete(s) == toClient[s] # <<>> /\ Last(toClient[s]).part = "body"

(* A socket other than that of c whose daemon's end is closed, and which is *)
(* in the pool or will be when the reply on it has been read.              *)
OtherStale(c) ==
  \E s \in Socks \ {sock[c]} :
    /\ serverEnd[s] = "closed"
    /\ \/ s \in {pool[i] : i \in DOMAIN pool}
       \/ Complete(s) /\ \E d \in Calls : pc[d] \in {"length", "body"} /\ sock[d] = s

HistoryInit == Init /\ spare = [c \in Calls |-> FALSE]

(* SendFails with a retry left goes back to get(). *)
Remember ==
  spare' = [c \in Calls |->
              IF pc[c] = "send" /\ pc'[c] = "get" THEN OtherStale(c) ELSE spare[c]]

HistoryNext == Next /\ Remember

HistorySpec == HistoryInit /\ [][HistoryNext]_<<vars, spare>>

FairHistorySpec == HistorySpec /\ Fairness

-----------------------------------------------------------------------------
(* The comment at the loop of send(), "Loop on the RPC in case we lost     *)
(* contact the first time through": for one restart of pepd the retry is   *)
(* enough.  A call gives up on a message it could not send only if, when   *)
(* its first send() failed, the pool held another stale socket, or a       *)
(* thread was about to put one there (SocketListener.cpp:303).             *)
SurvivesOneRestart ==
  [][\A c \in Calls : pc[c] = "send" /\ pc'[c] = "failed" /\ stops <= 1 => spare[c]]_<<vars, spare>>
=============================================================================
