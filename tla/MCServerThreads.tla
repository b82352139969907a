-------------------------- MODULE MCServerThreads --------------------------
(* Instances of ServerThreads for TLC.                                      *)
EXTENDS ServerThreads, TLC

(* No action names a connection or a descriptor, so both sets are symmetric; *)
(* only the runs without a temporal property use it.                        *)
Symmetric == Permutations(Conns) \cup Permutations(Fds)

(* The search for a sleeping worker follows clients that only connect and   *)
(* close, while the daemon runs.  The constraint cuts behaviours short; it  *)
(* adds none, and fairness still refers to the steps that are cut.          *)
SilentClients == ~shutdown /\ \A c \in Conns : inbox[c] = "empty"
=============================================================================
