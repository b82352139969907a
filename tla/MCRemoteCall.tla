----------------------------- MODULE MCRemoteCall -----------------------------
(* An instance of RemoteCall for TLC.                                       *)
EXTENDS RemoteCall, TLC

(* No action names a socket, or a call but for whether its handler throws.  *)
Symmetric == Permutations(Socks) \cup Permutations(Calls \ Throws)
=============================================================================
