---------------------------- MODULE MCHeaderCache ----------------------------
(* HeaderCache for TLC. *)
EXTENDS HeaderCache

MCReplies == {<<>>, <<"h1", "h2">>, <<"h1", Other, "h2">>, <<"h2", "h1", Other>>}
=============================================================================
