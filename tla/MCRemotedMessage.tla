-------------------------- MODULE MCRemotedMessage --------------------------
(* RemotedMessage for TLC. *)
EXTENDS RemotedMessage

MCEscaped == [a \in {"%41", "%ff"} |-> IF a = "%41" THEN "A" ELSE "raw"]

MCApacheRequests ==
  {[unparsed_uri |-> uri[1], args |-> uri[2], scheme |-> where[1], port |-> where[2], hostname |-> host,
    method |-> <<"GET">>, remote_ip |-> <<"10.0.0.1">>, user |-> user, cert |-> cert] :
     uri \in {<<<<"/p">>, Null>>, <<<<"/p", "?">>, <<>>>>, <<<<"/p", "%41", "?", "%41">>, <<"%41">>>>,
              <<<<"/p", "%ff">>, Null>>, <<<<"/p", "#", "%zz">>, Null>>,
              <<<<"/p", "?", "%zz">>, <<"%zz">>>>, <<<<"/p", "?", "raw">>, <<"raw">>>>},
     where \in {<<<<"http">>, 80>>, <<<<"https">>, 443>>, <<<<"http">>, 8080>>},
     host \in {<<"host">>, <<"raw">>},
     user \in {Null, <<"alice">>, <<"raw">>},
     cert \in {<<>>, <<"BEGIN", "MII">>, <<"MII">>, <<"junk">>}}

(* A certificate as PEM and as base64 only. *)
MCEncoding == [c \in {<<"BEGIN", "MII">>, <<"MII">>} |-> <<"MII">>]

MCAnswers ==
  {<<>>,
   <<<<"decision", <<"PERMIT">>>>, <<"status", <<"OK">>>>>>,
   <<<<"decision", <<"DENY">>>>, <<"user", <<"bob">>>>, <<"user", <<"carol">>>>>>,
   <<<<"status", <<"OK">>>>, <<"user", <<>>>>, <<"decision", <<"PERMIT">>>>>>,
   <<<<"decision", <<"DENY">>>>, <<"user", <<"bob", "LF">>>>, <<"status", <<"OK">>>>>>,
   <<<<"decision", <<"PERMIT">>>>, <<"redirect", <<"raw">>>>>>}
=============================================================================
