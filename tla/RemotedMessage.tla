--------------------------- MODULE RemotedMessage ---------------------------
(***************************************************************************)
(* What one authorization check says on its way: the web server's request  *)
(* becomes a t_authz_request, a DDF, a packet, a DDF again in the daemon,   *)
(* and the XACML document that the PDP is asked with; the headers of the    *)
(* answer come back in the same way.  Authorization has the control of the  *)
(* same path and the meaning of the answer, RemoteCall the transport.       *)
(***************************************************************************)
EXTENDS XACMLRequest

CONSTANTS
  ApacheRequests, \* the requests of the web server
  Answers,        \* the headers that an answer of the PDP sets, in order
  Escaped,        \* Escaped[a]: what the atom a, an escape with %, stands for
  Malformed,      \* the atoms that look like an escape and are none
  Encoding,       \* Encoding[c]: the DER encoding, in base64, of the certificate
                  \* that c is the text of; what is no such text cannot be loaded
  Control         \* the control characters that may be in a text of XML

VARIABLES
  stage,    \* how far the check has come: new, ended, asked, sent, receiving,
            \* replying, replied, unwrapping, failed or done
  apache,   \* the request_rec
  in,       \* the DDF that wrap() makes
  packet,   \* what is on the socket
  received, \* the DDF that the daemon reads
  document, \* the XACML request at the PDP, or Null
  answer,   \* what the PDP's answer sets
  ret,      \* the DDF of the reply, as far as it is made
  out,      \* the DDF of the reply in the web server
  at,       \* the member of its header list that is next
  headers   \* m_ResponseHeaderMap of the PEPRequestImpl

vars == <<stage, apache, in, packet, received, document, answer, ret, out, at, headers>>

(* scheme, uri and so on are never null; the user, the query and the        *)
(* certificate may be.                                                      *)
ASSUME MessageAssumption ==
  \A r \in ApacheRequests :
    /\ \A f \in {"unparsed_uri", "scheme", "hostname", "method"} : r[f] # Null /\ r[f] # <<>>
    /\ r.port \in Nat

ASSUME CertificateAssumption == <<>> \notin DOMAIN Encoding

Init ==
  /\ stage = "new"
  /\ apache \in ApacheRequests
  /\ answer \in Answers
  /\ in = NoNode /\ received = NoNode /\ ret = NoNode /\ out = NoNode
  /\ packet = Null /\ document = Null
  /\ at = 1
  /\ headers = <<>>

-----------------------------------------------------------------------------
(* The web server: mod_pep.c and PEPRequestImpl.                            *)

(* prepare_...(), into a t_authz_request.                                   *)
AuthzRequest(r) ==
  [app_id |-> <<"default">>, remote_user |-> r.user, client_cert |-> r.cert,
   uri |-> r.unparsed_uri, hostname |-> r.hostname, method |-> r.method, scheme |-> r.scheme,
   query_string |-> r.args, remote_addr |-> r.remote_ip, port |-> r.port]

(* setRequestURI(): escapes are replaced up to the query; one that is none  *)
(* throws.                                                                  *)
Path(uri) == SubSeq(uri, 1, (IF "?" \in ToSet(uri) THEN SelectInSeq(uri, LAMBDA a : a = "?") ELSE Len(uri) + 1) - 1)
IsMalformed(uri) == \E i \in DOMAIN Path(uri) : uri[i] \in Malformed

(* Mutant: the query is unescaped as well.                                  *)
UnescapeAll(uri) == [i \in DOMAIN uri |-> IF uri[i] \in DOMAIN Escaped THEN Escaped[uri[i]] ELSE uri[i]]

Unescape(uri) ==
  [i \in DOMAIN uri |->
     IF i \in DOMAIN Path(uri) /\ uri[i] \in DOMAIN Escaped THEN Escaped[uri[i]] ELSE uri[i]]

(* isDefaultPort() of the library.                                          *)
IsDefaultPort(scheme, port) == <<scheme, port>> \in {<<<<"http">>, 80>>, <<<<"https">>, 443>>}

OrEmpty(text) == IF text = Null THEN <<>> ELSE text

(* The getters of PEPRequestImpl and AbstractPEPRequest.  The property      *)
(* REMOTE_ADDR, the name of a header with the address, is never set.        *)
PEPRequest(a) ==
  [scheme |-> a.scheme, hostname |-> a.hostname, port |-> a.port,
   contentType |-> <<>>, contentLength |-> 0, body |-> Null,
   remoteUser |-> OrEmpty(a.remote_user), remoteAddr |-> <<>>,
   method |-> a.method, uri |-> Unescape(a.uri),
   url |-> a.scheme \o <<"://">> \o a.hostname
             \o (IF IsDefaultPort(a.scheme, a.port) THEN <<>> ELSE <<":", ToString(a.port)>>)
             \o Unescape(a.uri),
   query |-> a.query_string, header |-> <<>>,
   certs |-> IF a.client_cert = Null THEN <<>> ELSE <<a.client_cert>>]

(* in.addmember(name).string(text) and its like: n is what the conversion   *)
(* leaves of any node, but for the name.                                    *)
With(t, name, n) ==
  LET added == AddMember(t, <<name>>)
  IN Put(added.tree, added.place, [n EXCEPT !.name = name])

Fields(t, fields) == FoldLeft(LAMBDA u, f : With(u, f[1], f[2]), t, fields)
AsString(text) == String(NoNode, text)

(* Mutant: what need not be UTF-8 is sent as if it were.                    *)
AsUnsafePlain(text) == String(NoNode, text)

AsUnsafe(text) == UnsafeString(NoNode, text)

AsInteger(i) == Integer(NoNode, i)

(* Mutant: a single certificate is sent without a list.                     *)
CertificatesUnlisted(t, certs) ==
  IF certs = <<>> THEN t ELSE With(t, "certificates", AsString(certs[1]))

Certificates(t, certs) ==
  IF certs = <<>> THEN t
  ELSE With(t, "certificates", FoldLeft(LAMBDA l, c : Add(l, String(Leaf(Null), c)), List(NoNode), certs))

(* wrap(), with the certificates and without headers: no header is          *)
(* configured to be sent.                                                   *)
Wrap(a) ==
  LET r == PEPRequest(a)
  IN Certificates(
       Fields(Structure(Leaf("default/Authorization")),
              <<<<"application_id", AsString(a.app_id)>>, <<"scheme", AsString(r.scheme)>>,
                <<"hostname", AsUnsafe(r.hostname)>>, <<"port", AsInteger(r.port)>>,
                <<"content_type", AsString(r.contentType)>>, <<"body", AsString(r.body)>>,
                <<"content_length", AsInteger(r.contentLength)>>,
                <<"remote_user", AsString(r.remoteUser)>>, <<"client_addr", AsString(r.remoteAddr)>>,
                <<"method", AsString(r.method)>>, <<"uri", AsUnsafe(r.uri)>>,
                <<"url", AsUnsafe(r.url)>>, <<"query", AsString(r.query)>>>>), r.certs)

daemonSide == <<received, document, ret>>
replySide == <<out, at, headers>>

(* The exception leaves the constructor of PEPRequestImpl, and the C code   *)
(* that called it: the web server's child ends.                             *)
BadUri ==
  /\ stage = "new"
  /\ IsMalformed(apache.unparsed_uri)
  /\ stage' = "ended"
  /\ UNCHANGED <<apache, answer, in, packet, daemonSide, replySide>>

(* check_pep_authz() up to AuthorizationHandler::run() and wrap().          *)
CheckAuthz ==
  /\ stage = "new"
  /\ ~IsMalformed(apache.unparsed_uri)
  /\ in' = Wrap(AuthzRequest(apache))
  /\ stage' = "asked"
  /\ UNCHANGED <<apache, answer, packet, daemonSide, replySide>>

Send ==
  /\ stage = "asked"
  /\ packet' = Packet(in)
  /\ stage' = "sent"
  /\ UNCHANGED <<apache, answer, in, daemonSide, replySide>>

-----------------------------------------------------------------------------
(* The daemon.                                                              *)

(* The parser refuses the packet.  The exception is the reply, and run() in *)
(* the web server catches it there.                                         *)
Refuse ==
  /\ stage = "sent" /\ ~Parses(packet)
  /\ stage' = "failed"
  /\ UNCHANGED <<apache, answer, in, packet, daemonSide, replySide>>

Parse ==
  /\ stage = "sent" /\ Parses(packet)
  /\ received' = Deserialize(packet)
  /\ stage' = "receiving"
  /\ UNCHANGED <<apache, answer, in, packet, document, ret, replySide>>

(* getClientCertificates(): the strings up to the first member that is not  *)
(* one, but for those that cannot be loaded.  What was loaded, PEM or not,  *)
(* gives its own encoding from then on.                                     *)
LoadedCerts(t) ==
  LET texts == [i \in DOMAIN Member(t, <<"certificates">>).kids |->
                  Text(Member(t, <<"certificates">>).kids[i])]
      end == IF Null \in ToSet(texts) THEN SelectInSeq(texts, LAMBDA x : x = Null) ELSE Len(texts) + 1
      loaded == SelectSeq(SubSeq(texts, 1, end - 1), LAMBDA x : x \in DOMAIN Encoding)
  IN [i \in DOMAIN loaded |-> Encoding[loaded[i]]]

(* The getters of RemotedRequest.                                           *)
RemotedRequest(t) ==
  LET Get(name) == Text(Member(t, <<name>>))
      GetInt(name) == Number(Member(t, <<name>>))
  IN [scheme |-> Get("scheme"), hostname |-> Get("hostname"), port |-> GetInt("port"),
      contentType |-> OrEmpty(Get("content_type")), contentLength |-> GetInt("content_length"),
      body |-> Get("body"), remoteUser |-> OrEmpty(Get("remote_user")),
      remoteAddr |-> OrEmpty(Get("client_addr")), method |-> Get("method"),
      uri |-> Get("uri"), url |-> Get("url"), query |-> Get("query"),
      header |-> OrEmpty(Text(Member(t, <<"headers", "any">>))),
      certs |-> LoadedCerts(t)]

(* Mutant: the resource is named by its path alone.                         *)
AuthzDocumentByUri(t) ==
  LET r == RemotedRequest(t)
      subject == AddAttributeValue(AddAttribute(NoAttributes, "subject", "subject-id", TRUE),
                                   "subject", "subject-id", r.remoteUser, "string")
      resource == AddAttributeValue(AddAttribute(subject, "resource", "resource-id", TRUE),
                                    "resource", "resource-id", r.uri, "anyURI")
  IN GetDocument(AddAttributeValue(AddAttribute(resource, "action", "http-method", TRUE),
                                   "action", "http-method", r.method, "string"))

(* The document that processAuthzRequest() builds.                          *)
AuthzDocument(t) ==
  LET r == RemotedRequest(t)
      Ask(b, category, id, include, value, type) ==
        AddAttributeValue(AddAttribute(b, category, id, include), category, id, value, type)
      subject == Ask(NoAttributes, "subject", "subject-id", TRUE, r.remoteUser, "string")
      cert == IF r.certs = <<>> THEN subject
              ELSE Ask(subject, "subject", "client-certificate", FALSE, r.certs[1], "base64Binary")
      resource == Ask(cert, "resource", "resource-id", TRUE, r.url, "anyURI")
  IN GetDocument(Ask(resource, "action", "http-method", TRUE, r.method, "string"))

(* receive() up to the call of the PDP.                                     *)
Receive ==
  /\ stage = "receiving"
  /\ Text(Member(received, <<"application_id">>)) = <<"default">>
  /\ document' = AuthzDocument(received)
  /\ ret' = Leaf(Null)
  /\ stage' = "replying"
  /\ UNCHANGED <<apache, answer, in, packet, received, replySide>>

(* setResponseHeader() of RemotedResponse.                                  *)
SetResponseHeader(t, name, value) ==
  LET base == IF t.type = "struct" THEN t ELSE Structure(t)
      headerList == Member(base, <<"headers">>)
      old == IF headerList = NoNode THEN List(NoNode) ELSE headerList
  IN With(base, "headers", Add(old, String(Leaf(name), value)))

(* processAuthzResponse() and setContentType(), and the reply.              *)
Reply ==
  /\ stage = "replying"
  /\ LET all == answer \o <<<<"Content-Type", <<"text/xml">>>>>>
     IN ret' = FoldLeft(LAMBDA t, h : SetResponseHeader(t, h[1], h[2]), ret, all)
  /\ packet' = Packet(ret')
  /\ stage' = "replied"
  /\ UNCHANGED <<apache, answer, in, received, document, replySide>>

-----------------------------------------------------------------------------
(* The web server again.                                                    *)

Return ==
  /\ stage = "replied" /\ Parses(packet)
  /\ out' = Deserialize(packet)
  /\ stage' = "unwrapping"
  /\ UNCHANGED <<apache, answer, in, packet, daemonSide, at, headers>>

(* send() cannot parse the reply.                                           *)
ReturnFails ==
  /\ stage = "replied" /\ ~Parses(packet)
  /\ stage' = "failed"
  /\ UNCHANGED <<apache, answer, in, packet, daemonSide, replySide>>

List_(t) == Member(t, <<"headers">>).kids
Next_ == IF at \in DOMAIN List_(out) THEN List_(out)[at] ELSE NoNode

IsHeader(n) == n.type \in {"string", "unsafe"}
HasControl(text) == \E i \in DOMAIN text : text[i] \in Control

(* Mutant: the value a header has already stays.                            *)
UnwrapFirst ==
  /\ stage = "unwrapping" /\ IsHeader(Next_) /\ ~HasControl(Text(Next_))
  /\ headers' = headers @@ (Next_.name :> Text(Next_))
  /\ at' = at + 1
  /\ UNCHANGED <<stage, apache, answer, in, packet, daemonSide, out>>

(* unwrap() copies a header; Content-Type ends in the same map.             *)
Unwrap ==
  /\ stage = "unwrapping" /\ IsHeader(Next_) /\ ~HasControl(Text(Next_))
  /\ headers' = (Next_.name :> Text(Next_)) @@ headers
  /\ at' = at + 1
  /\ UNCHANGED <<stage, apache, answer, in, packet, daemonSide, out>>

(* HTTPResponse::setResponseHeader() throws at a control character, and     *)
(* run() catches: the check goes on with the headers there are.             *)
UnwrapThrows ==
  /\ stage = "unwrapping" /\ IsHeader(Next_) /\ HasControl(Text(Next_))
  /\ stage' = "done"
  /\ UNCHANGED <<apache, answer, in, packet, daemonSide, replySide>>

(* The loop ends at what is not a string.  There is no "redirect" and no    *)
(* "response" member.                                                       *)
Unwrapped ==
  /\ stage = "unwrapping" /\ ~IsHeader(Next_)
  /\ Member(out, <<"redirect">>) = NoNode /\ Member(out, <<"response">>) = NoNode
  /\ stage' = "done"
  /\ UNCHANGED <<apache, answer, in, packet, daemonSide, replySide>>

Next ==
  BadUri \/ CheckAuthz \/ Send \/ Refuse \/ Parse \/ Receive \/ Reply \/ Return
  \/ ReturnFails \/ Unwrap \/ UnwrapThrows \/ Unwrapped

Spec == Init /\ [][Next]_vars

-----------------------------------------------------------------------------
(* Properties.                                                              *)

(* What the daemon's handler can ask of its request (RemotedHandler.cpp:77- *)
(* 200) is answered as the web server's request answers it, whatever the    *)
(* texts are and however they crossed the socket; a query without           *)
(* characters arrives as none, and certificates that cannot be loaded are   *)
(* left out, the others decoded.                                            *)
RequestArrives ==
  received # NoNode =>
    LET sent == PEPRequest(AuthzRequest(apache))
        got == RemotedRequest(received)
    IN /\ [got EXCEPT !.certs = <<>>] = [sent EXCEPT !.certs = <<>>, !.query = Kept(OrEmpty(@))]
       /\ got.certs = LET good == SelectSeq(sent.certs, LAMBDA c : c \in DOMAIN Encoding)
                      IN  [i \in DOMAIN good |-> Encoding[good[i]]]

(* The PDP is asked about the user, the URL and the method of the web       *)
(* server's request and nothing else, once each, with the encoding of the   *)
(* certificate if it can be read (AuthorizationHandler.cpp:184-221): the    *)
(* URL is the one of the server's name, its port where that is not the      *)
(* scheme's, the path without its escapes, and the query as it came.        *)
AskedAbout ==
  document # Null =>
    LET About(category, attributes) == [category |-> category, attributes |-> attributes]
        Is(id, include, value, type) ==
          [id |-> id, include |-> include, values |-> <<[value |-> value, type |-> type]>>]
        port == IF IsDefaultPort(apache.scheme, apache.port) THEN <<>> ELSE <<":", ToString(apache.port)>>
        uri == apache.unparsed_uri
        path == [i \in DOMAIN uri |->
                   IF uri[i] \in DOMAIN Escaped /\ \A j \in 1..i : uri[j] # "?" THEN Escaped[uri[i]] ELSE uri[i]]
        url == apache.scheme \o <<"://">> \o apache.hostname \o port \o path
    IN document =
         {About("subject",
                {Is("subject-id", TRUE, OrEmpty(apache.user), "string")}
                \cup {Is("client-certificate", FALSE, Encoding[c], "base64Binary") :
                        c \in {apache.cert} \cap DOMAIN Encoding}),
          About("resource", {Is("resource-id", TRUE, Transcoded(url), "anyURI")}),
          About("action", {Is("http-method", TRUE, apache.method, "string")})}

(* A check fails on its way only for a user, a query, a method, a           *)
(* certificate or a header of the answer that is not UTF-8; a host and a    *)
(* URL that are not are carried all the same (RemotedHandler.cpp:281-290).  *)
OnlyUnreadableFails ==
  LET request == \A f \in {"user", "args", "method", "cert", "scheme"} : Readable(apache[f])
      reply == \A i \in DOMAIN answer : Readable(answer[i][2])
  IN /\ stage = "failed" => IF document = Null THEN ~request ELSE ~reply
     /\ stage \in {"unwrapping", "done"} => request /\ reply

(* The web server reads of each header the last value that the PDP's answer *)
(* gave it, up to the first header without contents, at which unwrap()      *)
(* (RemotedHandler.cpp:339) ends, or with a control character, at which the *)
(* library throws (PEPRequestImpl.cpp:174): never one behind it.            *)
ReplyArrives ==
  stage = "done" =>
    LET all == answer \o <<<<"Content-Type", <<"text/xml">>>>>>
        ending == {i \in DOMAIN all : all[i][2] = <<>> \/ ToSet(all[i][2]) \cap Control # {}}
        read == {i \in DOMAIN all : \A j \in ending : i < j}
    IN /\ DOMAIN headers = {all[i][1] : i \in read}
       /\ \A i \in read :
            (\A j \in read : j > i => all[j][1] # all[i][1]) => headers[all[i][1]] = all[i][2]
=============================================================================
