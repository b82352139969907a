------------------------- MODULE AuthorizationProofs -------------------------
(***************************************************************************)
(* Proofs about Authorization for any requests, texts and Results of any    *)
(* length: access, user and location are traced from what check_pep_authz   *)
(* returns back over t_authz_response, the headers of the request and those *)
(* of the reply to the PDP's Result.                                        *)
(***************************************************************************)
EXTENDS Authorization, SequenceTheorems, TLAPS

(* The Result says what a header of this name and contents makes of it.     *)
Backed(r, name, value) ==
  /\ name = "decision" /\ value = "PERMIT" =>
       \E i \in Tagged(r, "Decision") : result[r][i].text = "Permit"
  /\ name = "status" => Tagged(r, "Status") # {}
  /\ name \in {"remoteUser", "redirect"} =>
       \E i \in Tagged(r, "Obligation") :
         result[r][i].id = name /\ result[r][i].text = value

(* The headers of the reply, and those of the request.                      *)
ReplyBacked(r) == \A i \in DOMAIN out[r] : Backed(r, out[r][i].name, out[r][i].value)

HeadersBacked(r) ==
  \A n \in HeaderNames : headers[r][n] # Empty => Backed(r, n, headers[r][n])

(* Headers come with a reply alone.                                         *)
HeadersReturned(r) ==
  /\ pc[r] = "unwrapping" => call[r] = "returned"
  /\ call[r] # "returned" => \A n \in HeaderNames : headers[r][n] = Empty

(* t_authz_response says what the headers say.                              *)
AuthzFromHeaders(r) ==
  pc[r] \in {"enforcing", "done"} =>
    /\ authz[r].decision = "PERMIT" =>
         headers[r]["decision"] = "PERMIT" /\ headers[r]["status"] # Empty
    /\ authz[r].remoteUser = headers[r]["remoteUser"]
    /\ authz[r].redirect = headers[r]["redirect"]

(* The web server is told what t_authz_response says.                       *)
AnswerFromAuthz(r) ==
  /\ pc[r] # "done" => user[r] = Empty /\ answer[r] # "302"
  /\ pc[r] = "done" =>
       /\ user[r] = authz[r].remoteUser
       /\ answer[r] \in {"OK", "302", "401"}
       /\ answer[r] = "302" <=> authz[r].redirect # Empty
       /\ answer[r] = "OK" => authz[r].decision = "PERMIT"

RequestInv(r) ==
  /\ ReplyBacked(r) /\ HeadersBacked(r) /\ HeadersReturned(r)
  /\ AuthzFromHeaders(r) /\ AnswerFromAuthz(r)

IInv == TypeOK /\ \A r \in Requests : RequestInv(r)

-----------------------------------------------------------------------------
(* Without a header, a user or an answer there is nothing to justify.       *)
LEMMA InitIInv == Init => IInv
<1> SUFFICES ASSUME Init PROVE IInv
  OBVIOUS
<1>1. TypeOK
  <2>1. Empty \in Values /\ \A S : <<>> \in Seq(S)
    BY EmptySeq DEF Values
  <2>2. NoAuthz \in [decision : {"none", "PERMIT", "DENY"}, status : {"none", "OK", "ERROR"},
                    remoteUser : Values, redirect : Values]
    BY <2>1 DEF NoAuthz
  <2> QED BY <2>1, <2>2 DEF Init, TypeOK
<1>2. ASSUME NEW r \in Requests PROVE RequestInv(r)
  BY DEF Init, RequestInv, ReplyBacked, HeadersBacked, HeadersReturned, AuthzFromHeaders,
         AnswerFromAuthz
<1> QED BY <1>1, <1>2 DEF IInv

(* Requests share nothing: what a request is and has decides its RequestInv. *)
LEMMA OthersKeep ==
  ASSUME NEW q \in Requests, RequestInv(q),
         pc'[q] = pc[q], call'[q] = call[q], result'[q] = result[q], out'[q] = out[q],
         headers'[q] = headers[q], authz'[q] = authz[q], user'[q] = user[q],
         answer'[q] = answer[q]
  PROVE  RequestInv(q)'
<1>1. \A n, v : Backed(q, n, v)' <=> Backed(q, n, v)
  BY DEF Backed, Tagged
<1> QED
  BY <1>1 DEF RequestInv, ReplyBacked, HeadersBacked, HeadersReturned, AuthzFromHeaders,
              AnswerFromAuthz

(* A step of one request r keeps the invariant if it keeps that of r.       *)
LEMMA OneRequest ==
  ASSUME IInv, NEW r \in Requests, TypeOK', RequestInv(r)',
         \A q \in Requests \ {r} :
           /\ pc'[q] = pc[q] /\ call'[q] = call[q] /\ result'[q] = result[q]
           /\ out'[q] = out[q] /\ headers'[q] = headers[q] /\ authz'[q] = authz[q]
           /\ user'[q] = user[q] /\ answer'[q] = answer[q]
  PROVE  IInv'
  BY OthersKeep DEF IInv

(* What the Result said it still says when more of it has been read.        *)
LEMMA BackedStays ==
  ASSUME TypeOK, NEW r \in Requests, NEW c \in ResultChildren,
         result' = [result EXCEPT ![r] = Append(@, c)],
         NEW n, NEW v, Backed(r, n, v)
  PROVE  Backed(r, n, v)'
<1>1. result[r] \in Seq(ResultChildren) /\ result'[r] = Append(result[r], c)
  BY DEF TypeOK
<1>2. DOMAIN result[r] = 1..Len(result[r]) /\ Len(result[r]) \in Nat
  BY <1>1, LenProperties
<1>3. DOMAIN result'[r] = 1..(Len(result[r]) + 1)
  BY <1>1, AppendProperties, LenProperties
<1>4. \A i \in DOMAIN result[r] : i \in DOMAIN result'[r] /\ result'[r][i] = result[r][i]
  BY <1>1, <1>2, <1>3, AppendProperties
<1>5. \A tag : Tagged(r, tag) \subseteq Tagged(r, tag)'
  BY <1>4 DEF Tagged
<1> QED BY <1>4, <1>5 DEF Backed, Tagged

(* And it says what the child just read says.                               *)
LEMMA LastRead ==
  ASSUME TypeOK, NEW r \in Requests, NEW c \in ResultChildren,
         result' = [result EXCEPT ![r] = Append(@, c)]
  PROVE  \E i \in Tagged(r, c.tag)' : result'[r][i] = c
<1>1. result[r] \in Seq(ResultChildren) /\ result'[r] = Append(result[r], c)
  BY DEF TypeOK
<1>2. /\ Len(result[r]) + 1 \in DOMAIN result'[r]
      /\ result'[r][Len(result[r]) + 1] = c
  BY <1>1, AppendProperties, LenProperties
<1> QED BY <1>2 DEF Tagged

(* A header that the Result backs joins the reply.                          *)
LEMMA SetHeaderBacked ==
  ASSUME TypeOK, NEW r \in Requests, ReplyBacked(r),
         NEW n \in HeaderNames, NEW v \in Values, SetHeader(r, n, v),
         \A m, w : Backed(r, m, w) => Backed(r, m, w)',
         Backed(r, n, v)'
  PROVE  /\ out' \in [Requests -> Seq([name : HeaderNames, value : Values])]
         /\ ReplyBacked(r)'
         /\ \A q \in Requests \ {r} : out'[q] = out[q]
<1> DEFINE h == [name |-> n, value |-> v]
<1>1. /\ out[r] \in Seq([name : HeaderNames, value : Values])
      /\ h \in [name : HeaderNames, value : Values]
      /\ out'[r] = Append(out[r], h)
      /\ \A q \in Requests \ {r} : out'[q] = out[q]
  BY DEF TypeOK, SetHeader
<1>2. out'[r] \in Seq([name : HeaderNames, value : Values])
  BY <1>1, AppendProperties
<1>3. out' \in [Requests -> Seq([name : HeaderNames, value : Values])]
  BY <1>1, <1>2 DEF TypeOK, SetHeader
<1>4. ASSUME NEW i \in DOMAIN out'[r]
      PROVE  (i \in DOMAIN out[r] /\ out'[r][i] = out[r][i]) \/ out'[r][i] = h
  BY <1>1, <1>4, AppendProperties, LenProperties
<1>5. ReplyBacked(r)'
  BY <1>4 DEF ReplyBacked
<1> QED BY <1>1, <1>3, <1>5

-----------------------------------------------------------------------------
(* A step of the web server or of the call, which reads and sets no header  *)
(* of the reply.                                                            *)
LEMMA WebIInv ==
  ASSUME IInv, NEW r \in Requests, WebServer(r) \/ Failed(r)
  PROVE  IInv'
<1> USE DEF web, daemon, Goto
<1>1. TypeOK /\ RequestInv(r)
  BY DEF IInv
<1>2. UNCHANGED <<result, out>> => \A n, v : Backed(r, n, v)' <=> Backed(r, n, v)
  BY DEF Backed, Tagged
<1>3. CASE NotEnabled(r) \/ BadUri(r) \/ NoHandler(r)
  <2>1. TypeOK'
    <3>1. CASE NotEnabled(r)
      BY <1>1, <3>1 DEF NotEnabled, TypeOK
    <3>2. CASE BadUri(r)
      BY <1>1, <3>2 DEF BadUri, TypeOK
    <3>3. CASE NoHandler(r)
      BY <1>1, <3>3 DEF NoHandler, TypeOK
    <3> QED BY <1>3, <3>1, <3>2, <3>3
  <2>2. RequestInv(r)'
    BY <1>1, <1>2, <1>3 DEF NotEnabled, BadUri, NoHandler, TypeOK, RequestInv, ReplyBacked,
       HeadersBacked, HeadersReturned, AuthzFromHeaders, AnswerFromAuthz
  <2>3. \A q \in Requests \ {r} : pc'[q] = pc[q] /\ answer'[q] = answer[q]
    BY <1>1, <1>3 DEF NotEnabled, BadUri, NoHandler, TypeOK
  <2> QED
    BY <1>3, <2>1, <2>2, <2>3, OneRequest DEF NotEnabled, BadUri, NoHandler
<1>4. CASE Remote(r) \/ Returned(r) \/ Raised(r) \/ Failed(r)
  <2> USE DEF Remote, Returned, Raised, Failed, Call!Invoke, Call!Return, Call!Raise,
              Call!Fail, Call!Step, JobGoto
  <2>1. TypeOK'
    <3>1. CASE Remote(r)
      BY <1>1, <3>1 DEF TypeOK
    <3>2. CASE Returned(r)
      BY <1>1, <3>2 DEF TypeOK
    <3>3. CASE Raised(r)
      BY <1>1, <3>3 DEF TypeOK
    <3>4. CASE Failed(r)
      BY <1>1, <3>4 DEF TypeOK
    <3> QED BY <1>4, <3>1, <3>2, <3>3, <3>4
  <2>2. RequestInv(r)'
    BY <1>1, <1>2, <1>4 DEF TypeOK, RequestInv, ReplyBacked,
       HeadersBacked, HeadersReturned, AuthzFromHeaders, AnswerFromAuthz
  <2>3. \A q \in Requests \ {r} :
          /\ pc'[q] = pc[q] /\ call'[q] = call[q] /\ out'[q] = out[q] /\ result'[q] = result[q]
          /\ headers'[q] = headers[q] /\ authz'[q] = authz[q] /\ user'[q] = user[q]
          /\ answer'[q] = answer[q]
    BY <1>1, <1>4 DEF TypeOK
  <2> HIDE DEF Remote, Returned, Raised, Failed, Call!Invoke, Call!Return, Call!Raise,
               Call!Fail, Call!Step, JobGoto
  <2> QED BY <2>1, <2>2, <2>3, OneRequest
<1>5. CASE Unwrap(r)
  <2> DEFINE h == out[r][hdr[r]]
  <2>1. h \in [name : HeaderNames, value : Values]
    <3>1. out[r] \in Seq([name : HeaderNames, value : Values]) /\ hdr[r] \in DOMAIN out[r]
      BY <1>1, <1>5 DEF Unwrap, TypeOK
    <3> QED BY <3>1, ElementOfSeq, LenProperties
  <2>2. /\ headers'[r] = [headers[r] EXCEPT ![h.name] = h.value]
        /\ \A q \in Requests \ {r} : headers'[q] = headers[q]
    BY <1>1, <1>5 DEF Unwrap, TypeOK
  <2>3. headers' \in [Requests -> [HeaderNames -> Values]]
    BY <1>1, <1>5, <2>1 DEF Unwrap, TypeOK
  <2>4. TypeOK'
    <3>1. hdr' \in [Requests -> Nat]
      BY <1>1, <1>5 DEF Unwrap, TypeOK
    <3> QED BY <1>1, <1>5, <2>3, <3>1 DEF Unwrap, TypeOK
  <2>5. Backed(r, h.name, h.value)
    BY <1>1, <1>5 DEF Unwrap, RequestInv, ReplyBacked
  <2>6. HeadersBacked(r)'
    BY <1>1, <1>2, <1>5, <2>1, <2>2, <2>5
    DEF Unwrap, TypeOK, RequestInv, HeadersBacked
  <2>7. RequestInv(r)'
    BY <1>1, <1>2, <1>5, <2>6 DEF Unwrap, RequestInv, ReplyBacked,
       HeadersReturned, AuthzFromHeaders, AnswerFromAuthz
  <2> QED BY <1>5, <2>2, <2>4, <2>7, OneRequest DEF Unwrap
<1>6. CASE UnwrapEnds(r)
  <2>1. TypeOK'
    BY <1>1, <1>6 DEF UnwrapEnds, TypeOK
  <2>2. RequestInv(r)'
    BY <1>1, <1>2, <1>6 DEF UnwrapEnds, TypeOK, RequestInv, ReplyBacked,
       HeadersBacked, HeadersReturned, AuthzFromHeaders, AnswerFromAuthz
  <2> QED BY <1>6, <2>1, <2>2, OneRequest DEF UnwrapEnds, IInv, TypeOK
<1>7. CASE ProcessResponse(r)
  <2> DEFINE d == IF headers[r]["decision"] = "PERMIT" /\ headers[r]["status"] # Empty
                    THEN "PERMIT" ELSE "DENY"
  <2>1. authz' = [authz EXCEPT ![r] = Authz(headers[r], d)]
    BY <1>7 DEF ProcessResponse, CheckedAs
  <2>2. Authz(headers[r], d) \in [decision : {"none", "PERMIT", "DENY"},
          status : {"none", "OK", "ERROR"}, remoteUser : Values, redirect : Values]
    BY <1>1 DEF TypeOK, Authz, HeaderNames
  <2>3. TypeOK'
    <3>1. authz' \in [Requests -> [decision : {"none", "PERMIT", "DENY"},
            status : {"none", "OK", "ERROR"}, remoteUser : Values, redirect : Values]]
      BY <1>1, <2>1, <2>2 DEF TypeOK
    <3>2. pc' \in [Requests -> {"new", "off", "died", "calling", "unwrapping", "checking",
                               "enforcing", "done"}]
      BY <1>1, <1>7 DEF ProcessResponse, CheckedAs, TypeOK
    <3> QED BY <1>1, <1>7, <3>1, <3>2 DEF ProcessResponse, CheckedAs, TypeOK
  <2>4. AuthzFromHeaders(r)'
    BY <1>1, <1>7, <2>1 DEF ProcessResponse, CheckedAs, TypeOK, Authz, AuthzFromHeaders
  <2>5. RequestInv(r)'
    BY <1>1, <1>2, <1>7, <2>4 DEF ProcessResponse, CheckedAs, TypeOK, RequestInv,
       ReplyBacked, HeadersBacked, HeadersReturned, AnswerFromAuthz
  <2> QED
    BY <1>7, <2>3, <2>5, OneRequest DEF ProcessResponse, CheckedAs, IInv, TypeOK
<1>8. CASE Enforce(r)
  <2>1. /\ pc'[r] = "done" /\ pc[r] = "enforcing"
        /\ user'[r] = IF authz[r].remoteUser # Empty THEN authz[r].remoteUser ELSE user[r]
        /\ answer'[r] = IF authz[r].redirect # Empty THEN "302"
                        ELSE IF authz[r].decision = "PERMIT" THEN "OK" ELSE "401"
    BY <1>1, <1>8 DEF Enforce, TypeOK
  <2>2. authz[r].remoteUser \in Values /\ user[r] \in Values
    BY <1>1 DEF TypeOK
  <2>3. TypeOK'
    BY <1>1, <1>8, <2>2 DEF Enforce, TypeOK
  <2>4. AnswerFromAuthz(r)'
    BY <1>1, <1>8, <2>1 DEF Enforce, RequestInv, AnswerFromAuthz
  <2>5. RequestInv(r)'
    BY <1>1, <1>2, <1>8, <2>1, <2>4 DEF Enforce, TypeOK, RequestInv, ReplyBacked,
       HeadersBacked, HeadersReturned, AuthzFromHeaders
  <2> QED BY <1>8, <2>3, <2>5, OneRequest DEF Enforce, IInv, TypeOK
<1> QED
  BY <1>3, <1>4, <1>5, <1>6, <1>7, <1>8 DEF WebServer

(* A child is read, and the reply gets a header that the Result now backs,  *)
(* or none.                                                                 *)
LEMMA ReadKeeps ==
  ASSUME IInv, NEW r \in Requests, NEW c \in ResultChildren, ReadChild(r, c),
         jobPc' \in [Requests -> {"none", "asking", "reading", "threw", "crashed", "done"}],
         \/ UNCHANGED out
         \/ \E n \in HeaderNames, v \in Values : SetHeader(r, n, v) /\ Backed(r, n, v)'
  PROVE  IInv'
<1>1. TypeOK /\ RequestInv(r)
  BY DEF IInv
<1>2. /\ result' = [result EXCEPT ![r] = Append(@, c)]
      /\ UNCHANGED <<pc, hdr, headers, authz, user, answer, call>>
  BY DEF ReadChild, web
<1>3. \A n, v : Backed(r, n, v) => Backed(r, n, v)'
  BY <1>1, <1>2, BackedStays
<1>4. result' \in [Requests -> Seq(ResultChildren)]
  <2>1. Append(result[r], c) \in Seq(ResultChildren)
    BY <1>1, AppendProperties DEF TypeOK
  <2> QED BY <1>1, <1>2, <2>1 DEF TypeOK
<1>5. /\ out' \in [Requests -> Seq([name : HeaderNames, value : Values])]
      /\ ReplyBacked(r)'
      /\ \A q \in Requests \ {r} : out'[q] = out[q]
  <2>1. CASE UNCHANGED out
    BY <1>1, <1>3, <2>1 DEF RequestInv, ReplyBacked, TypeOK
  <2>2. CASE \E n \in HeaderNames, v \in Values : SetHeader(r, n, v) /\ Backed(r, n, v)'
    BY <1>1, <1>3, <2>2, SetHeaderBacked DEF RequestInv
  <2> QED BY <2>1, <2>2
<1>6. TypeOK'
  BY <1>1, <1>2, <1>4, <1>5 DEF TypeOK
<1>7. RequestInv(r)'
  BY <1>1, <1>2, <1>3, <1>5
  DEF RequestInv, HeadersBacked, HeadersReturned, AuthzFromHeaders, AnswerFromAuthz
<1> QED BY <1>1, <1>2, <1>5, <1>6, <1>7, OneRequest DEF TypeOK

(* Nothing is read, and the reply gets its content type, or nothing.        *)
LEMMA ContentTypeKeeps ==
  ASSUME IInv, NEW r \in Requests, UNCHANGED <<web, result>>,
         UNCHANGED call \/ Call!Handle(r),
         jobPc' \in [Requests -> {"none", "asking", "reading", "threw", "crashed", "done"}],
         UNCHANGED out \/ SetHeader(r, "contentType", "text/xml")
  PROVE  IInv'
<1>1. TypeOK /\ RequestInv(r)
  BY DEF IInv
<1>2. \A n, v : Backed(r, n, v)' <=> Backed(r, n, v)
  BY DEF Backed, Tagged
<1>3. /\ out' \in [Requests -> Seq([name : HeaderNames, value : Values])]
      /\ ReplyBacked(r)'
      /\ \A q \in Requests \ {r} : out'[q] = out[q]
  <2>1. CASE UNCHANGED out
    BY <1>1, <1>2, <2>1 DEF RequestInv, ReplyBacked, TypeOK
  <2>2. CASE SetHeader(r, "contentType", "text/xml")
    <3>1. "contentType" \in HeaderNames /\ "text/xml" \in Values
      BY DEF HeaderNames, Values
    <3>2. Backed(r, "contentType", "text/xml")'
      BY DEF Backed
    <3> QED BY <1>1, <1>2, <2>2, <3>1, <3>2, SetHeaderBacked DEF RequestInv
  <2> QED BY <2>1, <2>2
<1>4. /\ call' \in [Requests -> {"idle", "called", "handled", "returned", "raised", "failed"}]
      /\ \A q \in Requests \ {r} : call'[q] = call[q]
      /\ call'[r] = "returned" <=> call[r] = "returned"
  BY <1>1 DEF TypeOK, Call!Handle, Call!Step
<1>5. TypeOK'
  BY <1>1, <1>3, <1>4 DEF TypeOK, web
<1>6. RequestInv(r)'
  BY <1>1, <1>2, <1>3, <1>4
  DEF web, RequestInv, HeadersBacked, HeadersReturned, AuthzFromHeaders, AnswerFromAuthz
<1> QED BY <1>3, <1>4, <1>5, <1>6, OneRequest DEF web

(* A step of the AuthorizationHandler in the daemon.                        *)
LEMMA DaemonIInv ==
  ASSUME IInv, NEW r \in Requests, Handler(r)
  PROVE  IInv'
<1>1. TypeOK
  BY DEF IInv
<1>2. \A state \in {"asking", "reading", "threw", "crashed", "done"} :
        JobGoto(r, state) =>
          jobPc' \in [Requests -> {"none", "asking", "reading", "threw", "crashed", "done"}]
  BY <1>1 DEF TypeOK, JobGoto
<1>3. UNCHANGED jobPc =>
        jobPc' \in [Requests -> {"none", "asking", "reading", "threw", "crashed", "done"}]
  BY <1>1 DEF TypeOK
<1>4. CASE Receive(r) \/ ReceiveThrows(r)
  BY <1>2, <1>4, ContentTypeKeeps DEF Receive, ReceiveThrows
<1>5. CASE PDPAnswers(r) \/ NoBodyCrash(r)
  BY <1>2, <1>5, ContentTypeKeeps DEF PDPAnswers, NoBodyCrash
<1>6. CASE PDPFails(r) \/ Finish(r)
  BY <1>2, <1>6, ContentTypeKeeps DEF PDPFails, Finish
<1>7. CASE ReadDecision(r)
  <2>1. PICK c \in Decisions :
          /\ ReadChild(r, c)
          /\ SetHeader(r, "decision", IF c.text = "Permit" THEN "PERMIT" ELSE "DENY")
          /\ UNCHANGED jobPc
    BY <1>7 DEF ReadDecision
  <2> DEFINE v == IF c.text = "Permit" THEN "PERMIT" ELSE "DENY"
  <2>2. /\ c \in ResultChildren /\ c.tag = "Decision"
        /\ v \in Values /\ "decision" \in HeaderNames
    BY DEF ResultChildren, Decisions, Values, HeaderNames
  <2>3. \E i \in Tagged(r, "Decision")' : result'[r][i] = c
    <3>1. result' = [result EXCEPT ![r] = Append(@, c)]
      BY <2>1 DEF ReadChild
    <3> QED BY <1>1, <2>2, <3>1, LastRead
  <2>4. v = "PERMIT" => c.text = "Permit"
    OBVIOUS
  <2>5. Backed(r, "decision", v)'
    BY <2>3, <2>4 DEF Backed
  <2> QED BY <1>3, <2>1, <2>2, <2>5, ReadKeeps
<1>8. CASE ReadStatus(r)
  <2>1. PICK c \in Statuses :
          /\ ReadChild(r, c)
          /\ IF c.text = "noCode"
               THEN JobGoto(r, "crashed") /\ UNCHANGED out
               ELSE /\ SetHeader(r, "status", IF c.text = "ok" THEN "OK" ELSE "ERROR")
                    /\ UNCHANGED jobPc
    BY <1>8 DEF ReadStatus
  <2> DEFINE v == IF c.text = "ok" THEN "OK" ELSE "ERROR"
  <2>2. /\ c \in ResultChildren /\ c.tag = "Status"
        /\ v \in Values /\ "status" \in HeaderNames
    BY DEF ResultChildren, Statuses, Values, HeaderNames
  <2>3. \E i \in Tagged(r, "Status")' : result'[r][i] = c
    <3>1. result' = [result EXCEPT ![r] = Append(@, c)]
      BY <2>1 DEF ReadChild
    <3> QED BY <1>1, <2>2, <3>1, LastRead
  <2>4. Backed(r, "status", v)'
    BY <2>3 DEF Backed
  <2>5. \/ UNCHANGED out
        \/ SetHeader(r, "status", v) /\ Backed(r, "status", v)'
    BY <2>1, <2>4
  <2>6. jobPc' \in [Requests -> {"none", "asking", "reading", "threw", "crashed", "done"}]
    BY <1>2, <1>3, <2>1
  <2> QED BY <2>1, <2>2, <2>5, <2>6, ReadKeeps
<1>9. CASE ReadObligation(r)
  <2>1. PICK c \in Obligations :
          /\ ReadChild(r, c)
          /\ IF c.id # "unknown" /\ c.text # Absent
               THEN SetHeader(r, c.id, c.text)
               ELSE UNCHANGED out
          /\ UNCHANGED jobPc
    BY <1>9 DEF ReadObligation
  <2>2. c \in ResultChildren /\ c.tag = "Obligation"
    BY DEF ResultChildren, Obligations
  <2>3. CASE c.id # "unknown" /\ c.text # Absent
    <3>1. c.id \in {"remoteUser", "redirect"} /\ c.text \in Texts \cup {Empty}
      BY <2>3 DEF Obligations
    <3>2. c.id \in HeaderNames /\ c.text \in Values
      BY <3>1 DEF HeaderNames, Values
    <3>3. \E i \in Tagged(r, "Obligation")' : result'[r][i] = c
      <4>1. result' = [result EXCEPT ![r] = Append(@, c)]
        BY <2>1 DEF ReadChild
      <4> QED BY <1>1, <2>2, <4>1, LastRead
    <3>4. Backed(r, c.id, c.text)'
      BY <3>1, <3>3 DEF Backed
    <3> QED BY <1>3, <2>1, <2>2, <2>3, <3>2, <3>4, ReadKeeps
  <2>4. CASE ~(c.id # "unknown" /\ c.text # Absent)
    BY <1>3, <2>1, <2>2, <2>4, ReadKeeps
  <2> QED BY <2>3, <2>4
<1> QED
  BY <1>4, <1>5, <1>6, <1>7, <1>8, <1>9 DEF Handler

(* The invariant is inductive.                                              *)
LEMMA NextIInv == IInv /\ [Next]_vars => IInv'
<1>1. ASSUME IInv, Next PROVE IInv'
  BY <1>1, WebIInv, DaemonIInv DEF Next
<1>2. ASSUME IInv, UNCHANGED vars PROVE IInv'
  <2>1. TypeOK'
    BY <1>2 DEF IInv, TypeOK, vars, web, daemon
  <2>2. ASSUME NEW r \in Requests PROVE RequestInv(r)'
    BY <1>2, OthersKeep DEF IInv, vars, web, daemon
  <2> QED BY <2>1, <2>2 DEF IInv
<1> QED BY <1>1, <1>2

-----------------------------------------------------------------------------
(* Every request's headers are backed by its Result, and what the web       *)
(* server is told follows from them, in every behaviour.                    *)
THEOREM Inductive == Spec => []IInv
  BY InitIInv, NextIInv, PTL DEF Spec

(* The state of a check has its type, whatever the PDP answers.             *)
THEOREM TypeCorrect == Spec => []TypeOK
  BY Inductive, PTL DEF IInv

(* Access to a protected directory is granted only if the PDP's Result has  *)
(* a Decision that is Permit, and a Status.                                 *)
THEOREM PermitSafe == Spec => []PermitOnlyIfPermitted
<1>1. ASSUME IInv PROVE PermitOnlyIfPermitted
  <2> SUFFICES ASSUME NEW r \in Requests, pc[r] = "done", answer[r] = "OK"
               PROVE  Permitted(r)
    BY DEF PermitOnlyIfPermitted
  <2>1. RequestInv(r)
    BY <1>1 DEF IInv
  <2>2. headers[r]["decision"] = "PERMIT" /\ headers[r]["status"] # Empty
    BY <2>1 DEF RequestInv, AnswerFromAuthz, AuthzFromHeaders
  <2>3. /\ Backed(r, "decision", headers[r]["decision"])
        /\ Backed(r, "status", headers[r]["status"])
    BY <2>1, <2>2 DEF RequestInv, HeadersBacked, HeaderNames, Empty
  <2> QED BY <2>2, <2>3 DEF Backed, Permitted
<1> QED BY <1>1, Inductive, PTL

(* A request whose call ended without a reply is refused and keeps its user. *)
THEOREM ClosedSafe == Spec => []FailClosed
<1>1. ASSUME IInv PROVE FailClosed
  <2> SUFFICES ASSUME NEW r \in Requests, pc[r] = "done", call[r] # "returned"
               PROVE  answer[r] = "401" /\ user[r] = Empty
    BY DEF FailClosed
  <2>1. RequestInv(r)
    BY <1>1 DEF IInv
  <2>2. \A n \in HeaderNames : headers[r][n] = Empty
    BY <2>1 DEF RequestInv, HeadersReturned
  <2>3. /\ authz[r].decision # "PERMIT"
        /\ authz[r].remoteUser = Empty /\ authz[r].redirect = Empty
    BY <2>1, <2>2 DEF RequestInv, AuthzFromHeaders, HeaderNames
  <2> QED BY <2>1, <2>3 DEF RequestInv, AnswerFromAuthz
<1> QED BY <1>1, Inductive, PTL

(* The user and the location are those an obligation of the Result names.   *)
THEOREM ObligationsSafe == Spec => []ObligationsFromPDP
<1>1. ASSUME IInv PROVE ObligationsFromPDP
  <2> SUFFICES ASSUME NEW r \in Requests
               PROVE  /\ user[r] # Empty => Backed(r, "remoteUser", user[r])
                      /\ answer[r] = "302" => Backed(r, "redirect", authz[r].redirect)
    BY DEF ObligationsFromPDP, Backed
  <2>1. RequestInv(r)
    BY <1>1 DEF IInv
  <2>2. ASSUME user[r] # Empty PROVE Backed(r, "remoteUser", user[r])
    <3>1. user[r] = headers[r]["remoteUser"]
      BY <2>1, <2>2 DEF RequestInv, AnswerFromAuthz, AuthzFromHeaders
    <3> QED BY <2>1, <2>2, <3>1 DEF RequestInv, HeadersBacked, HeaderNames
  <2>3. ASSUME answer[r] = "302" PROVE Backed(r, "redirect", authz[r].redirect)
    <3>1. pc[r] = "done"
      BY <2>1, <2>3 DEF RequestInv, AnswerFromAuthz
    <3> QED BY <2>1, <2>3, <3>1 DEF RequestInv, AnswerFromAuthz, AuthzFromHeaders, HeadersBacked,
         HeaderNames
  <2> QED BY <2>2, <2>3
<1> QED BY <1>1, Inductive, PTL
=============================================================================
