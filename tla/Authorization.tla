--------------------------- MODULE Authorization ---------------------------
(***************************************************************************)
(* One authorization check of a web request from mod_pep to the PDP and    *)
(* back.  check_pep_authz and libpep-lite run in the web server; the       *)
(* AuthorizationHandler of pepd asks the PDP and turns the Result into a   *)
(* list of response headers; the list travels back as a DDF and is copied  *)
(* into the request, where processResponse and check_pep_authz read it.    *)
(* The remoted call in between is the call of AtMostOnceCall, which        *)
(* RemoteCall is shown to implement: it can fail at any point.             *)
(*                                                                         *)
(* A Result is read child by child, and what has been read is the Result   *)
(* as far as this module knows it; the obligations in an <Obligations>     *)
(* element are children themselves.                                        *)
(***************************************************************************)
EXTENDS Naturals, Sequences

CONSTANTS
  Requests,    (* web requests                                             *)
  Texts,       (* contents of obligations: user names and locations        *)
  Refused,     (* those that HTTPResponse::setResponseHeader throws at     *)
  MaxChildren  (* bound: children of a Result                              *)

Empty == ""     (* no header of that name, or one without contents         *)
Absent == "absent"  (* an obligation without an AttributeAssignment        *)

HeaderNames == {"decision", "status", "remoteUser", "redirect", "contentType"}

(* The text of the Decision: all but Permit is one to the code. *)
Decisions == [tag : {"Decision"}, text : {"Permit", "other"}]
(* The text of the Status, if it has a StatusCode. *)
Statuses == [tag : {"Status"}, text : {"ok", "other", "noCode"}]
(* The text of the AttributeAssignment of an obligation, if it has one; that *)
(* of an obligation which the code does not know makes no difference.      *)
Obligations ==
  [tag : {"Obligation"}, id : {"remoteUser", "redirect"}, text : Texts \cup {Empty, Absent}]
  \cup [tag : {"Obligation"}, id : {"unknown"}, text : {Absent}]
ResultChildren == Decisions \cup Statuses \cup Obligations

ASSUME AuthorizationAssumption ==
  /\ Refused \subseteq Texts
  /\ Texts \subseteq STRING
  /\ MaxChildren \in Nat
  /\ Empty \notin Texts /\ Absent \notin Texts

VARIABLES
  pc,       (* where each request is in the web server                     *)
  call,     (* the remoted call of each request                            *)
  jobPc,    (* where AuthorizationHandler::receive is                      *)
  result,   (* the children of the PDP's Result that have been read        *)
  out,      (* the headers in the reply                                    *)
  hdr,      (* the header in the reply to be unwrapped next                *)
  headers,  (* m_ResponseHeaderMap of the request                          *)
  authz,    (* t_authz_response                                            *)
  user,     (* r->user, as far as mod_pep changes it                       *)
  answer    (* what check_pep_authz returns to the web server              *)

web == <<pc, hdr, headers, authz, user, answer>>
daemon == <<jobPc, result, out>>
vars == <<web, call, daemon>>

Call == INSTANCE AtMostOnceCall WITH Calls <- Requests, state <- call

Values == Texts \cup {Empty, "PERMIT", "DENY", "OK", "ERROR", "text/xml"}
NoAuthz == [decision |-> "none", status |-> "none", remoteUser |-> Empty, redirect |-> Empty]

TypeOK ==
  /\ pc \in [Requests -> {"new", "off", "died", "calling", "unwrapping", "checking",
                       "enforcing", "done"}]
  /\ call \in [Requests -> {"idle", "called", "handled", "returned", "raised", "failed"}]
  /\ jobPc \in [Requests -> {"none", "asking", "reading", "threw", "crashed", "done"}]
  /\ result \in [Requests -> Seq(ResultChildren)]
  /\ out \in [Requests -> Seq([name : HeaderNames, value : Values])]
  /\ hdr \in [Requests -> Nat]
  /\ headers \in [Requests -> [HeaderNames -> Values]]
  /\ authz \in [Requests -> [decision : {"none", "PERMIT", "DENY"},
                             status : {"none", "OK", "ERROR"},
                             remoteUser : Values, redirect : Values]]
  /\ user \in [Requests -> Values]
  /\ answer \in [Requests -> {"none", "OK", "302", "401"}]

Init ==
  /\ pc = [r \in Requests |-> "new"]
  /\ call = [r \in Requests |-> "idle"]
  /\ jobPc = [r \in Requests |-> "none"]
  /\ result = [r \in Requests |-> <<>>]
  /\ out = [r \in Requests |-> <<>>]
  /\ hdr = [r \in Requests |-> 1]
  /\ headers = [r \in Requests |-> [n \in HeaderNames |-> Empty]]
  /\ authz = [r \in Requests |-> NoAuthz]
  /\ user = [r \in Requests |-> Empty]
  /\ answer = [r \in Requests |-> "none"]

Goto(r, state) == pc' = [pc EXCEPT ![r] = state]

JobGoto(r, state) == jobPc' = [jobPc EXCEPT ![r] = state]

-----------------------------------------------------------------------------
(* The web server: check_pep_authz, pep_check_authorization, PEP::doHandler *)
(* and AuthorizationHandler::run.                                          *)

(* conf->enabled == 0: the directory is not protected. *)
NotEnabled(r) ==
  /\ pc[r] = "new"
  /\ answer' = [answer EXCEPT ![r] = "OK"]
  /\ Goto(r, "off")
  /\ UNCHANGED <<hdr, headers, authz, user, call, daemon>>

(* setRequestURI throws at a % that is not followed by two digits.  Nothing *)
(* catches the exception, and the web server child ends.                   *)
BadUri(r) ==
  /\ pc[r] = "new"
  /\ Goto(r, "died")
  /\ UNCHANGED <<hdr, headers, authz, user, answer, call, daemon>>

(* No application "default", or no handler for the handler URL: the exception *)
(* ends in doHandler, and the request has no response headers.             *)
NoHandler(r) ==
  /\ pc[r] = "new"
  /\ Goto(r, "checking")
  /\ UNCHANGED <<hdr, headers, authz, user, answer, call, daemon>>

(* wrap() and send() *)
Remote(r) ==
  /\ pc[r] = "new"
  /\ Call!Invoke(r)
  /\ Goto(r, "calling")
  /\ UNCHANGED <<hdr, headers, authz, user, answer, daemon>>

(* send() returns the reply. *)
Returned(r) ==
  /\ pc[r] = "calling" /\ jobPc[r] = "done"
  /\ Call!Return(r)
  /\ Goto(r, "unwrapping")
  /\ UNCHANGED <<hdr, headers, authz, user, answer, daemon>>

(* send() raises the daemon's exception, and run() catches it. *)
Raised(r) ==
  /\ pc[r] = "calling" /\ jobPc[r] = "threw"
  /\ Call!Raise(r)
  /\ Goto(r, "checking")
  /\ UNCHANGED <<hdr, headers, authz, user, answer, daemon>>

(* send() throws: the daemon cannot be reached, or ends before it has      *)
(* replied.  run() catches the exception.                                  *)
Failed(r) ==
  /\ pc[r] = "calling"
  /\ Call!Fail(r)
  /\ JobGoto(r, "crashed")
  /\ Goto(r, "checking")
  /\ UNCHANGED <<hdr, headers, authz, user, answer, result, out>>

(* Mutant: the loop does not go on to the next header. *)
UnwrapSame(r) ==
  /\ pc[r] = "unwrapping" /\ hdr[r] \in DOMAIN out[r]
  /\ LET h == out[r][hdr[r]] IN
       /\ h.value \notin {Empty} \cup Refused
       /\ headers' = [headers EXCEPT ![r][h.name] = h.value]
  /\ UNCHANGED <<pc, hdr, authz, user, answer, call, daemon>>

(* unwrap() copies one header.  The reply of this handler has neither a    *)
(* "redirect" nor a "response" member.                                     *)
Unwrap(r) ==
  /\ pc[r] = "unwrapping" /\ hdr[r] \in DOMAIN out[r]
  /\ LET h == out[r][hdr[r]] IN
       /\ h.value \notin {Empty} \cup Refused
       /\ headers' = [headers EXCEPT ![r][h.name] = h.value]
  /\ hdr' = [hdr EXCEPT ![r] = @ + 1]
  /\ UNCHANGED <<pc, authz, user, answer, call, daemon>>

(* The loop ends at the first member that is not a string, and a string    *)
(* without characters is not one any more when it has been deserialized;   *)
(* or setResponseHeader throws, and run() catches the exception.           *)
UnwrapEnds(r) ==
  /\ pc[r] = "unwrapping"
  /\ hdr[r] \in DOMAIN out[r] => out[r][hdr[r]].value \in {Empty} \cup Refused
  /\ Goto(r, "checking")
  /\ UNCHANGED <<hdr, headers, authz, user, answer, call, daemon>>

(* processResponse sets all of t_authz_response but for the decision from  *)
(* the headers.  The value of the status header is compared with the name  *)
(* of the header.                                                          *)
Authz(h, decision) ==
  [decision |-> decision,
   status |-> IF h["status"] = "status" THEN "OK" ELSE "ERROR",
   remoteUser |-> h["remoteUser"],
   redirect |-> h["redirect"]]

CheckedAs(r, decision) ==
  /\ pc[r] = "checking"
  /\ authz' = [authz EXCEPT ![r] = Authz(headers[r], decision)]
  /\ Goto(r, "enforcing")
  /\ UNCHANGED <<hdr, headers, user, answer, call, daemon>>

(* Mutant: a missing status header leaves the decision as it is. *)
ProcessResponseNoStatus(r) ==
  CheckedAs(r, IF headers[r]["decision"] = "PERMIT" THEN "PERMIT" ELSE "DENY")

(* Mutant: what is not denied is permitted. *)
ProcessResponseDefault(r) ==
  CheckedAs(r, IF headers[r]["decision"] = "DENY" THEN "DENY" ELSE "PERMIT")

(* A request without a status header is denied whatever the decision is.   *)
ProcessResponse(r) ==
  CheckedAs(r, IF headers[r]["decision"] = "PERMIT" /\ headers[r]["status"] # Empty
                 THEN "PERMIT" ELSE "DENY")

(* The rest of check_pep_authz. *)
Enforce(r) ==
  /\ pc[r] = "enforcing"
  /\ LET a == authz[r] IN
       /\ user' = [user EXCEPT ![r] = IF a.remoteUser # Empty THEN a.remoteUser ELSE @]
       /\ answer' = [answer EXCEPT ![r] = IF a.redirect # Empty THEN "302"
                                          ELSE IF a.decision = "PERMIT" THEN "OK"
                                          ELSE "401"]
  /\ Goto(r, "done")
  /\ UNCHANGED <<hdr, headers, authz, call, daemon>>

-----------------------------------------------------------------------------
(* The daemon: AuthorizationHandler::receive.                              *)

Receive(r) ==
  /\ pc[r] = "calling"
  /\ Call!Handle(r)
  /\ JobGoto(r, "asking")
  /\ UNCHANGED <<web, result, out>>

(* The application is not configured in the daemon. *)
ReceiveThrows(r) ==
  /\ pc[r] = "calling"
  /\ Call!Handle(r)
  /\ JobGoto(r, "threw")
  /\ UNCHANGED <<web, result, out>>

(* setResponseHeader of RemotedResponse adds to the list. *)
SetHeader(r, name, value) ==
  out' = [out EXCEPT ![r] = Append(@, [name |-> name, value |-> value])]

(* The answer has one Response with one Result. *)
PDPAnswers(r) ==
  /\ jobPc[r] = "asking"
  /\ JobGoto(r, "reading")
  /\ UNCHANGED <<web, call, result, out>>

(* The SOAP call throws, or the answer has no Response, no Result or more  *)
(* than one: all that is set is the content type.                          *)
PDPFails(r) ==
  /\ jobPc[r] = "asking"
  /\ SetHeader(r, "contentType", "text/xml")
  /\ JobGoto(r, "done")
  /\ UNCHANGED <<web, call, result>>

(* The answer is an Envelope without a Body: the daemon dies of getBody()'s *)
(* null pointer.  The other requests' calls then fail as well, which they  *)
(* may do at any time.                                                     *)
NoBodyCrash(r) ==
  /\ jobPc[r] = "asking"
  /\ JobGoto(r, "crashed")
  /\ UNCHANGED <<web, call, result, out>>

(* One round of the loop of processAuthzResponse over the Result. *)
ReadChild(r, c) ==
  /\ jobPc[r] = "reading" /\ Len(result[r]) < MaxChildren
  /\ result' = [result EXCEPT ![r] = Append(@, c)]
  /\ UNCHANGED <<web, call>>

(* "Deny-biased PEP" *)
ReadDecision(r) ==
  \E c \in Decisions :
    /\ ReadChild(r, c)
    /\ SetHeader(r, "decision", IF c.text = "Permit" THEN "PERMIT" ELSE "DENY")
    /\ UNCHANGED jobPc

(* Without a StatusCode item(0) is null, and the daemon dies of it.        *)
ReadStatus(r) ==
  \E c \in Statuses :
    /\ ReadChild(r, c)
    /\ IF c.text = "noCode"
         THEN JobGoto(r, "crashed") /\ UNCHANGED out
         ELSE /\ SetHeader(r, "status", IF c.text = "ok" THEN "OK" ELSE "ERROR")
              /\ UNCHANGED jobPc

(* Mutant: an obligation without an AttributeAssignment sets its header too. *)
ReadObligationAbsent(r) ==
  \E c \in Obligations :
    /\ ReadChild(r, c)
    /\ IF c.id # "unknown" THEN SetHeader(r, c.id, c.text) ELSE UNCHANGED out
    /\ UNCHANGED jobPc

(* Mutant: each of the two obligations sets the other one's header. *)
ReadObligationSwapped(r) ==
  \E c \in Obligations :
    /\ ReadChild(r, c)
    /\ IF c.id # "unknown" /\ c.text # Absent
         THEN SetHeader(r, IF c.id = "redirect" THEN "remoteUser" ELSE "redirect", c.text)
         ELSE UNCHANGED out
    /\ UNCHANGED jobPc

(* An obligation with another id is passed over. *)
ReadObligation(r) ==
  \E c \in Obligations :
    /\ ReadChild(r, c)
    /\ IF c.id # "unknown" /\ c.text # Absent
         THEN SetHeader(r, c.id, c.text)
         ELSE UNCHANGED out
    /\ UNCHANGED jobPc

(* The loop ends, and processAuthzRequest sets the content type. *)
Finish(r) ==
  /\ jobPc[r] = "reading"
  /\ SetHeader(r, "contentType", "text/xml")
  /\ JobGoto(r, "done")
  /\ UNCHANGED <<web, call, result>>

WebServer(r) ==
  \/ NotEnabled(r) \/ BadUri(r) \/ NoHandler(r) \/ Remote(r) \/ Returned(r) \/ Raised(r)
  \/ Unwrap(r) \/ UnwrapEnds(r) \/ ProcessResponse(r) \/ Enforce(r)

Handler(r) ==
  \/ Receive(r) \/ ReceiveThrows(r) \/ PDPAnswers(r) \/ PDPFails(r) \/ NoBodyCrash(r)
  \/ ReadDecision(r) \/ ReadStatus(r) \/ ReadObligation(r)
  \/ Finish(r)

Next == \E r \in Requests : WebServer(r) \/ Failed(r) \/ Handler(r)

(* The web server's threads run, the daemon and the PDP answer or fail, and *)
(* a call ends: AtMostOnceCall!FairSpec.  Nobody has to send a request.    *)
Fairness ==
  \A r \in Requests :
    /\ WF_vars(WebServer(r) /\ pc[r] # "new")
    /\ WF_vars(Handler(r))
    /\ WF_vars(Failed(r) /\ jobPc[r] = "crashed")

Spec == Init /\ [][Next]_vars

FairSpec == Spec /\ Fairness

-----------------------------------------------------------------------------
(* The children of the PDP's Result with a given tag. *)
Tagged(r, tag) == {i \in DOMAIN result[r] : result[r][i].tag = tag}

(* The PDP permitted the request and reported a status. *)
Permitted(r) ==
  /\ \E i \in Tagged(r, "Decision") : result[r][i].text = "Permit"
  /\ Tagged(r, "Status") # {}

(* Access to a protected directory is granted only if the PDP's Result for *)
(* this request says Permit and has a Status: no failure of the daemon, of *)
(* the call, of the PDP or of the configuration grants it.                 *)
PermitOnlyIfPermitted ==
  \A r \in Requests : pc[r] = "done" /\ answer[r] = "OK" => Permitted(r)

(* A request whose call was not answered with a reply is refused: it is    *)
(* neither let through nor redirected, and keeps its user.                 *)
FailClosed ==
  \A r \in Requests :
    pc[r] = "done" /\ call[r] # "returned" =>
      answer[r] = "401" /\ user[r] = Empty

(* The user name and the location come from an obligation of the Result    *)
(* that asks for exactly that.                                             *)
ObligationsFromPDP ==
  \A r \in Requests :
    LET Asked(id, v) == \E i \in Tagged(r, "Obligation") :
                          result[r][i].id = id /\ result[r][i].text = v
    IN /\ user[r] # Empty => Asked("remoteUser", user[r])
       /\ answer[r] = "302" => Asked("redirect", authz[r].redirect)

(* A request for which the check has begun gets its answer, whatever the   *)
(* daemon and the PDP do.                                                  *)
RequestEnds == \A r \in Requests : pc[r] = "calling" ~> pc[r] = "done"
=============================================================================
