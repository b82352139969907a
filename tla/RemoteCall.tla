----------------------------- MODULE RemoteCall -----------------------------
(***************************************************************************)
(* Remoted calls between the threads of a web server child and pepd:       *)
(* SocketListener::send with its retry, the SocketPool the threads share,  *)
(* the Unix sockets between the processes, and ServerThread::job at the    *)
(* other end.  pepd may stop at any moment and be started again, which     *)
(* leaves sockets in the pool whose other end is gone; the child may end    *)
(* at any moment, which leaves pepd with requests nobody waits for.         *)
(*                                                                         *)
(* A call is made by one thread, so Calls are also the threads.  The       *)
(* threads, accept loop and shutdown of the daemon are in ServerThreads;   *)
(* here a connection that the kernel has queued is served at once.  Each   *)
(* recv() of the client is a step of its own, so are the two send()s of a  *)
(* reply; a request, whose handler runs only when it is complete, is sent  *)
(* in one step, which fails as a whole.                                    *)
(***************************************************************************)
EXTENDS Naturals, Sequences, SequencesExt

CONSTANTS
  Calls,       (* calls of SocketListener::send                            *)
  Throws,      (* the calls whose handler throws                           *)
  Socks,       (* descriptors of the web server child for its connections  *)
  NoCall,      (* no request is being handled                              *)
  NoSock,      (* the thread holds no socket                               *)
  Tries,       (* num_tries of SocketPool::connect                         *)
  MaxStops,    (* bound: how often pepd stops                              *)
  Interrupts   (* signals interrupt recv() in the web server               *)

ASSUME CallAssumption ==
  /\ Throws \subseteq Calls
  /\ NoCall \notin Calls
  /\ NoSock \notin Socks
  /\ Tries \in Nat \ {0}
  /\ MaxStops \in Nat
  /\ Interrupts \in BOOLEAN

VARIABLES
  pc,          (* where each call is in SocketListener::send               *)
  sock,        (* sock of each call                                        *)
  retry,       (* retry of each call                                       *)
  tries,       (* attempts to connect that are left                        *)
  errno,       (* errno of each thread, as far as send() looks at it       *)
  answer,      (* the call whose reply each call received                  *)
  pool,        (* m_pool, the top of the stack is the last element         *)
  clientEnd,   (* the client's end of each socket                          *)
  serverEnd,   (* the daemon's end of each socket                          *)
  toServer,    (* requests the daemon has not read                         *)
  toClient,    (* parts of replies the client has not read                 *)
  jobPc,       (* where the worker of each socket is in ServerThread::job  *)
  job,         (* the request it handles                                   *)
  handled,     (* how often ListenerService::receive ran for each call     *)
  daemon,      (* whether pepd runs                                        *)
  stops        (* how often it stopped                                     *)

client == <<pc, sock, retry, tries, errno, answer, pool>>
wire == <<clientEnd, serverEnd, toServer, toClient>>
server == <<jobPc, job, handled>>
vars == <<client, wire, server, daemon, stops>>

Parts == [part : {"length", "body"}, call : Calls]

Ended == {"returned", "raised", "failed", "lost"}
(* A call in one of these states is in SocketListener::send.                *)
Running == {"get", "connect", "send", "length", "body"}
(* A call in one of these states holds a socket. *)
Holding == {"connect", "send", "length", "body"}

TypeOK ==
  /\ pc \in [Calls -> {"idle", "get"} \cup Holding \cup Ended]
  /\ sock \in [Calls -> Socks \cup {NoSock}]
  /\ retry \in [Calls -> {0, 1}]
  /\ tries \in [Calls -> 0..Tries]
  /\ errno \in [Calls -> {"EINTR", "other"}]
  /\ answer \in [Calls -> Calls \cup {NoCall}]
  /\ pool \in Seq(Socks)
  /\ clientEnd \in [Socks -> {"open", "closed"}]
  /\ serverEnd \in [Socks -> {"open", "closed"}]
  /\ toServer \in [Socks -> Seq(Calls)]
  /\ toClient \in [Socks -> Seq(Parts)]
  /\ jobPc \in [Socks -> {"idle", "dispatch", "length", "body"}]
  /\ job \in [Socks -> Calls \cup {NoCall}]
  /\ handled \in [Calls -> Nat]
  /\ daemon \in {"up", "down"}
  /\ stops \in 0..MaxStops

Init ==
  /\ pc = [c \in Calls |-> "idle"]
  /\ sock = [c \in Calls |-> NoSock]
  /\ retry = [c \in Calls |-> 1]
  /\ tries = [c \in Calls |-> 0]
  /\ errno = [c \in Calls |-> "other"]
  /\ answer = [c \in Calls |-> NoCall]
  /\ pool = <<>>
  /\ clientEnd = [s \in Socks |-> "closed"]
  /\ serverEnd = [s \in Socks |-> "closed"]
  /\ toServer = [s \in Socks |-> <<>>]
  /\ toClient = [s \in Socks |-> <<>>]
  /\ jobPc = [s \in Socks |-> "idle"]
  /\ job = [s \in Socks |-> NoCall]
  /\ handled = [c \in Calls |-> 0]
  /\ daemon = "up"
  /\ stops = 0

-----------------------------------------------------------------------------
(* The client: SocketListener::send, SocketPool::get, connect and put.      *)

Goto(c, state) == pc' = [pc EXCEPT ![c] = state]

(* The thread closes its socket and goes on in the given state. *)
CloseAndGo(c, state) ==
  /\ clientEnd' = [clientEnd EXCEPT ![sock[c]] = "closed"]
  /\ sock' = [sock EXCEPT ![c] = NoSock]
  /\ Goto(c, state)

Invoke(c) ==
  /\ pc[c] = "idle"
  /\ Goto(c, "get")
  /\ UNCHANGED <<sock, retry, tries, errno, answer, pool, wire, server, daemon, stops>>

(* Mutant: get() leaves the socket it returns on the stack. *)
GetPooledNoPop(c) ==
  /\ pc[c] = "get" /\ pool # <<>>
  /\ sock' = [sock EXCEPT ![c] = Last(pool)]
  /\ Goto(c, "send")
  /\ UNCHANGED <<retry, tries, errno, answer, pool, wire, server, daemon, stops>>

GetPooled(c) ==
  /\ pc[c] = "get" /\ pool # <<>>
  /\ sock' = [sock EXCEPT ![c] = Last(pool)]
  /\ pool' = Front(pool)
  /\ Goto(c, "send")
  /\ UNCHANGED <<retry, tries, errno, answer, wire, server, daemon, stops>>

(* A descriptor is free again when the connection it was is gone for both. *)
Free(s) == clientEnd[s] = "closed" /\ serverEnd[s] = "closed"

GetNew(c, s) ==
  /\ pc[c] = "get" /\ pool = <<>> /\ Free(s)
  /\ sock' = [sock EXCEPT ![c] = s]
  /\ clientEnd' = [clientEnd EXCEPT ![s] = "open"]
  /\ toServer' = [toServer EXCEPT ![s] = <<>>]
  /\ toClient' = [toClient EXCEPT ![s] = <<>>]
  /\ tries' = [tries EXCEPT ![c] = Tries]
  /\ Goto(c, "connect")
  /\ UNCHANGED <<retry, errno, answer, pool, serverEnd, server, daemon, stops>>

(* socket() fails: connect() throws "Cannot create socket". *)
GetFails(c) ==
  /\ pc[c] = "get" /\ pool = <<>> /\ \A s \in Socks : ~Free(s)
  /\ Goto(c, "failed")
  /\ UNCHANGED <<sock, retry, tries, errno, answer, pool, wire, server, daemon, stops>>

Connected(c) ==
  /\ pc[c] = "connect" /\ daemon = "up"
  /\ serverEnd' = [serverEnd EXCEPT ![sock[c]] = "open"]
  /\ Goto(c, "send")
  /\ UNCHANGED <<sock, retry, tries, errno, answer, pool, clientEnd, toServer,
                 toClient, server, daemon, stops>>

(* Mutant: the attempts are not counted. *)
ConnectFailsUncounted(c) ==
  /\ pc[c] = "connect" /\ daemon = "down"
  /\ errno' = [errno EXCEPT ![c] = "other"]
  /\ UNCHANGED <<pc, sock, clientEnd, tries, retry, answer, pool, serverEnd,
                 toServer, toClient, server, daemon, stops>>

(* The attempt fails; after the last one the socket is closed and connect() *)
(* throws, which ends the call whatever retries it has left.               *)
ConnectFails(c) ==
  /\ pc[c] = "connect" /\ daemon = "down"
  /\ errno' = [errno EXCEPT ![c] = "other"]
  /\ tries' = [tries EXCEPT ![c] = @ - 1]
  /\ IF tries[c] > 1
       THEN UNCHANGED <<pc, sock, clientEnd>>
       ELSE CloseAndGo(c, "failed")
  /\ UNCHANGED <<retry, answer, pool, serverEnd, toServer, toClient, server, daemon, stops>>

Send(c) ==
  /\ pc[c] = "send" /\ serverEnd[sock[c]] = "open"
  /\ toServer' = [toServer EXCEPT ![sock[c]] = Append(@, c)]
  /\ Goto(c, "length")
  /\ UNCHANGED <<sock, retry, tries, errno, answer, pool, clientEnd, serverEnd,
                 toClient, server, daemon, stops>>

(* Mutant: every failure is followed by another attempt. *)
SendFailsForEver(c) ==
  /\ pc[c] = "send" /\ serverEnd[sock[c]] = "closed"
  /\ errno' = [errno EXCEPT ![c] = "other"]
  /\ retry' = [retry EXCEPT ![c] = @ - 1]
  /\ CloseAndGo(c, "get")
  /\ UNCHANGED <<tries, answer, pool, serverEnd, toServer, toClient, server, daemon, stops>>

(* Mutant: there is no second attempt. *)
SendFailsAtOnce(c) ==
  /\ pc[c] = "send" /\ serverEnd[sock[c]] = "closed"
  /\ errno' = [errno EXCEPT ![c] = "other"]
  /\ CloseAndGo(c, "failed")
  /\ UNCHANGED <<retry, tries, answer, pool, serverEnd, toServer, toClient, server, daemon, stops>>

(* "Loop on the RPC in case we lost contact the first time through." *)
SendFails(c) ==
  /\ pc[c] = "send" /\ serverEnd[sock[c]] = "closed"
  /\ errno' = [errno EXCEPT ![c] = "other"]
  /\ retry' = [retry EXCEPT ![c] = 0]
  /\ CloseAndGo(c, IF retry[c] = 1 THEN "get" ELSE "failed")
  /\ UNCHANGED <<tries, answer, pool, serverEnd, toServer, toClient, server, daemon, stops>>

(* A signal handler runs while recv() blocks: both loops call recv() again. *)
Interrupted(c) ==
  /\ Interrupts
  /\ pc[c] \in {"length", "body"}
  /\ toClient[sock[c]] = <<>> /\ serverEnd[sock[c]] = "open"
  /\ errno' = [errno EXCEPT ![c] = "EINTR"]
  /\ UNCHANGED <<pc, sock, retry, tries, answer, pool, wire, server, daemon, stops>>

(* Mutant: the socket goes back into the pool before the body is read. *)
RecvLengthPut(c) ==
  /\ pc[c] = "length" /\ toClient[sock[c]] # <<>>
  /\ toClient' = [toClient EXCEPT ![sock[c]] = Tail(@)]
  /\ pool' = Append(pool, sock[c])
  /\ Goto(c, "body")
  /\ UNCHANGED <<sock, retry, tries, errno, answer, clientEnd, serverEnd,
                 toServer, server, daemon, stops>>

RecvLength(c) ==
  /\ pc[c] = "length" /\ toClient[sock[c]] # <<>>
  /\ toClient' = [toClient EXCEPT ![sock[c]] = Tail(@)]
  /\ Goto(c, "body")
  /\ UNCHANGED <<sock, retry, tries, errno, answer, pool, clientEnd, serverEnd,
                 toServer, server, daemon, stops>>

(* The reply is complete: the socket goes back into the pool, and an        *)
(* "exception" reply is raised.  A reply that the parser refuses, or an     *)
(* exception that cannot be made again, is a failure of the call.           *)
RecvBody(c) ==
  /\ pc[c] = "body" /\ toClient[sock[c]] # <<>>
  /\ LET from == Head(toClient[sock[c]]).call IN
       /\ answer' = [answer EXCEPT ![c] = from]
       /\ \/ Goto(c, IF from \in Throws THEN "raised" ELSE "returned")
          \/ Goto(c, "failed")
  /\ toClient' = [toClient EXCEPT ![sock[c]] = Tail(@)]
  /\ pool' = Append(pool, sock[c])
  /\ sock' = [sock EXCEPT ![c] = NoSock]
  /\ UNCHANGED <<retry, tries, errno, clientEnd, serverEnd, toServer, server, daemon, stops>>

(* Mutant: a lost reply is asked for again. *)
RecvFailsRetry(c) ==
  /\ pc[c] \in {"length", "body"}
  /\ toClient[sock[c]] = <<>> /\ serverEnd[sock[c]] = "closed"
  /\ errno' = [errno EXCEPT ![c] = "other"]
  /\ retry' = [retry EXCEPT ![c] = 0]
  /\ CloseAndGo(c, IF retry[c] = 1 THEN "get" ELSE "failed")
  /\ UNCHANGED <<tries, answer, pool, serverEnd, toServer, toClient, server, daemon, stops>>

(* Mutant: the socket of a failed call is pooled like any other. *)
RecvFailsPut(c) ==
  /\ pc[c] \in {"length", "body"}
  /\ toClient[sock[c]] = <<>> /\ serverEnd[sock[c]] = "closed"
  /\ errno' = [errno EXCEPT ![c] = "other"]
  /\ pool' = Append(pool, sock[c])
  /\ sock' = [sock EXCEPT ![c] = NoSock]
  /\ Goto(c, "failed")
  /\ UNCHANGED <<retry, tries, answer, wire, server, daemon, stops>>

(* Mutant: the thread gives up on a daemon that is slow to answer. *)
RecvTimeout(c) ==
  /\ pc[c] \in {"length", "body"}
  /\ toClient[sock[c]] = <<>>
  /\ errno' = [errno EXCEPT ![c] = "other"]
  /\ CloseAndGo(c, "failed")
  /\ UNCHANGED <<retry, tries, answer, pool, serverEnd, toServer, toClient,
                 server, daemon, stops>>

(* Mutant: the loop over the body does not look for the end of file. *)
RecvFailsLength(c) ==
  /\ pc[c] = "length"
  /\ toClient[sock[c]] = <<>> /\ serverEnd[sock[c]] = "closed"
  /\ errno' = [errno EXCEPT ![c] = "other"]
  /\ CloseAndGo(c, "failed")
  /\ UNCHANGED <<retry, tries, answer, pool, serverEnd, toServer, toClient,
                 server, daemon, stops>>

(* The daemon's end is closed.  If it had not read the request, recv()     *)
(* fails with ECONNRESET; otherwise recv() returns 0 and leaves errno as   *)
(* it is.  The test of errno then decides: with a left-over EINTR the loop *)
(* calls recv() again, for ever, and the thread takes no step here.        *)
RecvFails(c) ==
  /\ pc[c] \in {"length", "body"}
  /\ toClient[sock[c]] = <<>> /\ serverEnd[sock[c]] = "closed"
  /\ toServer[sock[c]] # <<>> \/ errno[c] # "EINTR"
  /\ errno' = [errno EXCEPT ![c] = "other"]
  /\ CloseAndGo(c, "failed")
  /\ UNCHANGED <<retry, tries, answer, pool, serverEnd, toServer, toClient,
                 server, daemon, stops>>

(* The child ends, between two calls or, if it is killed, within some:      *)
(* ~SocketPool or the kernel closes its sockets; a new child takes its place. *)
ChildEnds ==
  /\ pool # <<>> \/ \E c \in Calls : pc[c] \in Running
  /\ pc' = [c \in Calls |-> IF pc[c] \in Running THEN "lost" ELSE pc[c]]
  /\ sock' = [c \in Calls |-> NoSock]
  /\ clientEnd' = [s \in Socks |-> "closed"]
  /\ pool' = <<>>
  /\ UNCHANGED <<retry, tries, errno, answer, serverEnd, toServer, toClient, server,
                 daemon, stops>>

Caller(c) ==
  \/ GetPooled(c) \/ GetFails(c) \/ Connected(c) \/ ConnectFails(c)
  \/ Send(c) \/ SendFails(c) \/ RecvLength(c) \/ RecvBody(c) \/ RecvFails(c)
  \/ \E s \in Socks : GetNew(c, s)

-----------------------------------------------------------------------------
(* The daemon: ServerThread::job and the loop that calls it.                *)

JobGoto(s, state) == jobPc' = [jobPc EXCEPT ![s] = state]

Receive(s) ==
  /\ serverEnd[s] = "open" /\ jobPc[s] = "idle" /\ toServer[s] # <<>>
  /\ job' = [job EXCEPT ![s] = Head(toServer[s])]
  /\ toServer' = [toServer EXCEPT ![s] = Tail(@)]
  /\ JobGoto(s, "dispatch")
  /\ UNCHANGED <<client, clientEnd, serverEnd, toClient, handled, daemon, stops>>

Dispatch(s) ==
  /\ jobPc[s] = "dispatch"
  /\ handled' = [handled EXCEPT ![job[s]] = @ + 1]
  /\ JobGoto(s, "length")
  /\ UNCHANGED <<client, wire, job, daemon, stops>>

SendPart(s, part, next) ==
  /\ jobPc[s] = part /\ clientEnd[s] = "open"
  /\ toClient' = [toClient EXCEPT ![s] = Append(@, [part |-> part, call |-> job[s]])]
  /\ JobGoto(s, next)
  /\ UNCHANGED <<client, clientEnd, serverEnd, toServer, job, handled, daemon, stops>>

SendLength(s) == SendPart(s, "length", "body")

SendBody(s) == SendPart(s, "body", "idle")

(* The client has closed: job() reads 0 bytes and run() closes the socket.  *)
DetectClosure(s) ==
  /\ serverEnd[s] = "open" /\ jobPc[s] = "idle"
  /\ clientEnd[s] = "closed" /\ toServer[s] = <<>>
  /\ serverEnd' = [serverEnd EXCEPT ![s] = "closed"]
  /\ UNCHANGED <<client, clientEnd, toServer, toClient, server, daemon, stops>>

(* A part of the reply cannot be sent, because the client has closed.       *)
ReplyFails(s) ==
  /\ jobPc[s] \in {"length", "body"} /\ clientEnd[s] = "closed"
  /\ serverEnd' = [serverEnd EXCEPT ![s] = "closed"]
  /\ JobGoto(s, "idle")
  /\ UNCHANGED <<client, clientEnd, toServer, toClient, job, handled, daemon, stops>>

Job(s) ==
  \/ Receive(s) \/ Dispatch(s) \/ SendLength(s) \/ SendBody(s)
  \/ DetectClosure(s) \/ ReplyFails(s)

(* pepd ends, in whatever state it is: the kernel closes its sockets.  What *)
(* it sent before can still be read.                                       *)
Stop ==
  /\ daemon = "up" /\ stops < MaxStops
  /\ daemon' = "down"
  /\ stops' = stops + 1
  /\ serverEnd' = [s \in Socks |-> "closed"]
  /\ jobPc' = [s \in Socks |-> "idle"]
  /\ UNCHANGED <<client, clientEnd, toServer, toClient, job, handled>>

Start ==
  /\ daemon = "down"
  /\ daemon' = "up"
  /\ UNCHANGED <<client, wire, server, stops>>

Next ==
  \/ \E c \in Calls : Invoke(c) \/ Caller(c) \/ Interrupted(c)
  \/ \E s \in Socks : Job(s)
  \/ ChildEnds \/ Stop \/ Start

(* Threads run and handlers end; nobody has to call, to stop the daemon, to *)
(* start it again, to end the child or to interrupt a thread.              *)
Fairness ==
  /\ \A c \in Calls : WF_vars(Caller(c))
  /\ \A s \in Socks : WF_vars(Job(s))

Spec == Init /\ [][Next]_vars

FairSpec == Spec /\ Fairness

-----------------------------------------------------------------------------
(* A message is handled at most once, though send() retries and sockets go *)
(* from call to call: the retry follows only a send() that did not         *)
(* complete, and a lost reply is never asked for again.                    *)
AtMostOnce == \A c \in Calls : handled[c] <= 1

(* A call that ends with a reply has the reply to its own message, which   *)
(* was handled, and raises exactly if its handler threw.                   *)
OwnAnswer ==
  \A c \in Calls : pc[c] \in {"returned", "raised"} =>
    answer[c] = c /\ handled[c] = 1 /\ (pc[c] = "raised" <=> c \in Throws)

(* A pooled socket is in the pool once, belongs to no call, and is open and *)
(* at rest at both ends; no two calls have the same socket: the next call  *)
(* can neither meet the remains of an earlier one nor an answer of another. *)
PoolClean ==
  /\ \A c, d \in Calls : pc[c] \in Holding /\ pc[d] \in Holding /\ sock[c] = sock[d] => c = d
  /\ \A c \in Calls : pc[c] \in Holding => sock[c] \notin {pool[i] : i \in DOMAIN pool}
  /\ \A i, j \in DOMAIN pool : pool[i] = pool[j] => i = j
  /\ \A i \in DOMAIN pool : LET s == pool[i] IN
       /\ clientEnd[s] = "open"
       /\ toServer[s] = <<>> /\ toClient[s] = <<>> /\ jobPc[s] = "idle"

(* The daemon handles a message only while its caller waits for the reply, *)
(* or would if its process had not ended: nothing is done for a call that  *)
(* has not been made or that has been told of a failure.                   *)
NoOrphanWork ==
  [][\A c \in Calls : handled'[c] # handled[c] => pc[c] \in {"length", "lost"}]_vars

(* The call as its caller sees it.                                         *)
callState ==
  [c \in Calls |-> IF pc[c] \in {"idle"} \cup Ended THEN pc[c]
                   ELSE IF handled[c] = 0 THEN "called" ELSE "handled"]

Abstract == INSTANCE AtMostOnceCall WITH state <- callState

(* The daemon has gone after it read the request, and errno is left over    *)
(* from an interrupted recv(): the thread calls recv() again and again.     *)
Spins(c) ==
  /\ pc[c] \in {"length", "body"} /\ errno[c] = "EINTR"
  /\ serverEnd[sock[c]] = "closed"
  /\ toServer[sock[c]] = <<>> /\ toClient[sock[c]] = <<>>

(* SocketListener implements the call that ListenerService promises, and   *)
(* under fairness every call comes to its end, unless its thread spins for  *)
(* ever on an errno that recv() did not set (SocketListener.cpp:326, 343).  *)
ImplementsCall ==
  /\ Abstract!Spec
  /\ \A c \in Calls : Abstract!Fair(c) \/ <>[]Spins(c)
=============================================================================
