--------------------------- MODULE ServerThreads ---------------------------
(***************************************************************************)
(* The server half of SocketListener: the thread of SocketListener::run    *)
(* accepts connections and starts one ServerThread for each; the workers   *)
(* register their descriptor in m_children, serve requests until the       *)
(* client closes, something fails or *m_shutdown is set, and deregister;   *)
(* run() waits for m_children to become empty before it returns.           *)
(*                                                                         *)
(* A connection and the ServerThread that serves it are the same element   *)
(* of Conns.  A worker names its connection only by descriptor number, and *)
(* the kernel reuses a number as soon as it is closed, so every operation  *)
(* of a worker goes through fdTable.  A critical section of m_child_lock   *)
(* is one action; signal() is called after the lock is released and is an  *)
(* action of its own.                                                      *)
(***************************************************************************)
EXTENDS Naturals

CONSTANTS
  Conns,   (* connections clients may open; each is opened at most once    *)
  Fds,     (* descriptor numbers accept() can return                       *)
  NoConn,  (* entry of a descriptor that is closed                         *)
  NoFd,    (* m_sock of a worker that does not exist yet                   *)
  Faults   (* which system calls may fail, see FaultKinds                  *)

FaultKinds ==
  { "thread",   (* Thread::create throws                                   *)
    "listen",   (* select() on the listening socket fails                  *)
    "select" }  (* select() on a worker's socket fails                     *)

ASSUME ServerAssumption ==
  /\ NoConn \notin Conns
  /\ NoFd \notin Fds
  /\ Faults \subseteq FaultKinds

VARIABLES
  shutdown,  (* *m_shutdown, the flag of pepd's signal handler             *)
  mainPc,    (* where the thread of SocketListener::run is                 *)
  pc,        (* where each ServerThread is                                 *)
  sock,      (* m_sock of each ServerThread                                *)
  children,  (* the keys of m_children; its values are never read          *)
  fdTable,   (* the process's descriptors: the connection each one is      *)
  peer,      (* the client's end of each connection                        *)
  inbox      (* what the client sent and the worker has not read           *)

vars == <<shutdown, mainPc, pc, sock, children, fdTable, peer, inbox>>

(* A worker that may still use its descriptor. *)
Holding == {"starting", "waiting", "check", "select", "reading",
            "dispatching", "replying"}
(* A worker that has put its descriptor into m_children and not yet taken it out. *)
Registered == {"check", "select", "reading", "dispatching", "replying", "exiting"}
(* A worker that goes on to handle a request whatever *m_shutdown says. *)
Working == {"select", "reading", "dispatching", "replying"}
(* A worker whose thread function is in ~ServerThread, or behind it. *)
Finished == {"exiting", "erased", "gone"}

TypeOK ==
  /\ shutdown \in BOOLEAN
  /\ mainPc \in {"check", "select", "drain", "waiting", "returned"}
  /\ pc \in [Conns -> {"unborn", "failed"} \cup Holding \cup Finished]
  /\ sock \in [Conns -> Fds \cup {NoFd}]
  /\ children \subseteq Fds
  /\ fdTable \in [Fds -> Conns \cup {NoConn}]
  /\ peer \in [Conns -> {"none", "idle", "sending", "waiting", "closed"}]
  /\ inbox \in [Conns -> {"empty", "partial", "full"}]

Init ==
  /\ shutdown = FALSE
  /\ mainPc = "check"
  /\ pc = [c \in Conns |-> "unborn"]
  /\ sock = [c \in Conns |-> NoFd]
  /\ children = {}
  /\ fdTable = [f \in Fds |-> NoConn]
  /\ peer = [c \in Conns |-> "none"]
  /\ inbox = [c \in Conns |-> "empty"]

-----------------------------------------------------------------------------
(* The clients: SocketPool::connect and SocketListener::send.  The length  *)
(* prefix and the body are two calls of send(), so a worker can see a      *)
(* message that has not arrived completely.                                *)

Connect(c) ==
  /\ peer[c] = "none"
  /\ peer' = [peer EXCEPT ![c] = "idle"]
  /\ UNCHANGED <<shutdown, mainPc, pc, sock, children, fdTable, inbox>>

SendLength(c) ==
  /\ peer[c] = "idle"
  /\ peer' = [peer EXCEPT ![c] = "sending"]
  /\ inbox' = [inbox EXCEPT ![c] = "partial"]
  /\ UNCHANGED <<shutdown, mainPc, pc, sock, children, fdTable>>

SendBody(c) ==
  /\ peer[c] = "sending"
  /\ peer' = [peer EXCEPT ![c] = "waiting"]
  /\ inbox' = [inbox EXCEPT ![c] = "full"]
  /\ UNCHANGED <<shutdown, mainPc, pc, sock, children, fdTable>>

(* The client closes: ~SocketPool, a failed call, or the end of the process. *)
HangUp(c) ==
  /\ peer[c] \in {"idle", "sending", "waiting"}
  /\ peer' = [peer EXCEPT ![c] = "closed"]
  /\ UNCHANGED <<shutdown, mainPc, pc, sock, children, fdTable, inbox>>

Client(c) == Connect(c) \/ SendLength(c) \/ SendBody(c) \/ HangUp(c)

-----------------------------------------------------------------------------
(* The listener thread: SocketListener::run.                               *)

(* term_handler of pepd sets the flag run() was given. *)
Terminate ==
  /\ ~shutdown
  /\ shutdown' = TRUE
  /\ UNCHANGED <<mainPc, pc, sock, children, fdTable, peer, inbox>>

MainCheck ==
  /\ mainPc = "check"
  /\ mainPc' = IF shutdown THEN "drain" ELSE "select"
  /\ UNCHANGED <<shutdown, pc, sock, children, fdTable, peer, inbox>>

(* select() times out or is interrupted, or accept() fails. *)
MainContinue ==
  /\ mainPc = "select"
  /\ mainPc' = "check"
  /\ UNCHANGED <<shutdown, pc, sock, children, fdTable, peer, inbox>>

MainSelectError ==
  /\ "listen" \in Faults
  /\ mainPc = "select"
  /\ shutdown' = TRUE
  /\ mainPc' = "check"
  /\ UNCHANGED <<pc, sock, children, fdTable, peer, inbox>>

(* accept() gives connection c the free descriptor f, and a ServerThread is *)
(* started, or the exception of Thread::create is logged and dropped.      *)
AcceptInto(c, f, state) ==
  /\ mainPc = "select"
  /\ pc[c] = "unborn" /\ peer[c] # "none"
  /\ fdTable[f] = NoConn
  /\ fdTable' = [fdTable EXCEPT ![f] = c]
  /\ sock' = [sock EXCEPT ![c] = f]
  /\ pc' = [pc EXCEPT ![c] = state]
  /\ mainPc' = "check"
  /\ UNCHANGED <<shutdown, children, peer, inbox>>

Accept(c, f) == AcceptInto(c, f, "starting")

AcceptNoThread(c, f) == "thread" \in Faults /\ AcceptInto(c, f, "failed")

(* Mutant: run() returns without looking at m_children. *)
DrainWithoutWait ==
  /\ mainPc = "drain"
  /\ mainPc' = "returned"
  /\ UNCHANGED <<shutdown, pc, sock, children, fdTable, peer, inbox>>

(* "Wait for all children to exit." *)
Drain ==
  /\ mainPc = "drain"
  /\ mainPc' = IF children = {} THEN "returned" ELSE "waiting"
  /\ UNCHANGED <<shutdown, pc, sock, children, fdTable, peer, inbox>>

-----------------------------------------------------------------------------
(* The workers: ServerThread::run, ServerThread::job and ~ServerThread.    *)

Goto(c, state) == pc' = [pc EXCEPT ![c] = state]

(* The socket has data or is at end of file, so select() reports it. *)
Readable(c) ==
  LET d == fdTable[sock[c]] IN inbox[d] # "empty" \/ peer[d] = "closed"

(* Mutant: the worker registers without waiting for its predecessor. *)
OwnAtOnce(c) ==
  /\ pc[c] = "starting"
  /\ Goto(c, "check") /\ children' = children \cup {sock[c]}
  /\ UNCHANGED <<shutdown, mainPc, sock, fdTable, peer, inbox>>

(* Mutant: m_children is keyed by the worker instead of its descriptor. *)
OwnByWorker(c) ==
  /\ pc[c] = "starting"
  /\ Goto(c, "check") /\ children' = children \cup {c}
  /\ UNCHANGED <<shutdown, mainPc, sock, fdTable, peer, inbox>>

(* "Before starting up, make sure we fully own this socket." *)
OwnOrWait(c) ==
  /\ pc[c] = "starting"
  /\ IF sock[c] \in children
       THEN Goto(c, "waiting") /\ UNCHANGED children
       ELSE Goto(c, "check") /\ children' = children \cup {sock[c]}
  /\ UNCHANGED <<shutdown, mainPc, sock, fdTable, peer, inbox>>

(* The loop's condition.  A worker that leaves here does not close its socket. *)
WorkerCheck(c) ==
  /\ pc[c] = "check"
  /\ Goto(c, IF shutdown THEN "exiting" ELSE "select")
  /\ UNCHANGED <<shutdown, mainPc, sock, children, fdTable, peer, inbox>>

(* select() waits one second at a time. *)
WorkerSelect(c) ==
  /\ pc[c] = "select"
  /\ Goto(c, IF Readable(c) THEN "reading" ELSE "check")
  /\ UNCHANGED <<shutdown, mainPc, sock, children, fdTable, peer, inbox>>

(* select() fails: the worker ends without closing its socket. *)
WorkerSelectError(c) ==
  /\ "select" \in Faults
  /\ pc[c] = "select"
  /\ Goto(c, "exiting")
  /\ UNCHANGED <<shutdown, mainPc, sock, children, fdTable, peer, inbox>>

ReadMessage(c) ==
  /\ pc[c] = "reading"
  /\ LET d == fdTable[sock[c]] IN
       /\ inbox[d] = "full"
       /\ inbox' = [inbox EXCEPT ![d] = "empty"]
  /\ Goto(c, "dispatching")
  /\ UNCHANGED <<shutdown, mainPc, sock, children, fdTable, peer>>

(* Mutant: an exception of receive() is logged and nothing is sent back. *)
DispatchLosesException(c) ==
  /\ pc[c] = "dispatching"
  /\ \E next \in {"replying", "check"} : Goto(c, next)
  /\ UNCHANGED <<shutdown, mainPc, sock, children, fdTable, peer, inbox>>

(* receive() returns or throws; either way there is a reply to send. *)
Dispatch(c) ==
  /\ pc[c] = "dispatching"
  /\ Goto(c, "replying")
  /\ UNCHANGED <<shutdown, mainPc, sock, children, fdTable, peer, inbox>>

SendReply(c) ==
  /\ pc[c] = "replying"
  /\ LET d == fdTable[sock[c]] IN
       /\ peer[d] = "waiting"
       /\ peer' = [peer EXCEPT ![d] = "idle"]
  /\ Goto(c, "check")
  /\ UNCHANGED <<shutdown, mainPc, sock, children, fdTable, inbox>>

(* Mutant: run() returns without closing the socket. *)
JobEndsOpen(c) ==
  /\ pc[c] \in {"reading", "replying"}
  /\ LET d == fdTable[sock[c]] IN
       /\ peer[d] = "closed"
       /\ pc[c] = "reading" => inbox[d] # "full"
  /\ Goto(c, "exiting")
  /\ UNCHANGED <<shutdown, mainPc, sock, children, fdTable, peer, inbox>>

(* job() returns nonzero: the client closed before a message was complete, *)
(* or before the reply was sent.  run() closes the socket and returns.     *)
JobEnds(c) ==
  /\ pc[c] \in {"reading", "replying"}
  /\ LET d == fdTable[sock[c]] IN
       /\ peer[d] = "closed"
       /\ pc[c] = "reading" => inbox[d] # "full"
  /\ fdTable' = [fdTable EXCEPT ![sock[c]] = NoConn]
  /\ Goto(c, "exiting")
  /\ UNCHANGED <<shutdown, mainPc, sock, children, peer, inbox>>

(* Mutant: the destructor does not take the socket out of m_children. *)
EraseNothing(c) ==
  /\ pc[c] = "exiting"
  /\ Goto(c, "erased")
  /\ UNCHANGED <<shutdown, mainPc, sock, children, fdTable, peer, inbox>>

(* Mutant: the destructor closes the socket, which run() has closed already. *)
EraseAndClose(c) ==
  /\ pc[c] = "exiting"
  /\ children' = children \ {sock[c]}
  /\ fdTable' = [fdTable EXCEPT ![sock[c]] = NoConn]
  /\ Goto(c, "erased")
  /\ UNCHANGED <<shutdown, mainPc, sock, peer, inbox>>

(* ~ServerThread: the erase under the lock. *)
Erase(c) ==
  /\ pc[c] = "exiting"
  /\ children' = children \ {sock[c]}
  /\ Goto(c, "erased")
  /\ UNCHANGED <<shutdown, mainPc, sock, fdTable, peer, inbox>>

(* A thread whose wait() returns tests its condition again under the lock. *)
WakeMain == mainPc = "waiting" /\ mainPc' = "drain"

WakeWorker(d) == pc[d] = "waiting"

(* Mutant: the destructor signals nobody. *)
SignalNobody(c) ==
  /\ pc[c] = "erased"
  /\ Goto(c, "gone")
  /\ UNCHANGED <<shutdown, mainPc, sock, children, fdTable, peer, inbox>>

(* ~ServerThread: signal() wakes one waiting thread, if there is one. *)
Signal(c) ==
  /\ pc[c] = "erased"
  /\ \/ WakeMain /\ Goto(c, "gone")
     \/ \E d \in Conns : /\ WakeWorker(d)
                         /\ pc' = [pc EXCEPT ![c] = "gone", ![d] = "starting"]
                         /\ UNCHANGED mainPc
     \/ /\ mainPc # "waiting" /\ \A d \in Conns : ~WakeWorker(d)
        /\ Goto(c, "gone")
        /\ UNCHANGED mainPc
  /\ UNCHANGED <<shutdown, sock, children, fdTable, peer, inbox>>

(* pthread_cond_wait may return without a signal. *)
SpuriousWakeup ==
  /\ \/ WakeMain /\ UNCHANGED pc
     \/ \E d \in Conns : WakeWorker(d) /\ Goto(d, "starting") /\ UNCHANGED mainPc
  /\ UNCHANGED <<shutdown, sock, children, fdTable, peer, inbox>>

Main ==
  \/ MainCheck \/ MainContinue \/ Drain \/ MainSelectError
  \/ \E c \in Conns, f \in Fds : Accept(c, f) \/ AcceptNoThread(c, f)

Worker(c) ==
  \/ OwnOrWait(c) \/ WorkerCheck(c) \/ WorkerSelect(c) \/ WorkerSelectError(c)
  \/ ReadMessage(c) \/ Dispatch(c) \/ SendReply(c) \/ JobEnds(c)
  \/ Erase(c) \/ Signal(c)

Next ==
  \/ Main \/ Terminate \/ SpuriousWakeup
  \/ \E c \in Conns : Client(c) \/ Worker(c)

(* Threads are scheduled, and a client that has begun a message completes  *)
(* it or closes; nothing makes a client send or close otherwise, nothing   *)
(* makes the administrator stop the daemon.                                *)
Fairness ==
  /\ WF_vars(Main)
  /\ \A c \in Conns : WF_vars(Worker(c)) /\ WF_vars(SendBody(c))

Spec == Init /\ [][Next]_vars

FairSpec == Spec /\ Fairness

-----------------------------------------------------------------------------
(* m_children holds the descriptors of exactly the workers that have       *)
(* registered and not yet left: a descriptor that stayed behind would keep *)
(* its successor and run() waiting, one that went missing would let run()  *)
(* return while its worker still serves.                                   *)
RegistryExact == children = {sock[c] : c \in {d \in Conns : pc[d] \in Registered}}

(* No two registered workers have the same descriptor number: what the     *)
(* wait at the start of ServerThread::run is there for, since a number is  *)
(* reused between the close() of one worker and its ~ServerThread.         *)
SoleOwner ==
  \A c, d \in Conns :
    pc[c] \in Registered /\ pc[d] \in Registered /\ sock[c] = sock[d] => c = d

(* A worker's descriptor is its own connection for as long as the worker   *)
(* may read, write or close it: no worker serves another one's client.     *)
OwnConnection ==
  \A c \in Conns : pc[c] \in Holding => /\ sock[c] \in Fds
                                        /\ fdTable[sock[c]] = c

(* When run() has returned no worker handles a request or can start to:    *)
(* those that were still unregistered find *m_shutdown set.                *)
NoJobAfterReturn ==
  mainPc = "returned" => shutdown /\ \A c \in Conns : pc[c] \notin Working

(* While the daemon runs and no system call fails, the descriptor of a     *)
(* worker that has ended is closed: connections cost descriptors only as   *)
(* long as they last.                                                      *)
NoLeak ==
  Faults = {} /\ ~shutdown =>
    \A f \in Fds : fdTable[f] # NoConn => pc[fdTable[f]] \notin Finished

(* run() returns once the daemon is told to stop, although one signal()    *)
(* wakes one of the threads that wait on m_child_wait and the listener     *)
(* thread may not be the one.                                              *)
ShutdownCompletes == shutdown ~> mainPc = "returned"

(* A request that a registered worker's client has sent is answered or the *)
(* client goes away, unless the daemon is told to stop.                    *)
RequestAnswered ==
  \A c \in Conns :
    pc[c] \in Registered /\ inbox[c] = "full" /\ ~shutdown
      ~> shutdown \/ (inbox[c] = "empty" /\ peer[c] # "waiting")

(* The comment in ~ServerThread, "remove this socket/thread, signal        *)
(* waiters": a worker that waits for a descriptor that has been removed is *)
(* woken.                                                                  *)
WaitersSignalled ==
  \A c \in Conns :
    pc[c] = "waiting" /\ sock[c] \notin children /\ ~shutdown
      ~> pc[c] # "waiting" \/ shutdown
=============================================================================
