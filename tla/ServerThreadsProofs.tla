------------------------ MODULE ServerThreadsProofs ------------------------
(* The safety properties of ServerThreads for any number of connections and *)
(* descriptors and any combination of failing system calls.                 *)
EXTENDS ServerThreads, TLAPS

(* run() leaves its loop only when *m_shutdown is set, and the flag is never *)
(* reset; once run() has returned no worker is at work.                     *)
MainInv ==
  /\ mainPc \in {"drain", "waiting", "returned"} => shutdown
  /\ mainPc = "returned" => \A c \in Conns : pc[c] \notin Working

IInv == TypeOK /\ RegistryExact /\ SoleOwner /\ OwnConnection /\ MainInv

(* What a worker that only moves between states of the same kind leaves as  *)
(* it is: the registry, who owns which number, and whose connection it is.  *)
LEMMA MoveKeeps ==
  ASSUME NEW c \in Conns, NEW s \in Holding \cup Finished \cup {"unborn", "failed"},
         TypeOK, RegistryExact, SoleOwner, OwnConnection,
         Goto(c, s), UNCHANGED <<sock, children, fdTable>>,
         pc[c] \in Registered <=> s \in Registered,
         s \in Holding => pc[c] \in Holding
  PROVE  RegistryExact' /\ SoleOwner' /\ OwnConnection'
<1> DEFINE R == {d \in Conns : pc[d] \in Registered}
<1>1. /\ pc' = [pc EXCEPT ![c] = s]
      /\ \A d \in Conns : pc'[d] \in Registered <=> pc[d] \in Registered
      /\ \A d \in Conns : pc'[d] \in Holding => pc[d] \in Holding
  BY DEF Goto, TypeOK
<1>2. {d \in Conns : pc'[d] \in Registered} = R
  BY <1>1
<1>3. RegistryExact'
  BY <1>2 DEF RegistryExact
<1>4. SoleOwner'
  BY <1>1 DEF SoleOwner
<1>5. OwnConnection'
  BY <1>1 DEF OwnConnection
<1> QED BY <1>3, <1>4, <1>5

(* The initial state satisfies the inductive invariant.                     *)
LEMMA InitIInv == Init => IInv
<1> SUFFICES ASSUME Init PROVE IInv
  OBVIOUS
<1>1. TypeOK
  BY DEF Init, TypeOK
<1>2. {d \in Conns : pc[d] \in Registered} = {}
  BY DEF Init, Registered
<1>3. RegistryExact /\ SoleOwner
  BY <1>2 DEF Init, RegistryExact, SoleOwner
<1>4. OwnConnection /\ MainInv
  BY DEF Init, OwnConnection, MainInv, Holding
<1> QED BY <1>1, <1>3, <1>4 DEF IInv

(* Steps of the clients, of the signal handler and of a spurious wakeup     *)
(* touch neither the registry nor a descriptor.                             *)
LEMMA ClientStep ==
  ASSUME IInv, NEW c \in Conns, Client(c)
  PROVE  IInv'
<1>1. UNCHANGED <<shutdown, mainPc, pc, sock, children, fdTable>>
  BY DEF Client, Connect, SendLength, SendBody, HangUp
<1>2. TypeOK'
  BY DEF IInv, TypeOK, Client, Connect, SendLength, SendBody, HangUp
<1>3. (RegistryExact /\ SoleOwner /\ OwnConnection /\ MainInv)'
  BY <1>1 DEF IInv, RegistryExact, SoleOwner, OwnConnection, MainInv
<1> QED BY <1>2, <1>3 DEF IInv

(* Steps of the listener thread.                                            *)
LEMMA MainStep ==
  ASSUME IInv, Main
  PROVE  IInv'
<1> USE DEF IInv
<1>1. CASE MainCheck \/ MainContinue \/ MainSelectError
  <2>1. TypeOK'
    BY <1>1 DEF TypeOK, MainCheck, MainContinue, MainSelectError
  <2>2. (RegistryExact /\ SoleOwner /\ OwnConnection /\ MainInv)'
    BY <1>1 DEF RegistryExact, SoleOwner, OwnConnection, MainInv,
                MainCheck, MainContinue, MainSelectError
  <2> QED BY <2>1, <2>2
<1>2. CASE Drain
  <2>1. TypeOK'
    BY <1>2 DEF TypeOK, Drain
  <2>2. (RegistryExact /\ SoleOwner /\ OwnConnection)'
    BY <1>2 DEF RegistryExact, SoleOwner, OwnConnection, Drain
  <2>3. ASSUME children = {}, NEW c \in Conns PROVE pc[c] \notin Working
    BY <2>3 DEF RegistryExact, Registered, Working
  <2>4. MainInv'
    BY <1>2, <2>3 DEF MainInv, Drain
  <2> QED BY <2>1, <2>2, <2>4
<1>3. ASSUME NEW c \in Conns, NEW f \in Fds, NEW s \in {"starting", "failed"},
             AcceptInto(c, f, s)
      PROVE  IInv'
  <2>1. TypeOK'
    BY <1>3 DEF TypeOK, AcceptInto, Holding
  <2>2. /\ s \notin Registered /\ pc[c] \notin Registered
        /\ \A d \in Conns \ {c} : pc'[d] = pc[d] /\ sock'[d] = sock[d]
        /\ pc'[c] = s
    BY <1>3 DEF TypeOK, AcceptInto, Registered
  <2>3. {d \in Conns : pc'[d] \in Registered} = {d \in Conns : pc[d] \in Registered}
    BY <2>2
  <2>4. \A d \in Conns : pc[d] \in Registered => sock'[d] = sock[d]
    BY <2>2
  <2>5. RegistryExact' /\ SoleOwner'
    BY <1>3, <2>3, <2>4 DEF RegistryExact, SoleOwner, AcceptInto
  <2>6. sock'[c] = f /\ fdTable'[f] = c
    BY <1>3 DEF TypeOK, AcceptInto
  <2>7. ASSUME NEW d \in Conns \ {c}, pc[d] \in Holding
        PROVE  sock[d] # f /\ fdTable'[sock[d]] = fdTable[sock[d]]
    BY <1>3, <2>7, ServerAssumption DEF TypeOK, OwnConnection, AcceptInto
  <2>8. OwnConnection'
    BY <2>2, <2>6, <2>7 DEF OwnConnection
  <2>9. MainInv'
    BY <1>3 DEF MainInv, AcceptInto
  <2> QED BY <2>1, <2>5, <2>8, <2>9
<1> QED BY <1>1, <1>2, <1>3 DEF Main, Accept, AcceptNoThread

(* Steps of a worker in the loop of ServerThread::run.                      *)
LEMMA LoopStep ==
  ASSUME IInv, NEW c \in Conns,
         \/ WorkerCheck(c) \/ WorkerSelect(c) \/ WorkerSelectError(c)
         \/ ReadMessage(c) \/ Dispatch(c) \/ SendReply(c)
  PROVE  IInv'
<1> USE DEF IInv
<1>1. UNCHANGED <<shutdown, mainPc, sock, children, fdTable>>
  BY DEF WorkerCheck, WorkerSelect, WorkerSelectError, ReadMessage, Dispatch, SendReply
<1>2. PICK s \in {"exiting", "select", "reading", "check", "dispatching", "replying"} :
        /\ Goto(c, s)
        /\ s \in Working => ~shutdown \/ pc[c] \in Working
  BY DEF WorkerCheck, WorkerSelect, WorkerSelectError, ReadMessage, Dispatch,
         SendReply, Working
<1>3. pc[c] \in {"check", "select", "reading", "dispatching", "replying"}
  BY DEF WorkerCheck, WorkerSelect, WorkerSelectError, ReadMessage, Dispatch, SendReply
<1>4. TypeOK'
  <2>1. pc' \in [Conns -> {"unborn", "failed"} \cup Holding \cup Finished]
    BY <1>2 DEF TypeOK, Goto, Holding, Finished
  <2>2. peer' \in [Conns -> {"none", "idle", "sending", "waiting", "closed"}]
    BY DEF TypeOK, WorkerCheck, WorkerSelect, WorkerSelectError, ReadMessage,
           Dispatch, SendReply
  <2>3. inbox' \in [Conns -> {"empty", "partial", "full"}]
    BY DEF TypeOK, WorkerCheck, WorkerSelect, WorkerSelectError, ReadMessage,
           Dispatch, SendReply
  <2> QED BY <1>1, <2>1, <2>2, <2>3 DEF TypeOK
<1>5. (RegistryExact /\ SoleOwner /\ OwnConnection)'
  <2>1. pc[c] \in Registered /\ s \in Registered /\ pc[c] \in Holding
    BY <1>3 DEF Registered, Holding
  <2>2. s \in Holding \cup Finished \cup {"unborn", "failed"}
    BY DEF Holding, Finished
  <2> QED BY <1>1, <1>2, <2>1, <2>2, MoveKeeps
<1>6. MainInv'
  BY <1>1, <1>2 DEF MainInv, Goto, TypeOK
<1> QED BY <1>4, <1>5, <1>6

(* The start of ServerThread::run.                                          *)
LEMMA OwnStep ==
  ASSUME IInv, NEW c \in Conns, OwnOrWait(c)
  PROVE  IInv'
<1> USE DEF IInv
<1>1. TypeOK'
  BY DEF TypeOK, OwnOrWait, OwnConnection, Goto, Holding
<1>2. CASE sock[c] \in children
  <2>1. Goto(c, "waiting") /\ UNCHANGED <<sock, children, fdTable>> /\ pc[c] = "starting"
    BY <1>2 DEF OwnOrWait
  <2>2. /\ "waiting" \in Holding \cup Finished \cup {"unborn", "failed"}
        /\ pc[c] \in Holding
        /\ pc[c] \notin Registered /\ "waiting" \notin Registered
    BY <2>1 DEF Holding, Registered
  <2>3. (RegistryExact /\ SoleOwner /\ OwnConnection)'
    BY <2>1, <2>2, MoveKeeps
  <2>4. MainInv'
    BY <1>2 DEF MainInv, OwnOrWait, Goto, TypeOK, Working
  <2> QED BY <1>1, <2>3, <2>4
<1>3. CASE sock[c] \notin children
  <2>1. /\ pc[c] = "starting" /\ pc' = [pc EXCEPT ![c] = "check"]
        /\ children' = children \cup {sock[c]}
        /\ UNCHANGED <<shutdown, mainPc, sock, fdTable>>
    BY <1>3 DEF OwnOrWait, Goto
  <2>2. {d \in Conns : pc'[d] \in Registered}
          = {d \in Conns : pc[d] \in Registered} \cup {c}
    BY <2>1 DEF TypeOK, Registered
  <2>3. RegistryExact'
    BY <2>1, <2>2 DEF RegistryExact
  <2>4. \A d \in Conns : pc[d] \in Registered => sock[d] # sock[c]
    BY <1>3 DEF RegistryExact
  <2>5. SoleOwner'
    BY <2>1, <2>2, <2>4 DEF SoleOwner
  <2>6. OwnConnection'
    BY <2>1 DEF OwnConnection, TypeOK, Holding
  <2>7. MainInv'
    BY <2>1 DEF MainInv, TypeOK, Working
  <2> QED BY <1>1, <2>3, <2>5, <2>6, <2>7
<1> QED BY <1>2, <1>3

(* The end of ServerThread::run: the worker closes its socket.              *)
LEMMA CloseStep ==
  ASSUME IInv, NEW c \in Conns, JobEnds(c)
  PROVE  IInv'
<1> USE DEF IInv
<1>1. /\ pc[c] \in Registered \cap Holding
      /\ pc' = [pc EXCEPT ![c] = "exiting"]
      /\ fdTable' = [fdTable EXCEPT ![sock[c]] = NoConn]
      /\ UNCHANGED <<shutdown, mainPc, sock, children, peer, inbox>>
  BY DEF JobEnds, Goto, Registered, Holding
<1>2. TypeOK'
  BY <1>1 DEF TypeOK, Finished
<1>3. {d \in Conns : pc'[d] \in Registered} = {d \in Conns : pc[d] \in Registered}
  BY <1>1 DEF TypeOK, Registered
<1>4. (RegistryExact /\ SoleOwner)'
  BY <1>1, <1>3 DEF RegistryExact, SoleOwner
<1>5. OwnConnection'
  <2> SUFFICES ASSUME NEW d \in Conns, pc'[d] \in Holding
               PROVE  sock[d] \in Fds /\ fdTable'[sock[d]] = d
    BY <1>1 DEF OwnConnection
  <2>1. d # c /\ pc[d] \in Holding
    BY <1>1 DEF TypeOK, Holding
  <2>2. /\ fdTable[sock[c]] = c
        /\ sock[d] \in Fds /\ fdTable[sock[d]] = d
    BY <1>1, <2>1 DEF OwnConnection
  <2> QED BY <1>1, <2>1, <2>2 DEF TypeOK
<1>6. MainInv'
  BY <1>1 DEF MainInv, TypeOK, Working
<1> QED BY <1>2, <1>4, <1>5, <1>6

(* ~ServerThread takes the socket out of m_children.                        *)
LEMMA EraseStep ==
  ASSUME IInv, NEW c \in Conns, Erase(c)
  PROVE  IInv'
<1> USE DEF IInv
<1> DEFINE R == {d \in Conns : pc[d] \in Registered}
<1>1. /\ c \in R
      /\ pc' = [pc EXCEPT ![c] = "erased"]
      /\ children' = children \ {sock[c]}
      /\ UNCHANGED <<shutdown, mainPc, sock, fdTable, peer, inbox>>
  BY DEF Erase, Goto, Registered
<1>2. TypeOK'
  BY <1>1 DEF TypeOK, Finished
<1>3. {d \in Conns : pc'[d] \in Registered} = R \ {c}
  BY <1>1 DEF TypeOK, Registered
<1>4. \A d \in R \ {c} : sock[d] # sock[c]
  BY <1>1 DEF SoleOwner
<1>5. {sock[d] : d \in R \ {c}} = {sock[d] : d \in R} \ {sock[c]}
  BY <1>4
<1>6. RegistryExact'
  BY <1>1, <1>3, <1>5 DEF RegistryExact
<1>7. SoleOwner'
  BY <1>1, <1>3 DEF SoleOwner
<1>8. OwnConnection'
  BY <1>1 DEF OwnConnection, TypeOK, Holding
<1>9. MainInv'
  BY <1>1 DEF MainInv, TypeOK, Working
<1> QED BY <1>2, <1>6, <1>7, <1>8, <1>9

(* ~ServerThread signals, or a wait returns on its own: threads that wait   *)
(* test their condition again, and none of them is registered.              *)
LEMMA WakeStep ==
  ASSUME IInv, \/ SpuriousWakeup
               \/ \E c \in Conns : Signal(c)
  PROVE  IInv'
<1> USE DEF IInv
<1>1. UNCHANGED <<shutdown, sock, children, fdTable, peer, inbox>>
  BY DEF SpuriousWakeup, Signal
<1>2. mainPc' = mainPc \/ (mainPc = "waiting" /\ mainPc' = "drain")
  BY DEF SpuriousWakeup, Signal, WakeMain
<1>3. /\ pc' \in [Conns -> {"unborn", "failed"} \cup Holding \cup Finished]
      /\ \A d \in Conns : \/ pc'[d] = pc[d]
                          \/ pc[d] = "erased" /\ pc'[d] = "gone"
                          \/ pc[d] = "waiting" /\ pc'[d] = "starting"
  BY DEF TypeOK, SpuriousWakeup, Signal, WakeMain, WakeWorker, Goto, Holding, Finished
<1>4. TypeOK'
  BY <1>1, <1>2, <1>3 DEF TypeOK
<1>5. {d \in Conns : pc'[d] \in Registered} = {d \in Conns : pc[d] \in Registered}
  BY <1>3 DEF Registered
<1>6. (RegistryExact /\ SoleOwner)'
  BY <1>1, <1>5 DEF RegistryExact, SoleOwner
<1>7. OwnConnection'
  BY <1>1, <1>3 DEF OwnConnection, Holding
<1>8. MainInv'
  BY <1>1, <1>2, <1>3 DEF MainInv, Working
<1> QED BY <1>4, <1>6, <1>7, <1>8

(* Every step of the server and of its clients preserves the invariant.     *)
LEMMA NextIInv == IInv /\ [Next]_vars => IInv'
<1> SUFFICES ASSUME IInv, [Next]_vars PROVE IInv'
  OBVIOUS
<1>1. CASE Main
  BY <1>1, MainStep
<1>2. CASE Terminate
  <2>1. TypeOK'
    BY <1>2 DEF IInv, TypeOK, Terminate
  <2> QED BY <1>2, <2>1 DEF Terminate, IInv, RegistryExact, SoleOwner, OwnConnection, MainInv
<1>3. CASE SpuriousWakeup
  BY <1>3, WakeStep
<1>4. ASSUME NEW c \in Conns, Client(c) PROVE IInv'
  BY <1>4, ClientStep
<1>5. ASSUME NEW c \in Conns, Worker(c) PROVE IInv'
  BY <1>5, LoopStep, OwnStep, CloseStep, EraseStep, WakeStep DEF Worker
<1>6. CASE UNCHANGED vars
  BY <1>6 DEF vars, IInv, TypeOK, RegistryExact, SoleOwner, OwnConnection, MainInv
<1> QED BY <1>1, <1>2, <1>3, <1>4, <1>5, <1>6 DEF Next

(* The inductive invariant holds in every behaviour of the server.          *)
THEOREM Inductive == Spec => []IInv
  BY InitIInv, NextIInv, PTL DEF Spec

(* Every variable stays in its range: SocketListener's state is well formed *)
(* whatever the clients do and whichever system calls fail.                 *)
THEOREM TypeCorrect == Spec => []TypeOK
  BY Inductive, PTL DEF IInv

(* m_children holds the numbers of the registered workers, and no other.    *)
THEOREM RegistrySafe == Spec => []RegistryExact
  BY Inductive, PTL DEF IInv

(* A descriptor number has one registered worker, however it is reused.     *)
THEOREM OwnerSafe == Spec => []SoleOwner
  BY Inductive, PTL DEF IInv

(* A ServerThread only ever reads, writes and closes its own connection,    *)
(* although descriptor numbers are reused between close() and ~ServerThread. *)
THEOREM ConnectionSafe == Spec => []OwnConnection
  BY Inductive, PTL DEF IInv

(* No request is handled once SocketListener::run has returned.             *)
THEOREM ReturnSafe == Spec => []NoJobAfterReturn
<1>1. IInv => NoJobAfterReturn
  BY DEF IInv, MainInv, NoJobAfterReturn
<1> QED BY <1>1, Inductive, PTL

(* A descriptor that is open is the one its connection's worker was given.  *)
GivenInv ==
  \A f \in Fds : fdTable[f] # NoConn =>
    sock[fdTable[f]] = f /\ pc[fdTable[f]] # "unborn"

(* Who was given a descriptor keeps that number, and a worker ends with its *)
(* descriptor open only if a system call fails or the daemon stops.         *)
LEMMA NextNoLeak == IInv /\ GivenInv /\ NoLeak /\ [Next]_vars => GivenInv' /\ NoLeak'
<1> SUFFICES ASSUME IInv, GivenInv, NoLeak, [Next]_vars PROVE GivenInv' /\ NoLeak'
  OBVIOUS
<1>1. TypeOK /\ \A f \in Fds : fdTable[f] \in Conns \cup {NoConn}
  BY DEF IInv, TypeOK
<1>2. CASE \E c \in Conns, f \in Fds, s \in {"starting", "failed"} : AcceptInto(c, f, s)
  <2>1. PICK c \in Conns, f \in Fds, s \in {"starting", "failed"} : AcceptInto(c, f, s)
    BY <1>2
  <2>2. /\ pc'[c] = s /\ sock'[c] = f /\ fdTable'[f] = c /\ pc[c] = "unborn"
        /\ \A d \in Conns \ {c} : pc'[d] = pc[d] /\ sock'[d] = sock[d]
        /\ \A g \in Fds \ {f} : fdTable'[g] = fdTable[g]
        /\ shutdown' = shutdown
    BY <1>1, <2>1 DEF AcceptInto, TypeOK
  <2>3. \A g \in Fds \ {f} : fdTable[g] # NoConn => fdTable[g] \in Conns \ {c}
    BY <1>1, <2>2 DEF GivenInv
  <2> QED BY <2>2, <2>3 DEF GivenInv, NoLeak, Finished
<1>3. CASE \E c \in Conns : JobEnds(c)
  <2>1. PICK c \in Conns : JobEnds(c)
    BY <1>3
  <2>2. /\ pc'[c] = "exiting" /\ UNCHANGED <<sock, shutdown>>
        /\ \A d \in Conns \ {c} : pc'[d] = pc[d]
        /\ \A g \in Fds : fdTable'[g] = IF g = sock[c] THEN NoConn ELSE fdTable[g]
    BY <1>1, <2>1 DEF JobEnds, Goto, TypeOK
  <2>3. \A g \in Fds : fdTable'[g] # NoConn =>
          fdTable'[g] = fdTable[g] /\ fdTable[g] \in Conns \ {c}
    BY <1>1, <2>2 DEF GivenInv
  <2> QED BY <2>2, <2>3 DEF GivenInv, NoLeak
<1>4. CASE ~(\/ \E c \in Conns, f \in Fds, s \in {"starting", "failed"} : AcceptInto(c, f, s)
             \/ \E c \in Conns : JobEnds(c))
  <2>1. UNCHANGED <<sock, fdTable>> /\ (shutdown => shutdown')
    BY <1>4 DEF Next, Main, Client, Worker, vars, Connect, SendLength, SendBody, HangUp, Terminate,
       MainCheck, MainContinue, MainSelectError, Accept, AcceptNoThread, Drain, OwnOrWait,
       WorkerCheck, WorkerSelect, WorkerSelectError, ReadMessage, Dispatch, SendReply, Erase,
       Signal, SpuriousWakeup
  <2>2. ASSUME NEW d \in Conns
        PROVE  /\ pc[d] # "unborn" => pc'[d] # "unborn"
               /\ Faults = {} /\ ~shutdown /\ pc[d] \notin Finished => pc'[d] \notin Finished
    <3>1. CASE UNCHANGED pc
      BY <3>1
    <3>2. CASE SpuriousWakeup \/ \E c \in Conns : Signal(c)
      BY <1>1, <3>2 DEF SpuriousWakeup, Signal, WakeMain, WakeWorker, Goto, TypeOK, Finished
    <3>3. CASE \E c \in Conns : \/ OwnOrWait(c) \/ WorkerCheck(c) \/ WorkerSelect(c)
                                \/ WorkerSelectError(c) \/ ReadMessage(c) \/ Dispatch(c)
                                \/ SendReply(c) \/ Erase(c)
      BY <1>1, <3>3 DEF OwnOrWait, WorkerCheck, WorkerSelect, WorkerSelectError, ReadMessage,
         Dispatch, SendReply, Erase, Goto, TypeOK, Finished
    <3> QED
      BY <1>4, <3>1, <3>2, <3>3 DEF Next, Main, Client, Worker, vars, Connect, SendLength,
         SendBody, HangUp, Terminate, MainCheck, MainContinue, MainSelectError, Accept,
         AcceptNoThread, Drain
  <2> QED BY <1>1, <2>1, <2>2 DEF GivenInv, NoLeak
<1> QED BY <1>2, <1>3, <1>4

(* While the daemon runs and no system call fails, nobody ends without      *)
(* closing the connection's descriptor.                                     *)
THEOREM LeakSafe == Spec => []NoLeak
<1>1. Init => GivenInv /\ NoLeak
  BY DEF Init, GivenInv, NoLeak
<1> QED BY <1>1, Inductive, NextNoLeak, PTL DEF Spec
=============================================================================
