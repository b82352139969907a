-------------------------- MODULE RemoteCallProofs --------------------------
(***************************************************************************)
(* Proofs about RemoteCall for any calls, sockets, numbers of attempts and  *)
(* stops of pepd, with and without signals.  The invariant follows an       *)
(* exchange through its phases: at any moment the request is on its way, or *)
(* the worker has it, or the reply is on its way, or the daemon is gone.    *)
(***************************************************************************)
EXTENDS RestartHistory, SequenceTheorems, TLAPS

Length(c) == [part |-> "length", call |-> c]
Body(c) == [part |-> "body", call |-> c]

(* Nothing is on its way on a socket and its worker waits for a request.    *)
AtRest(s) == toServer[s] = <<>> /\ toClient[s] = <<>> /\ jobPc[s] = "idle"

(* The request is not read yet.                                             *)
Requested(c, s) ==
  /\ toServer[s] = <<c>> /\ toClient[s] = <<>> /\ jobPc[s] = "idle"
  /\ pc[c] = "length" /\ handled[c] = 0

(* The worker has it: it is going to handle it, to send the length of the   *)
(* reply, to send the reply, which the client is waiting for.               *)
Working(c, s) ==
  /\ toServer[s] = <<>> /\ serverEnd[s] = "open" /\ job[s] = c
  /\ \/ /\ jobPc[s] = "dispatch" /\ handled[c] = 0
        /\ pc[c] = "length" /\ toClient[s] = <<>>
     \/ /\ jobPc[s] = "length" /\ handled[c] = 1
        /\ pc[c] = "length" /\ toClient[s] = <<>>
     \/ /\ jobPc[s] = "body" /\ handled[c] = 1
        /\ \/ pc[c] = "length" /\ toClient[s] = <<Length(c)>>
           \/ pc[c] = "body" /\ toClient[s] = <<>>

(* The whole reply, or what is left of it, can be read.                     *)
Answered(c, s) ==
  /\ toServer[s] = <<>> /\ jobPc[s] = "idle" /\ handled[c] = 1
  /\ \/ pc[c] = "length" /\ toClient[s] = <<Length(c), Body(c)>>
     \/ pc[c] = "body" /\ toClient[s] = <<Body(c)>>

(* The daemon has stopped before the reply was complete.                    *)
Broken(c, s) ==
  /\ toServer[s] = <<>> /\ jobPc[s] = "idle" /\ serverEnd[s] = "closed"
  /\ \/ pc[c] = "length" /\ toClient[s] = <<>> /\ handled[c] \in {0, 1}
     \/ pc[c] = "length" /\ toClient[s] = <<Length(c)>> /\ handled[c] = 1
     \/ pc[c] = "body" /\ toClient[s] = <<>> /\ handled[c] = 1

(* What a call knows of its socket, and how far its message has come.       *)
CallInv(c) ==
  /\ pc[c] \in Holding <=> sock[c] # NoSock
  /\ pc[c] \in Holding => clientEnd[sock[c]] = "open"
  /\ pc[c] \in {"idle", "get", "connect", "send"} => handled[c] = 0
  /\ pc[c] = "connect" =>
       AtRest(sock[c]) /\ serverEnd[sock[c]] = "closed" /\ tries[c] # 0
  /\ pc[c] = "send" => AtRest(sock[c])
  /\ pc[c] \in {"length", "body"} =>
       \/ Requested(c, sock[c]) \/ Working(c, sock[c])
       \/ Answered(c, sock[c]) \/ Broken(c, sock[c])
  /\ pc[c] \in {"returned", "raised"} =>
       answer[c] = c /\ handled[c] = 1 /\ (pc[c] = "raised" <=> c \in Throws)
  /\ pc[c] = "failed" => handled[c] \in {0, 1}

(* No two calls hold the same socket.                                       *)
Unshared == \A c, d \in Calls : sock[c] = sock[d] /\ sock[c] # NoSock => c = d

(* A pooled socket is in the pool once, nobody's, open and at rest.         *)
PoolInv ==
  /\ \A i, j \in DOMAIN pool : pool[i] = pool[j] => i = j
  /\ \A i \in DOMAIN pool :
       /\ \A c \in Calls : sock[c] # pool[i]
       /\ clientEnd[pool[i]] = "open"
       /\ AtRest(pool[i])

(* A worker has a request only for the call that holds its socket and waits, *)
(* or for one whose process has ended.                                      *)
WorkerInv(s) ==
  /\ jobPc[s] # "idle" =>
       /\ serverEnd[s] = "open" /\ job[s] \in Calls
       /\ \/ sock[job[s]] = s /\ pc[job[s]] \in {"length", "body"}
          \/ pc[job[s]] = "lost" /\ clientEnd[s] = "closed" /\ toServer[s] = <<>>
  /\ serverEnd[s] = "open" /\ toServer[s] # <<>> =>
       \/ \E c \in Calls : sock[c] = s /\ pc[c] = "length"
       \/ /\ clientEnd[s] = "closed" /\ jobPc[s] = "idle"
          /\ \E c \in Calls : pc[c] = "lost" /\ toServer[s] = <<c>>

(* The request is still going to be handled by the worker of s.             *)
Pending(c, s) ==
  /\ serverEnd[s] = "open"
  /\ toServer[s] = <<c>> \/ (jobPc[s] = "dispatch" /\ job[s] = c)

(* What a call whose process has ended leaves behind: its request is on one  *)
(* socket at most, and nowhere if it has been handled.                      *)
OrphanInv(c) ==
  pc[c] = "lost" =>
    /\ handled[c] \in {0, 1}
    /\ \A s \in Socks : Pending(c, s) => handled[c] = 0
    /\ \A s, t \in Socks : Pending(c, s) /\ Pending(c, t) => s = t

IInv ==
  /\ TypeOK /\ Unshared /\ PoolInv
  /\ \A c \in Calls : CallInv(c) /\ OrphanInv(c)
  /\ \A s \in Socks : WorkerInv(s)

-----------------------------------------------------------------------------
(* The sequences of at most two parts that occur on a socket.               *)
LEMMA Messages ==
  ASSUME NEW c \in Calls
  PROVE  /\ Length(c) \in Parts /\ Body(c) \in Parts
         /\ Length(c).call = c /\ Body(c).call = c
         /\ <<c>> \in Seq(Calls) /\ <<c>> # <<>> /\ \A d \in Calls : <<d>> = <<c>> => d = c
         /\ Append(<<>>, c) = <<c>> /\ Head(<<c>>) = c /\ Tail(<<c>>) = <<>>
         /\ Append(<<>>, Length(c)) = <<Length(c)>>
         /\ Append(<<Length(c)>>, Body(c)) = <<Length(c), Body(c)>>
         /\ Append(<<>>, Body(c)) = <<Body(c)>>
         /\ Tail(<<Length(c), Body(c)>>) = <<Body(c)>>
         /\ Tail(<<Length(c)>>) = <<>> /\ Tail(<<Body(c)>>) = <<>>
         /\ Head(<<Body(c)>>) = Body(c)
         /\ <<Length(c), Body(c)>> # <<>> /\ <<Length(c)>> # <<>> /\ <<Body(c)>> # <<>>
<1>1. /\ Length(c) \in Parts /\ Body(c) \in Parts
      /\ Length(c).call = c /\ Body(c).call = c
  BY DEF Length, Body, Parts
<1>2. ASSUME NEW S, NEW a \in S
      PROVE  /\ <<a>> \in Seq(S) /\ <<a>> # <<>> /\ Head(<<a>>) = a
             /\ Append(<<>>, a) = <<a>>
  OBVIOUS
<1>3. ASSUME NEW S, NEW a \in S
      PROVE  Tail(<<a>>) = <<>>
  OBVIOUS
<1>4. ASSUME NEW S, NEW a \in S, NEW b \in S
      PROVE  Append(<<a>>, b) = <<a, b>> /\ <<a, b>> # <<>>
  <2>1. <<a>> \in Seq(S) /\ <<a, b>> \in Seq(S) /\ Len(<<a>>) = 1 /\ Len(<<a, b>>) = 2
    BY <1>4
  <2>2. Append(<<a>>, b)[1] = a /\ Append(<<a>>, b)[2] = b
    BY <1>4, <2>1, AppendProperties
  <2>3. Append(<<a>>, b) \in Seq(S) /\ Len(Append(<<a>>, b)) = 2
    BY <1>4, <2>1, AppendProperties
  <2>4. \A i \in 1..2 : Append(<<a>>, b)[i] = <<a, b>>[i]
    BY <2>2
  <2>5. Append(<<a>>, b) = <<a, b>>
    BY <2>1, <2>3, <2>4, SeqEqual
  <2> QED BY <2>1, <2>5
<1>5. ASSUME NEW S, NEW a \in S, NEW b \in S
      PROVE  Tail(<<a, b>>) = <<b>>
  <2>1. Tail(Append(<<a>>, b)) = Append(Tail(<<a>>), b)
    BY <1>2, <1>5, HeadTailAppend
  <2> QED BY <1>2, <1>3, <1>4, <1>5, <2>1
<1> QED BY <1>1, <1>2, <1>3, <1>4, <1>5, Zenon

(* Nobody is calling and nothing is open at the beginning.                  *)
LEMMA InitIInv == Init => IInv
<1> SUFFICES ASSUME Init PROVE IInv
  OBVIOUS
<1>1. TypeOK
  <2>1. \A S : <<>> \in Seq(S)
    BY EmptySeq
  <2> QED BY <2>1, CallAssumption DEF Init, TypeOK, CallAssumption
<1>2. Unshared /\ PoolInv
  BY DEF Init, Unshared, PoolInv
<1>3. \A c \in Calls : CallInv(c) /\ OrphanInv(c)
  BY DEF Init, CallInv, OrphanInv, Holding
<1>4. \A s \in Socks : WorkerInv(s)
  BY DEF Init, WorkerInv
<1> QED BY <1>1, <1>2, <1>3, <1>4 DEF IInv

(* What another call does with another socket leaves a call's phase alone.  *)
LEMMA CallKeeps ==
  ASSUME NEW d \in Calls, CallInv(d),
         pc'[d] = pc[d], sock'[d] = sock[d], handled'[d] = handled[d],
         answer'[d] = answer[d], tries'[d] = tries[d],
         sock[d] # NoSock =>
           /\ clientEnd'[sock[d]] = clientEnd[sock[d]]
           /\ serverEnd'[sock[d]] = serverEnd[sock[d]]
           /\ toServer'[sock[d]] = toServer[sock[d]]
           /\ toClient'[sock[d]] = toClient[sock[d]]
           /\ jobPc'[sock[d]] = jobPc[sock[d]]
           /\ job'[sock[d]] = job[sock[d]]
  PROVE  CallInv(d)'
<1>1. CASE pc[d] \in Holding
  <2>1. sock[d] # NoSock
    BY <1>1 DEF CallInv
  <2>2. /\ AtRest(sock[d])' <=> AtRest(sock[d])
        /\ Requested(d, sock[d])' <=> Requested(d, sock[d])
        /\ Working(d, sock[d])' <=> Working(d, sock[d])
        /\ Answered(d, sock[d])' <=> Answered(d, sock[d])
        /\ Broken(d, sock[d])' <=> Broken(d, sock[d])
    BY <2>1 DEF AtRest, Requested, Working, Answered, Broken
  <2> QED BY <1>1, <2>1, <2>2 DEF CallInv, Holding
<1>2. CASE pc[d] \notin Holding
  BY <1>2 DEF CallInv, Holding
<1> QED BY <1>1, <1>2

(* So does a socket's worker, if the socket's holder stays where it is.      *)
LEMMA WorkerKeeps ==
  ASSUME NEW t \in Socks, WorkerInv(t),
         serverEnd'[t] = serverEnd[t], toServer'[t] = toServer[t],
         jobPc'[t] = jobPc[t], job'[t] = job[t], clientEnd'[t] = clientEnd[t],
         \A c \in Calls : sock[c] = t => sock'[c] = t /\ pc'[c] = pc[c],
         \A c \in Calls : pc[c] = "lost" => pc'[c] = "lost"
  PROVE  WorkerInv(t)'
  BY DEF WorkerInv

(* And what is left of a call whose process has ended.                      *)
LEMMA OrphanKeeps ==
  ASSUME NEW d \in Calls, OrphanInv(d), pc'[d] = pc[d], handled'[d] = handled[d],
         \A t \in Socks : Pending(d, t)' => Pending(d, t)
  PROVE  OrphanInv(d)'
  BY DEF OrphanInv

(* A step that concerns one call c and one socket s, which is c's or        *)
(* nobody's, keeps the invariant if it keeps what is said of c and s.        *)
LEMMA OneExchange ==
  ASSUME IInv, NEW c \in Calls, NEW s \in Socks \cup {NoSock},
         TypeOK', Unshared', PoolInv',
         \A d \in Calls \ {c} :
           /\ pc'[d] = pc[d] /\ sock'[d] = sock[d] /\ handled'[d] = handled[d]
           /\ answer'[d] = answer[d] /\ tries'[d] = tries[d]
           /\ sock[d] # s \/ s = NoSock,
         \A t \in Socks \ {s} :
           /\ clientEnd'[t] = clientEnd[t] /\ serverEnd'[t] = serverEnd[t]
           /\ toServer'[t] = toServer[t] /\ toClient'[t] = toClient[t]
           /\ jobPc'[t] = jobPc[t] /\ job'[t] = job[t],
         sock[c] \in {NoSock, s}, pc[c] # "lost", pc'[c] # "lost",
         s # NoSock => \A d \in Calls \ {c} : Pending(d, s)' => Pending(d, s),
         CallInv(c)', s # NoSock => WorkerInv(s)'
  PROVE  IInv'
<1>1. \A d \in Calls : sock[d] \in Socks \cup {NoSock}
  BY DEF IInv, TypeOK
<1>2. ASSUME NEW d \in Calls \ {c} PROVE CallInv(d)' /\ OrphanInv(d)'
  <2>1. sock[d] # NoSock => sock[d] \in Socks \ {s}
    BY <1>1
  <2>2. \A t \in Socks : Pending(d, t)' => Pending(d, t)
    <3>1. \A t \in Socks \ {s} : Pending(d, t)' => Pending(d, t)
      BY DEF Pending
    <3> QED BY <3>1, CallAssumption DEF CallAssumption
  <2>3. CallInv(d)'
    BY <2>1, CallKeeps DEF IInv
  <2> QED BY <2>2, <2>3, OrphanKeeps DEF IInv
<1>3. ASSUME NEW t \in Socks, t # s PROVE WorkerInv(t)'
  <2>1. \A d \in Calls : sock[d] = t => d # c
    BY <1>3, CallAssumption DEF CallAssumption
  <2>2. \A d \in Calls : pc[d] = "lost" => pc'[d] = "lost"
    OBVIOUS
  <2> QED BY <1>3, <2>1, <2>2, WorkerKeeps DEF IInv
<1>4. OrphanInv(c)'
  BY DEF OrphanInv
<1> QED BY <1>2, <1>3, <1>4, CallAssumption DEF IInv, CallAssumption

(* The pool stays clean if it and its sockets are left alone, and no call    *)
(* gets one of them.                                                         *)
LEMMA PoolKeeps ==
  ASSUME IInv, pool' = pool,
         \A c \in Calls, i \in DOMAIN pool : sock'[c] # pool[i],
         \A i \in DOMAIN pool :
           /\ clientEnd'[pool[i]] = clientEnd[pool[i]]
           /\ toServer'[pool[i]] = toServer[pool[i]]
           /\ toClient'[pool[i]] = toClient[pool[i]]
           /\ jobPc'[pool[i]] = jobPc[pool[i]]
  PROVE  PoolInv'
  BY DEF IInv, PoolInv, AtRest

(* The sockets of the pool are sockets.                                      *)
LEMMA PoolSocks ==
  ASSUME IInv
  PROVE  /\ DOMAIN pool = 1..Len(pool) /\ Len(pool) \in Nat
         /\ \A i \in DOMAIN pool : pool[i] \in Socks
  BY LenProperties, ElementOfSeq DEF IInv, TypeOK

-----------------------------------------------------------------------------
(* A call begins, is interrupted, or finds no descriptor left.               *)
LEMMA AloneIInv ==
  ASSUME IInv, NEW c \in Calls, Invoke(c) \/ Interrupted(c) \/ GetFails(c)
  PROVE  IInv'
<1> USE DEF Invoke, Interrupted, GetFails, Goto, wire, server, Holding
<1>1. TypeOK /\ CallInv(c) /\ sock[c] \in Socks \cup {NoSock}
  BY DEF IInv, TypeOK
<1>2. TypeOK'
  <2>1. CASE Invoke(c)
    BY <1>1, <2>1 DEF TypeOK
  <2>2. CASE Interrupted(c)
    BY <1>1, <2>2 DEF TypeOK
  <2>3. CASE GetFails(c)
    BY <1>1, <2>3 DEF TypeOK, Ended
  <2> QED BY <2>1, <2>2, <2>3
<1>3. /\ UNCHANGED <<sock, pool, clientEnd, serverEnd, toServer, toClient, jobPc, job,
                     handled, answer, tries>>
      /\ \A d \in Calls \ {c} : pc'[d] = pc[d]
  BY <1>1 DEF TypeOK
<1>4. Unshared' /\ PoolInv'
  BY <1>3, PoolKeeps DEF IInv, Unshared, PoolInv
<1>5. CASE Interrupted(c)
  <2>1. pc' = pc
    BY <1>5
  <2>2. CallInv(c)'
    BY <1>1, <1>3, <2>1, CallKeeps
  <2>3. \A s \in Socks : WorkerInv(s)'
    BY <1>3, <2>1, WorkerKeeps DEF IInv
  <2>4. \A d \in Calls \ {c} : sock[d] # sock[c] \/ sock[c] = NoSock
    BY DEF IInv, Unshared
  <2>5. \A d \in Calls : OrphanInv(d)'
    BY <1>3, <2>1, OrphanKeeps DEF IInv, Pending
  <2>6. \A d \in Calls : CallInv(d)'
    BY <1>3, <2>1, CallKeeps DEF IInv
  <2> QED BY <1>2, <1>4, <2>3, <2>5, <2>6 DEF IInv
<1>6. CASE Invoke(c) \/ GetFails(c)
  <2>1. sock[c] = NoSock
    BY <1>1, <1>6 DEF CallInv
  <2>2. \/ pc[c] = "idle" /\ pc'[c] = "get"
        \/ pc[c] = "get" /\ pc'[c] = "failed"
    BY <1>1, <1>6 DEF TypeOK
  <2>3. CallInv(c)'
    BY <1>1, <1>3, <2>1, <2>2 DEF CallInv
  <2>4. pc[c] # "lost" /\ pc'[c] # "lost"
    BY <2>2
  <2> QED BY <1>1, <1>2, <1>3, <1>4, <2>1, <2>3, <2>4, OneExchange
<1> QED BY <1>5, <1>6

(* A call takes a socket from the pool.                                      *)
LEMMA GetPooledIInv ==
  ASSUME IInv, NEW c \in Calls, GetPooled(c)
  PROVE  IInv'
<1> USE DEF GetPooled, Goto, wire, server, Holding
<1>1. TypeOK /\ CallInv(c) /\ sock[c] = NoSock
  BY DEF IInv, CallInv
<1>2. /\ pool \in Seq(Socks) /\ pool # <<>> /\ Len(pool) \in Nat \ {0}
      /\ DOMAIN pool = 1..Len(pool)
  BY <1>1, EmptySeq, LenProperties DEF TypeOK
<1>3. PICK s \in Socks : s = Last(pool) /\ s = pool[Len(pool)] /\ Len(pool) \in DOMAIN pool
  BY <1>2, PoolSocks DEF Last
<1>4. /\ Front(pool) \in Seq(Socks)
      /\ DOMAIN Front(pool) = 1..(Len(pool) - 1)
      /\ \A i \in 1..(Len(pool) - 1) : Front(pool)[i] = pool[i]
  <2>1. \A i \in 1..(Len(pool) - 1) : pool[i] \in Socks
    BY <1>2, PoolSocks
  <2> QED BY <1>2, <2>1, SubSeqProperties, LenProperties DEF Front
<1>5. /\ UNCHANGED <<clientEnd, serverEnd, toServer, toClient, jobPc, job, handled, answer,
                     tries>>
      /\ \A d \in Calls \ {c} : pc'[d] = pc[d] /\ sock'[d] = sock[d]
      /\ pc'[c] = "send" /\ sock'[c] = s /\ pc[c] = "get" /\ pool' = Front(pool)
  BY <1>1, <1>3 DEF TypeOK
<1>6. TypeOK'
  BY <1>1, <1>3, <1>4 DEF TypeOK, Ended
<1>7. \A d \in Calls : sock[d] # s
  BY <1>3 DEF IInv, PoolInv
<1>8. Unshared'
  BY <1>5, <1>7 DEF IInv, Unshared
<1>9. PoolInv'
  <2>1. \A i \in DOMAIN pool' : i \in DOMAIN pool /\ pool'[i] = pool[i] /\ i # Len(pool)
    BY <1>2, <1>4, <1>5
  <2>2. \A i \in DOMAIN pool' : pool[i] # s
    BY <1>3, <2>1 DEF IInv, PoolInv
  <2>3. \A i \in DOMAIN pool' : \A d \in Calls : sock'[d] # pool'[i]
    BY <1>5, <2>1, <2>2 DEF IInv, PoolInv
  <2> QED BY <1>5, <2>1, <2>3 DEF IInv, PoolInv, AtRest
<1>10. CallInv(c)'
  BY <1>1, <1>3, <1>5, CallAssumption
  DEF IInv, PoolInv, CallInv, AtRest, CallAssumption
<1>11. WorkerInv(s)'
  BY <1>3, <1>5, <1>7, WorkerKeeps DEF IInv
<1>12. \A d \in Calls : Pending(d, s)' => Pending(d, s)
  BY <1>5 DEF Pending
<1> QED
  BY <1>1, <1>3, <1>5, <1>6, <1>7, <1>8, <1>9, <1>10, <1>11, <1>12, OneExchange

(* A call makes a socket.                                                    *)
LEMMA GetNewIInv ==
  ASSUME IInv, NEW c \in Calls, NEW s \in Socks, GetNew(c, s)
  PROVE  IInv'
<1> USE DEF GetNew, Free, Goto, server, Holding
<1>1. TypeOK /\ CallInv(c) /\ sock[c] = NoSock /\ WorkerInv(s)
  BY DEF IInv, CallInv
<1>2. /\ UNCHANGED <<serverEnd, jobPc, job, handled, answer, pool>>
      /\ \A d \in Calls \ {c} :
           pc'[d] = pc[d] /\ sock'[d] = sock[d] /\ tries'[d] = tries[d]
      /\ tries'[c] # 0
      /\ pc'[c] = "connect" /\ sock'[c] = s /\ pc[c] = "get" /\ pool = <<>>
  BY <1>1, CallAssumption DEF TypeOK, CallAssumption
<1>3. /\ \A t \in Socks \ {s} : /\ clientEnd'[t] = clientEnd[t]
                                /\ toServer'[t] = toServer[t] /\ toClient'[t] = toClient[t]
      /\ clientEnd'[s] = "open" /\ toServer'[s] = <<>> /\ toClient'[s] = <<>>
      /\ clientEnd[s] = "closed" /\ serverEnd[s] = "closed"
  BY <1>1 DEF TypeOK
<1>4. TypeOK'
  <2>1. <<>> \in Seq(Calls) /\ <<>> \in Seq(Parts)
    BY EmptySeq
  <2> QED BY <1>1, <2>1, CallAssumption DEF TypeOK, Ended, CallAssumption
<1>5. ASSUME NEW d \in Calls PROVE sock[d] # s
  <2>1. s # NoSock /\ CallInv(d)
    BY CallAssumption DEF IInv, CallAssumption
  <2> QED BY <1>3, <2>1 DEF CallInv
<1>6. Unshared'
  BY <1>2, <1>5 DEF IInv, Unshared
<1>7. PoolInv'
  BY <1>2 DEF PoolInv
<1>8. jobPc[s] = "idle"
  BY <1>1, <1>3 DEF WorkerInv
<1>9. CallInv(c)'
  BY <1>1, <1>2, <1>3, <1>8, CallAssumption DEF CallInv, AtRest, CallAssumption
<1>10. WorkerInv(s)'
  BY <1>2, <1>3, <1>8 DEF WorkerInv
<1>11. \A d \in Calls : ~Pending(d, s)'
  BY <1>2, <1>3 DEF Pending
<1> QED
  BY <1>1, <1>2, <1>3, <1>4, <1>5, <1>6, <1>7, <1>9, <1>10, <1>11, OneExchange

-----------------------------------------------------------------------------
(* What a call that holds a socket knows of it.                              *)
LEMMA Holder ==
  ASSUME IInv, NEW c \in Calls, pc[c] \in Holding
  PROVE  /\ sock[c] \in Socks /\ sock[c] # NoSock /\ clientEnd[sock[c]] = "open"
         /\ \A d \in Calls \ {c} : sock[d] # sock[c]
         /\ \A i \in DOMAIN pool : pool[i] # sock[c]
         /\ serverEnd[sock[c]] = "closed" => jobPc[sock[c]] = "idle"
<1>1. CallInv(c) /\ sock[c] \in Socks /\ sock[c] # NoSock
  BY CallAssumption DEF IInv, TypeOK, CallInv, CallAssumption
<1>2. serverEnd[sock[c]] = "closed" => jobPc[sock[c]] = "idle"
  BY <1>1 DEF CallInv, Holding, AtRest, Requested, Working, Answered, Broken
<1> QED BY <1>1, <1>2 DEF IInv, CallInv, Unshared, PoolInv

(* A step of an exchange on the socket s of a call c, by either end.         *)
LEMMA ExchangeKeeps ==
  ASSUME IInv, NEW c \in Calls, NEW s \in Socks, pc[c] \in Holding, sock[c] = s,
         TypeOK', UNCHANGED <<sock, pool>>, clientEnd'[s] = clientEnd[s],
         \A d \in Calls \ {c} :
           /\ pc'[d] = pc[d] /\ handled'[d] = handled[d]
           /\ answer'[d] = answer[d] /\ tries'[d] = tries[d],
         \A t \in Socks \ {s} :
           /\ clientEnd'[t] = clientEnd[t] /\ serverEnd'[t] = serverEnd[t]
           /\ toServer'[t] = toServer[t] /\ toClient'[t] = toClient[t]
           /\ jobPc'[t] = jobPc[t] /\ job'[t] = job[t],
         pc'[c] # "lost", \A d \in Calls \ {c} : Pending(d, s)' => Pending(d, s),
         CallInv(c)', WorkerInv(s)'
  PROVE  IInv'
<1>1. /\ \A d \in Calls \ {c} : sock[d] # s
      /\ \A i \in DOMAIN pool : pool[i] # s
  BY Holder
<1>2. Unshared'
  BY DEF IInv, Unshared
<1>3. PoolInv'
  <2>1. \A i \in DOMAIN pool : pool[i] \in Socks \ {s}
    BY <1>1, PoolSocks
  <2>2. \A d \in Calls, i \in DOMAIN pool : sock'[d] # pool[i]
    BY DEF IInv, PoolInv
  <2> QED BY <2>1, <2>2, PoolKeeps
<1> QED BY <1>1, <1>2, <1>3, OneExchange DEF Holding

(* The call's connection is accepted.                                        *)
LEMMA ConnectedIInv ==
  ASSUME IInv, NEW c \in Calls, Connected(c)
  PROVE  IInv'
<1> USE DEF Connected, Goto, server, Holding
<1>1. TypeOK /\ CallInv(c)
  BY DEF IInv
<1>2. PICK s \in Socks : s = sock[c] /\ s # NoSock
  BY Holder
<1>3. TypeOK'
  BY <1>1, <1>2 DEF TypeOK, Ended
<1>4. AtRest(s) /\ handled[c] = 0
  BY <1>1, <1>2 DEF CallInv
<1>5. /\ pc'[c] = "send" /\ serverEnd'[s] = "open"
      /\ UNCHANGED <<sock, pool, clientEnd, toServer, toClient, jobPc, job, handled, answer,
                     tries>>
      /\ \A d \in Calls \ {c} : pc'[d] = pc[d]
      /\ \A t \in Socks \ {s} : serverEnd'[t] = serverEnd[t]
  BY <1>1, <1>2 DEF TypeOK
<1>6. CallInv(c)'
  BY <1>1, <1>2, <1>4, <1>5 DEF CallInv, AtRest
<1>7. WorkerInv(s)'
  BY <1>4, <1>5 DEF WorkerInv, AtRest
<1>8. \A d \in Calls : ~Pending(d, s)'
  BY <1>4, <1>5, Messages DEF Pending, AtRest
<1> QED BY <1>2, <1>3, <1>5, <1>6, <1>7, <1>8, ExchangeKeeps

(* The call sends its request.                                               *)
LEMMA SendIInv ==
  ASSUME IInv, NEW c \in Calls, Send(c)
  PROVE  IInv'
<1> USE DEF Send, Goto, server, Holding
<1>1. TypeOK /\ CallInv(c)
  BY DEF IInv
<1>2. PICK s \in Socks : s = sock[c] /\ s # NoSock
  BY Holder
<1>3. AtRest(s) /\ handled[c] = 0
  BY <1>1, <1>2 DEF CallInv
<1>4. /\ pc'[c] = "length" /\ toServer'[s] = <<c>>
      /\ UNCHANGED <<sock, pool, clientEnd, serverEnd, toClient, jobPc, job, handled, answer,
                     tries>>
      /\ \A d \in Calls \ {c} : pc'[d] = pc[d]
      /\ \A t \in Socks \ {s} : toServer'[t] = toServer[t]
  BY <1>1, <1>2, <1>3, Messages DEF TypeOK, AtRest
<1>5. TypeOK'
  <2>1. toServer' \in [Socks -> Seq(Calls)]
    BY <1>1, <1>2, <1>4, Messages DEF TypeOK
  <2> QED BY <1>1, <2>1 DEF TypeOK, Ended
<1>6. Requested(c, s)'
  BY <1>3, <1>4 DEF Requested, AtRest
<1>7. CallInv(c)'
  BY <1>1, <1>2, <1>4, <1>6 DEF CallInv
<1>8. WorkerInv(s)'
  BY <1>2, <1>3, <1>4 DEF WorkerInv, AtRest
<1>9. \A d \in Calls \ {c} : ~Pending(d, s)'
  BY <1>3, <1>4, Messages DEF Pending, AtRest
<1> QED BY <1>2, <1>4, <1>5, <1>7, <1>8, <1>9, ExchangeKeeps

(* The call reads the length of its reply.                                   *)
LEMMA RecvLengthIInv ==
  ASSUME IInv, NEW c \in Calls, RecvLength(c)
  PROVE  IInv'
<1> USE DEF RecvLength, Goto, server, Holding
<1>1. TypeOK /\ CallInv(c)
  BY DEF IInv
<1>2. PICK s \in Socks : s = sock[c] /\ s # NoSock
  BY Holder
<1>3. /\ pc[c] = "length" /\ toClient[s] # <<>> /\ handled[c] = 1 /\ toServer[s] = <<>>
      /\ \/ toClient[s] = <<Length(c)>> /\ (Working(c, s) \/ Broken(c, s))
         \/ toClient[s] = <<Length(c), Body(c)>> /\ Answered(c, s)
  BY <1>1, <1>2 DEF CallInv, Requested, Working, Answered, Broken
<1>4. /\ pc'[c] = "body" /\ toClient'[s] = Tail(toClient[s])
      /\ UNCHANGED <<sock, pool, clientEnd, serverEnd, toServer, jobPc, job, handled, answer,
                     tries>>
      /\ \A d \in Calls \ {c} : pc'[d] = pc[d]
      /\ \A t \in Socks \ {s} : toClient'[t] = toClient[t]
  BY <1>1, <1>2 DEF TypeOK
<1>5. toClient'[s] = IF toClient[s] = <<Length(c)>> THEN <<>> ELSE <<Body(c)>>
  BY <1>3, <1>4, Messages
<1>6. TypeOK'
  <2>1. toClient' \in [Socks -> Seq(Parts)]
    <3>1. Tail(toClient[s]) \in Seq(Parts)
      BY <1>1, <1>3, HeadTailProperties DEF TypeOK
    <3> QED BY <1>1, <1>2, <3>1 DEF TypeOK
  <2> QED BY <1>1, <2>1 DEF TypeOK, Ended
<1>7. Working(c, s)' \/ Answered(c, s)' \/ Broken(c, s)'
  <2>1. CASE toClient[s] = <<Length(c)>> /\ Working(c, s)
    BY <1>3, <1>4, <1>5, <2>1, Messages DEF Working
  <2>2. CASE toClient[s] = <<Length(c)>> /\ Broken(c, s)
    BY <1>3, <1>4, <1>5, <2>2 DEF Broken
  <2>3. CASE toClient[s] = <<Length(c), Body(c)>> /\ Answered(c, s)
    <3>1. toClient[s] # <<Length(c)>>
      BY <1>3, <2>3, Messages
    <3> QED BY <1>3, <1>4, <1>5, <2>3, <3>1 DEF Answered
  <2> QED BY <1>3, <2>1, <2>2, <2>3
<1>8. CallInv(c)'
  BY <1>1, <1>2, <1>3, <1>4, <1>7 DEF CallInv
<1>9. WorkerInv(s)'
  BY <1>1, <1>2, <1>3, <1>4 DEF WorkerInv, Working, Answered, Broken
<1>10. \A d \in Calls : Pending(d, s)' => Pending(d, s)
  BY <1>4 DEF Pending
<1> QED BY <1>2, <1>3, <1>4, <1>6, <1>8, <1>9, <1>10, ExchangeKeeps

(* A call that closes its socket because the daemon's end is closed.         *)
LEMMA CloseKeeps ==
  ASSUME IInv, NEW c \in Calls, pc[c] \in Holding, serverEnd[sock[c]] = "closed",
         NEW state \in {"get", "failed"}, CloseAndGo(c, state),
         state = "get" => handled[c] = 0,
         UNCHANGED <<answer, pool, serverEnd, toServer, toClient, server>>,
         \A d \in Calls \ {c} : tries'[d] = tries[d],
         TypeOK'
  PROVE  IInv'
<1> USE DEF CloseAndGo, Goto, server, Holding
<1>1. TypeOK /\ CallInv(c)
  BY DEF IInv
<1>2. PICK s \in Socks : s = sock[c] /\ s # NoSock
  BY Holder
<1>3. /\ \A d \in Calls \ {c} : sock[d] # s
      /\ \A i \in DOMAIN pool : pool[i] # s
      /\ jobPc[s] = "idle"
  BY <1>2, Holder
<1>4. /\ pc'[c] = state /\ sock'[c] = NoSock
      /\ \A d \in Calls \ {c} : pc'[d] = pc[d] /\ sock'[d] = sock[d]
      /\ \A t \in Socks \ {s} : clientEnd'[t] = clientEnd[t]
  BY <1>1, <1>2 DEF TypeOK
<1>5. handled[c] \in {0, 1}
  BY <1>1 DEF CallInv, Requested, Working, Answered, Broken
<1>6. CallInv(c)'
  BY <1>1, <1>4, <1>5 DEF CallInv
<1>7. WorkerInv(s)'
  BY <1>2, <1>3 DEF WorkerInv
<1>8. Unshared'
  BY <1>4 DEF IInv, Unshared
<1>9. PoolInv'
  <2>1. \A i \in DOMAIN pool : pool[i] \in Socks \ {s}
    BY <1>3, PoolSocks
  <2>2. \A d \in Calls, i \in DOMAIN pool : sock'[d] # pool[i]
    BY <1>4, <2>1, CallAssumption DEF IInv, PoolInv, CallAssumption
  <2> QED BY <1>4, <2>1, <2>2, PoolKeeps
<1>10. \A d \in Calls : ~Pending(d, s)'
  BY <1>2 DEF Pending
<1> QED BY <1>2, <1>3, <1>4, <1>6, <1>7, <1>8, <1>9, <1>10, OneExchange

(* An attempt to connect fails, a request cannot be sent, a reply not read.   *)
LEMMA FailsIInv ==
  ASSUME IInv, NEW c \in Calls, ConnectFails(c) \/ SendFails(c) \/ RecvFails(c)
  PROVE  IInv'
<1> USE DEF Holding
<1>1. TypeOK /\ CallInv(c)
  BY DEF IInv
<1>2. PICK s \in Socks : s = sock[c] /\ s # NoSock
  BY Holder DEF ConnectFails, SendFails, RecvFails
<1>3. TypeOK'
  <2> USE DEF CloseAndGo, Goto, server, TypeOK, Ended
  <2>1. tries' \in [Calls -> 0..Tries] /\ Tries \in Nat
    <3>1. CASE ConnectFails(c)
      <4>1. tries[c] \in 1..Tries /\ Tries \in Nat
        BY <1>1, <3>1, CallAssumption DEF ConnectFails, CallInv, CallAssumption
      <4> QED BY <1>1, <3>1, <4>1 DEF ConnectFails
    <3>2. CASE SendFails(c) \/ RecvFails(c)
      BY <1>1, <3>2, CallAssumption DEF SendFails, RecvFails, CallAssumption
    <3> QED BY <3>1, <3>2
  <2>2. CASE ConnectFails(c)
    BY <1>1, <1>2, <2>1, <2>2 DEF ConnectFails
  <2>3. CASE SendFails(c)
    BY <1>1, <1>2, <2>1, <2>3 DEF SendFails
  <2>4. CASE RecvFails(c)
    BY <1>1, <1>2, <2>1, <2>4 DEF RecvFails
  <2> QED BY <2>2, <2>3, <2>4
<1>4. \A d \in Calls \ {c} : tries'[d] = tries[d]
  BY <1>1 DEF ConnectFails, SendFails, RecvFails, TypeOK
<1>5. CASE ConnectFails(c) /\ tries[c] > 1
  <2>1. UNCHANGED <<pc, sock, answer, pool, wire, server>>
    BY <1>5 DEF ConnectFails, wire
  <2>2. CallInv(c)'
    <3>1. tries'[c] # 0
      BY <1>1, <1>5, CallAssumption DEF ConnectFails, TypeOK, CallAssumption
    <3> QED BY <1>1, <1>5, <2>1, <3>1 DEF ConnectFails, CallInv, AtRest, wire, server
  <2>3. WorkerInv(s)'
    BY <2>1, WorkerKeeps DEF wire, server, IInv
  <2>4. \A d \in Calls : Pending(d, s)' => Pending(d, s)
    BY <2>1 DEF wire, server, Pending
  <2> QED
    BY <1>2, <1>3, <1>4, <1>5, <2>1, <2>2, <2>3, <2>4, ExchangeKeeps
    DEF wire, server, ConnectFails
<1>6. CASE ConnectFails(c) /\ ~(tries[c] > 1)
  <2>1. serverEnd[sock[c]] = "closed" /\ handled[c] = 0 /\ pc[c] = "connect"
    BY <1>1, <1>6 DEF ConnectFails, CallInv
  <2> QED BY <1>3, <1>4, <1>6, <2>1, CloseKeeps DEF ConnectFails
<1>7. CASE SendFails(c)
  <2>1. handled[c] = 0
    BY <1>1, <1>7 DEF SendFails, CallInv
  <2> QED BY <1>3, <1>4, <1>7, <2>1, CloseKeeps DEF SendFails
<1>8. CASE RecvFails(c)
  BY <1>3, <1>4, <1>8, CloseKeeps DEF RecvFails
<1> QED BY <1>5, <1>6, <1>7, <1>8

(* The call reads its reply and gives the socket back.                       *)
LEMMA RecvBodyIInv ==
  ASSUME IInv, NEW c \in Calls, RecvBody(c)
  PROVE  IInv'
<1> USE DEF RecvBody, Goto, server, Holding
<1>1. TypeOK /\ CallInv(c)
  BY DEF IInv
<1>2. PICK s \in Socks : s = sock[c] /\ s # NoSock
  BY Holder
<1>3. /\ clientEnd[s] = "open"
      /\ \A d \in Calls \ {c} : sock[d] # s
      /\ \A i \in DOMAIN pool : pool[i] # s
  BY <1>2, Holder
<1>4. toServer[s] = <<>> /\ jobPc[s] = "idle" /\ handled[c] = 1 /\ toClient[s] = <<Body(c)>>
  BY <1>1, <1>2 DEF CallInv, Requested, Working, Answered, Broken
<1>5. Head(toClient[s]).call = c /\ Tail(toClient[s]) = <<>>
  <2>1. Head(toClient[s]) = Body(c) /\ Tail(toClient[s]) = <<>>
    BY <1>4, Messages, Zenon
  <2> QED BY <2>1, Messages
<1>6. /\ pc'[c] \in {IF c \in Throws THEN "raised" ELSE "returned", "failed"}
      /\ answer'[c] = c /\ sock'[c] = NoSock /\ toClient'[s] = <<>>
      /\ \A d \in Calls \ {c} :
           pc'[d] = pc[d] /\ sock'[d] = sock[d] /\ answer'[d] = answer[d]
      /\ \A t \in Socks \ {s} : toClient'[t] = toClient[t]
      /\ pool' = Append(pool, s)
      /\ UNCHANGED <<clientEnd, serverEnd, toServer, jobPc, job, handled, tries>>
  BY <1>1, <1>2, <1>5 DEF TypeOK
<1>7. /\ DOMAIN pool' = 1..(Len(pool) + 1) /\ pool'[Len(pool) + 1] = s
      /\ \A i \in 1..Len(pool) : pool'[i] = pool[i]
      /\ pool' \in Seq(Socks)
      /\ DOMAIN pool = 1..Len(pool) /\ Len(pool) \in Nat
  BY <1>1, <1>6, AppendProperties, LenProperties DEF TypeOK
<1>8. TypeOK'
  <2>1. toClient' \in [Socks -> Seq(Parts)]
    BY <1>1, <1>2, <1>5, EmptySeq DEF TypeOK
  <2>2. answer' \in [Calls -> Calls \cup {NoCall}]
    BY <1>1, <1>2, <1>5 DEF TypeOK
  <2>3. pc' \in [Calls -> {"idle", "get"} \cup Holding \cup Ended]
    BY <1>1 DEF TypeOK, Ended
  <2>4. sock' \in [Calls -> Socks \cup {NoSock}]
    BY <1>1 DEF TypeOK
  <2> QED BY <1>1, <1>6, <1>7, <2>1, <2>2, <2>3, <2>4 DEF TypeOK
<1>9. Unshared'
  BY <1>6 DEF IInv, Unshared
<1>10. PoolInv'
  <2>1. ASSUME NEW i \in DOMAIN pool'
        PROVE  \/ pool'[i] = s /\ i = Len(pool) + 1
               \/ i \in DOMAIN pool /\ pool'[i] = pool[i] /\ pool[i] # s /\ pool[i] \in Socks
    BY <1>3, <1>7, PoolSocks
  <2>2. \A i, j \in DOMAIN pool' : pool'[i] = pool'[j] => i = j
    BY <2>1 DEF IInv, PoolInv
  <2>3. ASSUME NEW i \in DOMAIN pool'
        PROVE  /\ \A d \in Calls : sock'[d] # pool'[i]
               /\ clientEnd'[pool'[i]] = "open"
    BY <1>3, <1>6, <2>1, CallAssumption DEF IInv, PoolInv, CallAssumption
  <2> QED BY <1>3, <1>4, <1>6, <2>1, <2>2, <2>3 DEF IInv, PoolInv, AtRest
<1>11. CallInv(c)'
  BY <1>4, <1>6 DEF CallInv
<1>12. WorkerInv(s)'
  BY <1>4, <1>6 DEF WorkerInv
<1>13. \A d \in Calls : Pending(d, s)' => Pending(d, s)
  BY <1>6 DEF Pending
<1> QED
  BY <1>2, <1>3, <1>6, <1>8, <1>9, <1>10, <1>11, <1>12, <1>13, OneExchange

-----------------------------------------------------------------------------
(* Whose exchange a worker is in, while the client is there.                 *)
LEMMA Busy ==
  ASSUME IInv, NEW s \in Socks, jobPc[s] # "idle", clientEnd[s] = "open"
  PROVE  /\ job[s] \in Calls /\ sock[job[s]] = s /\ pc[job[s]] \in {"length", "body"}
         /\ Working(job[s], s)
<1>1. job[s] \in Calls /\ sock[job[s]] = s /\ pc[job[s]] \in {"length", "body"}
  BY DEF IInv, WorkerInv
<1>2. CallInv(job[s])
  BY <1>1 DEF IInv
<1> QED BY <1>1, <1>2 DEF CallInv, Holding, Requested, Working, Answered, Broken

(* Whom it handles a request for.                                            *)
LEMMA Worked ==
  ASSUME IInv, NEW s \in Socks, Dispatch(s)
  PROVE  /\ job[s] \in Calls
         /\ (pc[job[s]] = "length" /\ handled[job[s]] = 0) \/ pc[job[s]] = "lost"
<1>1. /\ job[s] \in Calls
      /\ pc[job[s]] = "lost" \/ (sock[job[s]] = s /\ pc[job[s]] \in {"length", "body"})
  <2>1. WorkerInv(s) /\ jobPc[s] = "dispatch"
    BY DEF IInv, Dispatch
  <2> QED BY <2>1 DEF WorkerInv
<1>2. CallInv(job[s])
  BY <1>1 DEF IInv
<1> QED
  BY <1>1, <1>2 DEF Dispatch, CallInv, Holding, Requested, Working, Answered, Broken

(* A step of a worker whose client has closed disturbs no call that runs.    *)
LEMMA AbandonedKeeps ==
  ASSUME IInv, NEW s \in Socks, clientEnd[s] = "closed", TypeOK',
         UNCHANGED <<pc, sock, pool, clientEnd, toClient, answer, tries>>,
         \A d \in Calls : pc[d] # "lost" => handled'[d] = handled[d],
         \A t \in Socks \ {s} :
           /\ serverEnd'[t] = serverEnd[t] /\ toServer'[t] = toServer[t]
           /\ jobPc'[t] = jobPc[t] /\ job'[t] = job[t],
         WorkerInv(s)', \A d \in Calls : pc[d] = "lost" => OrphanInv(d)'
  PROVE  IInv'
<1>1. ASSUME NEW d \in Calls PROVE CallInv(d)' /\ OrphanInv(d)'
  <2>1. CallInv(d) /\ sock[d] \in Socks \cup {NoSock} /\ sock[d] # s
    BY CallAssumption DEF IInv, TypeOK, CallInv, CallAssumption
  <2>2. CASE pc[d] = "lost"
    BY <2>1, <2>2 DEF CallInv, Holding
  <2>3. CASE pc[d] # "lost"
    <3>1. CallInv(d)'
      BY <2>1, <2>3, CallKeeps
    <3> QED BY <2>3, <3>1 DEF OrphanInv
  <2> QED BY <2>2, <2>3
<1>2. \A t \in Socks \ {s} : WorkerInv(t)'
  BY WorkerKeeps DEF IInv
<1>3. Unshared'
  BY DEF IInv, Unshared
<1>4. PoolInv'
  <2>1. \A i \in DOMAIN pool : pool[i] \in Socks \ {s}
    BY PoolSocks DEF IInv, PoolInv
  <2>2. \A d \in Calls, i \in DOMAIN pool : sock'[d] # pool[i]
    BY DEF IInv, PoolInv
  <2> QED BY <2>1, <2>2, PoolKeeps
<1> QED BY <1>1, <1>2, <1>3, <1>4 DEF IInv

(* The worker reads a request.                                               *)
LEMMA ReceiveIInv ==
  ASSUME IInv, NEW s \in Socks, Receive(s), clientEnd[s] = "open"
  PROVE  IInv'
<1> USE DEF Receive, JobGoto, client, Holding
<1>1. TypeOK
  BY DEF IInv
<1>2. PICK c \in Calls : sock[c] = s /\ pc[c] = "length"
  BY DEF IInv, WorkerInv
<1>3. CallInv(c) /\ s # NoSock
  BY <1>2, CallAssumption DEF IInv, CallAssumption
<1>4. Requested(c, s)
  BY <1>2, <1>3 DEF CallInv, Working, Answered, Broken
<1>5. Head(toServer[s]) = c /\ Tail(toServer[s]) = <<>>
  BY <1>4, Messages, Zenon DEF Requested
<1>6. /\ jobPc'[s] = "dispatch" /\ job'[s] = c /\ toServer'[s] = <<>> /\ serverEnd[s] = "open"
      /\ \A t \in Socks \ {s} :
           jobPc'[t] = jobPc[t] /\ job'[t] = job[t] /\ toServer'[t] = toServer[t]
      /\ UNCHANGED <<pc, sock, pool, clientEnd, serverEnd, toClient, handled, answer, tries>>
  BY <1>1, <1>5 DEF TypeOK
<1>7. TypeOK'
  <2>1. toServer' \in [Socks -> Seq(Calls)]
    BY <1>1, <1>5, EmptySeq DEF TypeOK
  <2>2. job' \in [Socks -> Calls \cup {NoCall}]
    BY <1>1, <1>5 DEF TypeOK
  <2> QED BY <1>1, <2>1, <2>2 DEF TypeOK
<1>8. Working(c, s)'
  BY <1>2, <1>4, <1>6 DEF Requested, Working
<1>9. CallInv(c)'
  BY <1>2, <1>3, <1>6, <1>8 DEF CallInv
<1>10. WorkerInv(s)'
  BY <1>2, <1>6 DEF WorkerInv
<1>11. \A d \in Calls \ {c} : ~Pending(d, s)'
  BY <1>6, Messages DEF Pending
<1> QED BY <1>2, <1>6, <1>7, <1>9, <1>10, <1>11, ExchangeKeeps

(* The worker reads a request that nobody waits for any more.                *)
LEMMA ReceiveOrphanIInv ==
  ASSUME IInv, NEW s \in Socks, Receive(s), clientEnd[s] = "closed"
  PROVE  IInv'
<1> USE DEF Receive, JobGoto, client
<1>1. TypeOK
  BY DEF IInv
<1>2. ~\E c \in Calls : sock[c] = s /\ pc[c] = "length"
  BY DEF IInv, CallInv, Holding
<1>3. PICK c \in Calls : pc[c] = "lost" /\ toServer[s] = <<c>>
  BY <1>2 DEF IInv, WorkerInv
<1>4. Head(toServer[s]) = c /\ Tail(toServer[s]) = <<>>
  BY <1>3, Messages, Zenon
<1>5. /\ jobPc'[s] = "dispatch" /\ job'[s] = c /\ toServer'[s] = <<>> /\ serverEnd[s] = "open"
      /\ \A t \in Socks \ {s} :
           jobPc'[t] = jobPc[t] /\ job'[t] = job[t] /\ toServer'[t] = toServer[t]
      /\ UNCHANGED <<pc, sock, pool, clientEnd, serverEnd, toClient, handled, answer, tries>>
  BY <1>1, <1>4 DEF TypeOK
<1>6. TypeOK'
  <2>1. toServer' \in [Socks -> Seq(Calls)]
    BY <1>1, <1>4, EmptySeq DEF TypeOK
  <2>2. job' \in [Socks -> Calls \cup {NoCall}]
    BY <1>1, <1>4 DEF TypeOK
  <2> QED BY <1>1, <2>1, <2>2 DEF TypeOK
<1>7. \A d \in Calls : OrphanInv(d)'
  <2>1. \A d \in Calls \ {c} : ~Pending(d, s)'
    BY <1>5, Messages DEF Pending
  <2>2. Pending(c, s)
    BY <1>3, <1>5 DEF Pending
  <2>3. \A d \in Calls, t \in Socks \ {s} : Pending(d, t)' => Pending(d, t)
    BY <1>5 DEF Pending
  <2> QED BY <1>5, <2>1, <2>2, <2>3, OrphanKeeps DEF IInv
<1>8. WorkerInv(s)'
  BY <1>3, <1>5 DEF WorkerInv
<1> QED BY <1>5, <1>6, <1>7, <1>8, AbandonedKeeps

(* The worker handles the request: for the first time.                       *)
LEMMA DispatchIInv ==
  ASSUME IInv, NEW s \in Socks, Dispatch(s), clientEnd[s] = "open"
  PROVE  IInv'
<1> USE DEF Dispatch, JobGoto, client, wire, Holding
<1>1. TypeOK
  BY DEF IInv
<1>2. PICK c \in Calls : c = job[s]
  BY Busy
<1>3. /\ sock[c] = s /\ pc[c] \in {"length", "body"} /\ Working(c, s)
      /\ CallInv(c) /\ s # NoSock
  BY <1>2, Busy, CallAssumption DEF IInv, CallAssumption
<1>4. handled[c] = 0 /\ pc[c] = "length"
  BY <1>3 DEF Working
<1>5. /\ jobPc'[s] = "length" /\ handled'[c] = 1
      /\ \A t \in Socks \ {s} : jobPc'[t] = jobPc[t]
      /\ \A d \in Calls \ {c} : handled'[d] = handled[d]
      /\ UNCHANGED <<pc, sock, pool, clientEnd, serverEnd, toServer, toClient, job, answer,
                     tries>>
  BY <1>1, <1>2, <1>4 DEF TypeOK
<1>6. TypeOK'
  <2>1. handled' \in [Calls -> Nat]
    BY <1>1, <1>2 DEF TypeOK
  <2> QED BY <1>1, <2>1 DEF TypeOK
<1>7. Working(c, s)'
  BY <1>3, <1>5 DEF Working
<1>8. CallInv(c)'
  BY <1>3, <1>4, <1>5, <1>7 DEF CallInv
<1>9. WorkerInv(s)'
  BY <1>2, <1>3, <1>5 DEF WorkerInv, Working
<1>10. \A d \in Calls \ {c} : Pending(d, s)' => Pending(d, s)
  BY <1>5 DEF Pending
<1> QED BY <1>3, <1>4, <1>5, <1>6, <1>8, <1>9, <1>10, ExchangeKeeps

(* It handles a request that nobody waits for any more: for the first time.  *)
LEMMA DispatchOrphanIInv ==
  ASSUME IInv, NEW s \in Socks, Dispatch(s), clientEnd[s] = "closed"
  PROVE  IInv'
<1> USE DEF Dispatch, JobGoto, client, wire
<1>1. TypeOK
  BY DEF IInv
<1>2. ASSUME NEW d \in Calls, sock[d] = s PROVE pc[d] \notin Holding
  BY <1>2 DEF IInv, CallInv
<1>3. PICK c \in Calls : c = job[s] /\ pc[c] = "lost" /\ toServer[s] = <<>> /\ serverEnd[s] = "open"
  BY <1>2 DEF IInv, WorkerInv, Holding
<1>4. Pending(c, s) /\ OrphanInv(c)
  BY <1>3 DEF IInv, Pending
<1>5. handled[c] = 0
  BY <1>3, <1>4 DEF OrphanInv
<1>6. /\ jobPc'[s] = "length" /\ handled'[c] = 1
      /\ \A t \in Socks \ {s} : jobPc'[t] = jobPc[t]
      /\ \A d \in Calls \ {c} : handled'[d] = handled[d]
      /\ UNCHANGED <<pc, sock, pool, clientEnd, serverEnd, toServer, toClient, job, answer,
                     tries>>
  BY <1>1, <1>3, <1>5 DEF TypeOK
<1>7. TypeOK'
  <2>1. handled' \in [Calls -> Nat]
    BY <1>1, <1>3 DEF TypeOK
  <2> QED BY <1>1, <2>1 DEF TypeOK
<1>8. \A d \in Calls, t \in Socks : Pending(d, t)' => Pending(d, t) /\ t # s
  <2>1. \A d \in Calls : ~Pending(d, s)'
    BY <1>3, <1>6, Messages DEF Pending
  <2>2. \A d \in Calls, t \in Socks \ {s} : Pending(d, t)' => Pending(d, t)
    BY <1>6 DEF Pending
  <2> QED BY <2>1, <2>2
<1>9. OrphanInv(c)'
  <2>1. \A t \in Socks : ~Pending(c, t)'
    BY <1>3, <1>4, <1>8 DEF OrphanInv
  <2> QED BY <1>6, <2>1 DEF OrphanInv
<1>10. \A d \in Calls \ {c} : OrphanInv(d)'
  BY <1>6, <1>8, OrphanKeeps DEF IInv
<1>11. WorkerInv(s)'
  BY <1>3, <1>6 DEF WorkerInv
<1> QED BY <1>3, <1>6, <1>7, <1>9, <1>10, <1>11, AbandonedKeeps

(* The worker sends a part of the reply.                                     *)
LEMMA SendPartIInv ==
  ASSUME IInv, NEW s \in Socks, SendLength(s) \/ SendBody(s)
  PROVE  IInv'
<1> USE DEF SendLength, SendBody, SendPart, JobGoto, client, Holding
<1>1. TypeOK
  BY DEF IInv
<1>2. PICK c \in Calls : c = job[s]
  BY Busy
<1>3. /\ sock[c] = s /\ pc[c] \in {"length", "body"} /\ Working(c, s)
      /\ CallInv(c) /\ s # NoSock
  BY <1>2, Busy, CallAssumption DEF IInv, CallAssumption
<1>8. \A d \in Calls : Pending(d, s)' => Pending(d, s)
  BY <1>1 DEF Pending, TypeOK
<1> DEFINE message == [part |-> jobPc[s], call |-> c]
<1>4. /\ toClient'[s] = Append(toClient[s], message)
      /\ jobPc'[s] = IF jobPc[s] = "length" THEN "body" ELSE "idle"
      /\ jobPc[s] \in {"length", "body"}
      /\ \A t \in Socks \ {s} : jobPc'[t] = jobPc[t] /\ toClient'[t] = toClient[t]
      /\ UNCHANGED <<pc, sock, pool, clientEnd, serverEnd, toServer, job, handled, answer,
                     tries>>
  BY <1>1, <1>2 DEF TypeOK
<1>5. TypeOK'
  <2>1. message \in Parts
    BY <1>4 DEF Parts
  <2>2. Append(toClient[s], message) \in Seq(Parts)
    BY <1>1, <2>1, AppendProperties DEF TypeOK
  <2>3. toClient' \in [Socks -> Seq(Parts)]
    <3>1. toClient' = [toClient EXCEPT ![s] = Append(toClient[s], message)]
      BY <1>1, <1>2 DEF TypeOK
    <3> QED BY <1>1, <2>2, <3>1 DEF TypeOK
  <2>4. jobPc' \in [Socks -> {"idle", "dispatch", "length", "body"}]
    <3>1. jobPc' = [jobPc EXCEPT ![s] = "body"] \/ jobPc' = [jobPc EXCEPT ![s] = "idle"]
      OBVIOUS
    <3>2. jobPc \in [Socks -> {"idle", "dispatch", "length", "body"}]
      BY <1>1 DEF TypeOK
    <3> QED BY <3>1, <3>2
  <2> QED BY <1>1, <2>3, <2>4 DEF TypeOK
<1>6. CASE jobPc[s] = "length"
  <2>1. toClient'[s] = <<Length(c)>>
    BY <1>3, <1>4, <1>6, Messages DEF Working, Length
  <2>2. Working(c, s)'
    BY <1>3, <1>4, <1>6, <2>1 DEF Working
  <2>3. CallInv(c)'
    BY <1>3, <1>4, <2>2 DEF CallInv
  <2>4. WorkerInv(s)'
    BY <1>2, <1>3, <1>4 DEF WorkerInv, Working
  <2> QED BY <1>3, <1>4, <1>5, <1>8, <2>3, <2>4, ExchangeKeeps
<1>7. CASE jobPc[s] = "body"
  <2>1. toClient'[s] = IF pc[c] = "length" THEN <<Length(c), Body(c)>> ELSE <<Body(c)>>
    <3>1. \/ pc[c] = "length" /\ toClient[s] = <<Length(c)>>
          \/ pc[c] = "body" /\ toClient[s] = <<>>
      BY <1>3, <1>7 DEF Working
    <3>2. toClient'[s] = Append(toClient[s], Body(c))
      BY <1>3, <1>4, <1>7 DEF Working, Body
    <3>3. CASE pc[c] = "length"
      <4>1. toClient[s] = <<Length(c)>>
        BY <3>1, <3>3
      <4>2. toClient'[s] = <<Length(c), Body(c)>>
        BY <3>2, <4>1, Messages, Zenon
      <4> QED BY <3>3, <4>2
    <3>4. CASE pc[c] = "body"
      <4>1. toClient[s] = <<>>
        BY <3>1, <3>4
      <4>2. toClient'[s] = <<Body(c)>>
        BY <3>2, <4>1, Messages, Zenon
      <4> QED BY <3>4, <4>2
    <3> QED BY <3>1, <3>3, <3>4
  <2>2. Answered(c, s)'
    BY <1>3, <1>4, <1>7, <2>1 DEF Working, Answered
  <2>3. CallInv(c)'
    BY <1>3, <1>4, <2>2 DEF CallInv
  <2>4. WorkerInv(s)'
    BY <1>2, <1>3, <1>4 DEF WorkerInv, Working
  <2> QED BY <1>3, <1>4, <1>5, <1>8, <2>3, <2>4, ExchangeKeeps
<1> QED BY <1>4, <1>6, <1>7

(* A worker finds its client gone, between two messages or with a reply.     *)
LEMMA ClosureIInv ==
  ASSUME IInv, NEW s \in Socks, DetectClosure(s) \/ ReplyFails(s)
  PROVE  IInv'
<1> USE DEF DetectClosure, ReplyFails, JobGoto, client, server
<1>1. TypeOK
  BY DEF IInv
<1>2. /\ UNCHANGED <<pc, sock, pool, clientEnd, toServer, toClient, job, handled, answer, tries>>
      /\ serverEnd'[s] = "closed" /\ \A t \in Socks \ {s} : serverEnd'[t] = serverEnd[t]
      /\ jobPc'[s] = "idle" /\ \A t \in Socks \ {s} : jobPc'[t] = jobPc[t]
      /\ clientEnd[s] = "closed"
  BY <1>1 DEF TypeOK
<1>3. TypeOK'
  BY <1>1 DEF TypeOK
<1>4. \A d \in Calls : OrphanInv(d)'
  <2>1. \A d \in Calls, t \in Socks : Pending(d, t)' => Pending(d, t)
    BY <1>2 DEF Pending
  <2> QED BY <1>2, <2>1, OrphanKeeps DEF IInv
<1>5. WorkerInv(s)'
  BY <1>2 DEF WorkerInv
<1> QED BY <1>2, <1>3, <1>4, <1>5, AbandonedKeeps

-----------------------------------------------------------------------------
(* pepd stops: every exchange is broken where it is.                         *)
LEMMA StopIInv ==
  ASSUME IInv, Stop
  PROVE  IInv'
<1> USE DEF Stop, client, Holding
<1>1. TypeOK
  BY DEF IInv
<1>2. /\ UNCHANGED <<pc, sock, answer, tries, pool, clientEnd, toServer, toClient, job, handled>>
      /\ \A s \in Socks : serverEnd'[s] = "closed" /\ jobPc'[s] = "idle"
  OBVIOUS
<1>3. TypeOK'
  BY <1>1, CallAssumption DEF TypeOK, CallAssumption
<1>4. ASSUME NEW c \in Calls PROVE CallInv(c)'
  <2>1. CallInv(c)
    BY DEF IInv
  <2>2. CASE pc[c] \in {"length", "body"}
    <3>1. sock[c] \in Socks
      BY <2>2, Holder
    <3>2. Requested(c, sock[c])' \/ Answered(c, sock[c])' \/ Broken(c, sock[c])'
      <4>1. CASE Requested(c, sock[c])
        BY <1>2, <3>1, <4>1 DEF Requested
      <4>2. CASE Working(c, sock[c])
        BY <1>2, <3>1, <4>2 DEF Working, Broken
      <4>3. CASE Answered(c, sock[c])
        BY <1>2, <3>1, <4>3 DEF Answered
      <4>4. CASE Broken(c, sock[c])
        BY <1>2, <3>1, <4>4 DEF Broken
      <4> QED BY <2>1, <2>2, <4>1, <4>2, <4>3, <4>4 DEF CallInv
    <3> QED BY <1>2, <2>1, <2>2, <3>2 DEF CallInv
  <2>3. CASE pc[c] \in {"connect", "send"}
    <3>1. sock[c] \in Socks
      BY <2>3, Holder
    <3> QED BY <1>2, <2>1, <2>3, <3>1 DEF CallInv, AtRest
  <2>4. CASE pc[c] \notin Holding
    BY <1>2, <2>1, <2>4 DEF CallInv
  <2> QED BY <2>2, <2>3, <2>4
<1>5. \A s \in Socks : WorkerInv(s)'
  BY <1>2 DEF WorkerInv
<1>6. Unshared'
  BY <1>2 DEF IInv, Unshared
<1>7. PoolInv'
  BY <1>2, PoolSocks DEF IInv, PoolInv, AtRest
<1>8. \A c \in Calls : OrphanInv(c)'
  <2>1. \A c \in Calls, s \in Socks : ~Pending(c, s)'
    BY <1>2 DEF Pending
  <2> QED BY <1>2, <2>1 DEF IInv, OrphanInv
<1> QED BY <1>3, <1>4, <1>5, <1>6, <1>7, <1>8 DEF IInv

(* pepd starts again, or nothing happens.                                    *)
LEMMA StartIInv ==
  ASSUME IInv, Start \/ UNCHANGED vars
  PROVE  IInv'
<1>1. UNCHANGED <<client, wire, server, stops>> /\ (daemon' = "up" \/ daemon' = daemon)
  BY DEF Start, vars
<1>2. TypeOK'
  BY <1>1 DEF IInv, TypeOK, client, wire, server
<1>3. Unshared'
  BY <1>1 DEF IInv, Unshared, client
<1>4. PoolInv'
  BY <1>1 DEF IInv, PoolInv, AtRest, client, wire, server
<1>5. \A c \in Calls : CallInv(c)'
  BY <1>1, CallKeeps DEF IInv, client, wire, server
<1>6. \A s \in Socks : WorkerInv(s)'
  BY <1>1, WorkerKeeps DEF IInv, client, wire, server
<1>7. \A c \in Calls : OrphanInv(c)'
  BY <1>1, OrphanKeeps DEF IInv, Pending, client, wire, server
<1> QED BY <1>2, <1>3, <1>4, <1>5, <1>6, <1>7 DEF IInv

(* A request of a call that runs is pending on its own socket, and not yet   *)
(* handled.                                                                  *)
LEMMA PendingOwn ==
  ASSUME IInv, NEW c \in Calls, pc[c] # "lost", NEW s \in Socks, Pending(c, s)
  PROVE  sock[c] = s /\ handled[c] = 0
<1>1. CASE toServer[s] = <<c>>
  <2>1. PICK d \in Calls : toServer[s] = <<c>> /\ \/ sock[d] = s /\ pc[d] = "length"
                                                  \/ pc[d] = "lost" /\ toServer[s] = <<d>>
    BY <1>1, Messages DEF IInv, WorkerInv, Pending
  <2>2. <<c>> # <<d>> \/ d = c
    BY Messages
  <2>3. sock[d] = s /\ pc[d] = "length" /\ CallInv(d)
    BY <2>1, <2>2 DEF IInv
  <2>4. Requested(d, s)
    BY <1>1, <2>3, Messages DEF CallInv, Holding, Working, Answered, Broken
  <2> QED BY <1>1, <2>2, <2>3, <2>4 DEF Requested
<1>2. CASE jobPc[s] = "dispatch" /\ job[s] = c
  <2>1. sock[c] = s /\ pc[c] \in {"length", "body"} /\ CallInv(c)
    BY <1>2 DEF IInv, WorkerInv
  <2> QED BY <1>2, <2>1 DEF CallInv, Holding, Requested, Working, Answered, Broken
<1> QED BY <1>1, <1>2 DEF Pending

(* The web server child ends: what its calls had going is left to pepd.      *)
LEMMA ChildEndsIInv ==
  ASSUME IInv, ChildEnds
  PROVE  IInv'
<1>1. TypeOK
  BY DEF IInv
<1>2. /\ UNCHANGED <<answer, tries, serverEnd, toServer, toClient, jobPc, job, handled>>
      /\ \A c \in Calls : pc'[c] = IF pc[c] \in Running THEN "lost" ELSE pc[c]
      /\ \A c \in Calls : sock'[c] = NoSock
      /\ \A s \in Socks : clientEnd'[s] = "closed"
      /\ pool' = <<>>
  BY DEF ChildEnds, server
<1> USE DEF ChildEnds, server, Holding, Running
<1>3. TypeOK'
  <2>1. <<>> \in Seq(Socks)
    BY EmptySeq
  <2> QED BY <1>1, <2>1 DEF TypeOK, Ended
<1>4. ASSUME NEW c \in Calls PROVE CallInv(c)'
  BY <1>2 DEF IInv, CallInv
<1>5. ASSUME NEW s \in Socks PROVE WorkerInv(s)'
  <2>1. WorkerInv(s)
    BY DEF IInv
  <2>2. ASSUME NEW c \in Calls, sock[c] = s, pc[c] \in {"length", "body"}
        PROVE  /\ toServer[s] # <<>> => toServer[s] = <<c>> /\ jobPc[s] = "idle"
               /\ jobPc[s] # "idle" => toServer[s] = <<>>
    <3>1. CallInv(c)
      BY DEF IInv
    <3> QED BY <2>2, <3>1 DEF CallInv, Requested, Working, Answered, Broken
  <2>3. jobPc[s] # "idle" =>
          serverEnd[s] = "open" /\ job[s] \in Calls /\ pc'[job[s]] = "lost" /\ toServer[s] = <<>>
    BY <1>2, <2>1, <2>2 DEF WorkerInv
  <2>4. serverEnd[s] = "open" /\ toServer[s] # <<>> =>
          jobPc[s] = "idle" /\ \E c \in Calls : pc'[c] = "lost" /\ toServer[s] = <<c>>
    BY <1>2, <2>1, <2>2 DEF WorkerInv
  <2> QED BY <1>2, <2>3, <2>4 DEF WorkerInv
<1>6. Unshared' /\ PoolInv'
  BY <1>2 DEF Unshared, PoolInv
<1>7. ASSUME NEW c \in Calls PROVE OrphanInv(c)'
  <2>1. \A s \in Socks : Pending(c, s)' <=> Pending(c, s)
    BY <1>2 DEF Pending
  <2>2. CASE pc[c] = "lost"
    BY <1>2, <2>1, <2>2 DEF IInv, OrphanInv
  <2>3. CASE pc[c] # "lost" /\ pc'[c] = "lost"
    <3>1. handled[c] \in {0, 1}
      BY <1>2, <2>3 DEF IInv, CallInv, Requested, Working, Answered, Broken
    <3> QED BY <1>2, <2>1, <2>3, <3>1, PendingOwn DEF OrphanInv
  <2> QED BY <2>2, <2>3 DEF OrphanInv
<1> QED BY <1>3, <1>4, <1>5, <1>6, <1>7 DEF IInv

(* The invariant is inductive.                                               *)
LEMMA NextIInv == IInv /\ [Next]_vars => IInv'
<1> SUFFICES ASSUME IInv, [Next]_vars PROVE IInv'
  OBVIOUS
<1>1. CASE \E c \in Calls : Invoke(c) \/ Caller(c) \/ Interrupted(c)
  <2>1. PICK c \in Calls : Invoke(c) \/ Caller(c) \/ Interrupted(c)
    BY <1>1
  <2>2. CASE Invoke(c) \/ Interrupted(c) \/ GetFails(c)
    BY <2>2, AloneIInv
  <2>3. CASE GetPooled(c) \/ \E s \in Socks : GetNew(c, s)
    BY <2>3, GetPooledIInv, GetNewIInv
  <2>4. CASE Connected(c) \/ Send(c)
    BY <2>4, ConnectedIInv, SendIInv
  <2>5. CASE ConnectFails(c) \/ SendFails(c) \/ RecvFails(c)
    BY <2>5, FailsIInv
  <2>6. CASE RecvLength(c) \/ RecvBody(c)
    BY <2>6, RecvLengthIInv, RecvBodyIInv
  <2> QED BY <2>1, <2>2, <2>3, <2>4, <2>5, <2>6 DEF Caller
<1>2. CASE \E s \in Socks : Job(s)
  <2>1. PICK s \in Socks : Job(s)
    BY <1>2
  <2>2. clientEnd[s] \in {"open", "closed"}
    BY DEF IInv, TypeOK
  <2> QED
    BY <2>1, <2>2, ReceiveIInv, ReceiveOrphanIInv, DispatchIInv, DispatchOrphanIInv, SendPartIInv,
       ClosureIInv
    DEF Job
<1>3. CASE ChildEnds
  BY <1>3, ChildEndsIInv
<1>4. CASE Stop
  BY <1>4, StopIInv
<1>5. CASE Start \/ UNCHANGED vars
  BY <1>5, StartIInv
<1> QED BY <1>1, <1>2, <1>3, <1>4, <1>5 DEF Next

-----------------------------------------------------------------------------
(* In every behaviour each exchange is in one of its phases, and what is in  *)
(* the pool is in none.                                                      *)
THEOREM Inductive == Spec => []IInv
<1>1. Init => IInv
  BY InitIInv
<1> QED BY <1>1, NextIInv, PTL DEF Spec

(* The state of the calls and the sockets has its type.                      *)
THEOREM TypeCorrect == Spec => []TypeOK
  BY Inductive, PTL DEF IInv

(* No message is handled twice, in spite of the retry and of stale sockets.  *)
THEOREM OnceSafe == Spec => []AtMostOnce
<1>1. ASSUME IInv PROVE AtMostOnce
  <2> SUFFICES ASSUME NEW c \in Calls PROVE handled[c] <= 1
    BY DEF AtMostOnce
  <2>1. CallInv(c) /\ OrphanInv(c) /\ TypeOK
    BY <1>1 DEF IInv
  <2>2. handled[c] \in {0, 1}
    BY <2>1 DEF CallInv, OrphanInv, TypeOK, Holding, Ended, Requested, Working, Answered, Broken
  <2> QED BY <2>2
<1> QED BY <1>1, Inductive, PTL

(* A call that returns or raises has the reply to its own message, which was *)
(* handled, and raises exactly if its handler threw.                         *)
THEOREM AnswerSafe == Spec => []OwnAnswer
<1>1. ASSUME IInv PROVE OwnAnswer
  BY <1>1 DEF IInv, CallInv, OwnAnswer
<1> QED BY <1>1, Inductive, PTL

(* A pooled socket is nobody's and at rest at both ends, and calls share none. *)
THEOREM PoolSafe == Spec => []PoolClean
<1>1. ASSUME IInv PROVE PoolClean
  <2>1. \A c \in Calls : pc[c] \in Holding => sock[c] # NoSock
    BY <1>1 DEF IInv, CallInv
  <2>2. \A c, d \in Calls : pc[c] \in Holding /\ pc[d] \in Holding /\ sock[c] = sock[d] => c = d
    BY <1>1, <2>1 DEF IInv, Unshared
  <2>3. \A c \in Calls : sock[c] \notin {pool[i] : i \in DOMAIN pool}
    BY <1>1 DEF IInv, PoolInv
  <2> QED BY <1>1, <2>2, <2>3 DEF IInv, PoolInv, AtRest, PoolClean
<1> QED BY <1>1, Inductive, PTL

(* The daemon handles a message only while its caller waits for the reply,   *)
(* or would if its process had not ended.                                    *)
THEOREM NoOrphanSafe == Spec => NoOrphanWork
<1> DEFINE Wanted == \A c \in Calls : handled'[c] # handled[c] => pc[c] \in {"length", "lost"}
<1>1. ASSUME IInv, [Next]_vars PROVE [Wanted]_vars
  <2>1. CASE \E s \in Socks : Dispatch(s)
    <3>1. PICK s \in Socks : Dispatch(s)
      BY <2>1
    <3>2. handled' = [handled EXCEPT ![job[s]] = @ + 1] /\ handled \in [Calls -> Nat]
      BY <1>1, <3>1 DEF Dispatch, IInv, TypeOK
    <3>3. job[s] \in Calls /\ pc[job[s]] \in {"length", "lost"}
      BY <1>1, <3>1, Worked
    <3> QED BY <3>2, <3>3
  <2>2. CASE ~\E s \in Socks : Dispatch(s)
    <3>1. handled' = handled
      BY <1>1, <2>2
      DEF Next, Caller, Job, vars, server, client, wire, Invoke, Interrupted, GetPooled, GetNew,
          GetFails, Connected, ConnectFails, Send, SendFails, RecvLength, RecvBody, RecvFails,
          ChildEnds, Receive, SendLength, SendBody, SendPart, DetectClosure, ReplyFails, Stop,
          Start
    <3> QED BY <3>1
  <2> QED BY <2>1, <2>2
<1> QED BY <1>1, Inductive, PTL DEF Spec, NoOrphanWork

-----------------------------------------------------------------------------
(* The calls as AtMostOnceCall has them.  A step that leaves callState as it *)
(* is stutters; any other is the abstract step of one call.                  *)
LEMMA StateStays ==
  ASSUME NEW d \in Calls, pc'[d] = pc[d], handled'[d] = handled[d]
  PROVE  callState'[d] = callState[d]
  BY DEF callState

(* A step of one call changes callState at that call alone.                  *)
LEMMA OneCall ==
  ASSUME NEW c \in Calls, NEW to,
         \A d \in Calls \ {c} : pc'[d] = pc[d] /\ handled'[d] = handled[d],
         callState'[c] = to
  PROVE  callState' = [callState EXCEPT ![c] = to]
<1>1. /\ DOMAIN callState = Calls /\ DOMAIN callState' = Calls
      /\ \A d \in Calls \ {c} : callState'[d] = callState[d]
  BY StateStays DEF callState
<1>2. callState = [d \in Calls |-> callState[d]] /\ callState' = [d \in Calls |-> callState'[d]]
  BY DEF callState
<1> QED BY <1>1, <1>2

(* SocketListener implements the call that ListenerService promises, as far  *)
(* as that is safety: the initial state is one of AtMostOnceCall, and every  *)
(* step is a step of AtMostOnceCall or leaves the calls as they are.         *)
THEOREM CallSafe == Spec => Abstract!Spec
<1>1. Init => Abstract!Init
  BY DEF Init, Abstract!Init, callState, Ended
<1>2. ASSUME IInv, [Next]_vars PROVE [Abstract!Next]_callState
  <2> USE DEF Goto, CloseAndGo
  <2>1. TypeOK /\ \A c \in Calls : CallInv(c)
    BY <1>2 DEF IInv
  <2>2. CASE \E c \in Calls : Invoke(c)
    <3>1. PICK c \in Calls : Invoke(c)
      BY <2>2
    <3>2. /\ pc[c] = "idle" /\ pc'[c] = "get" /\ handled[c] = 0
          /\ \A d \in Calls \ {c} : pc'[d] = pc[d]
          /\ handled' = handled
      BY <2>1, <3>1 DEF Invoke, TypeOK, CallInv, server
    <3>3. callState[c] = "idle" /\ callState'[c] = "called"
      BY <3>2 DEF callState, Ended
    <3>4. callState' = [callState EXCEPT ![c] = "called"]
      BY <3>2, <3>3, OneCall
    <3> QED BY <3>3, <3>4 DEF Abstract!Next, Abstract!Invoke, Abstract!Step
  <2>3. CASE \E s \in Socks : Dispatch(s)
    <3>1. PICK s \in Socks : Dispatch(s)
      BY <2>3
    <3>2. PICK c \in Calls :
            c = job[s] /\ ((pc[c] = "length" /\ handled[c] = 0) \/ pc[c] = "lost")
      BY <1>2, <3>1, Worked
    <3>3. /\ pc' = pc /\ handled'[c] = handled[c] + 1
          /\ \A d \in Calls \ {c} : handled'[d] = handled[d]
      BY <2>1, <3>1, <3>2 DEF Dispatch, TypeOK, client
    <3>4. CASE pc[c] = "length" /\ handled[c] = 0
      <4>1. callState[c] = "called" /\ callState'[c] = "handled"
        BY <3>3, <3>4 DEF callState, Ended
      <4>2. callState' = [callState EXCEPT ![c] = "handled"]
        BY <3>3, <4>1, OneCall
      <4> QED BY <4>1, <4>2 DEF Abstract!Next, Abstract!Handle, Abstract!Step
    <3>5. CASE pc[c] = "lost"
      <4>1. \A d \in Calls : callState'[d] = callState[d]
        BY <3>3, <3>5 DEF callState, Ended
      <4> QED BY <4>1 DEF callState
    <3> QED BY <3>2, <3>4, <3>5
  <2>4. CASE \E c \in Calls : RecvBody(c)
    <3>1. PICK c \in Calls : RecvBody(c)
      BY <2>4
    <3>2. handled[c] = 1
      BY <2>1, <3>1 DEF RecvBody, CallInv, Requested, Working, Answered, Broken
    <3>3. /\ pc[c] = "body" /\ pc'[c] \in {"returned", "raised", "failed"}
          /\ \A d \in Calls \ {c} : pc'[d] = pc[d]
          /\ handled' = handled
      BY <2>1, <3>1 DEF RecvBody, TypeOK, server
    <3>4. callState[c] = "handled" /\ callState'[c] = pc'[c]
      BY <3>2, <3>3 DEF callState, Ended
    <3>5. callState' = [callState EXCEPT ![c] = pc'[c]]
      BY <3>3, <3>4, OneCall
    <3> QED
      BY <3>3, <3>4, <3>5
      DEF Abstract!Next, Abstract!Return, Abstract!Raise, Abstract!Fail, Abstract!Step
  <2>5. CASE \E c \in Calls : /\ GetFails(c) \/ ConnectFails(c) \/ SendFails(c) \/ RecvFails(c)
                              /\ pc'[c] = "failed"
    <3>1. PICK c \in Calls : /\ GetFails(c) \/ ConnectFails(c) \/ SendFails(c) \/ RecvFails(c)
                             /\ pc'[c] = "failed"
      BY <2>5
    <3>2. /\ pc[c] \in {"get", "connect", "send", "length", "body"}
          /\ \A d \in Calls \ {c} : pc'[d] = pc[d]
          /\ handled' = handled
      BY <2>1, <3>1 DEF GetFails, ConnectFails, SendFails, RecvFails, TypeOK, server
    <3>3. callState[c] \in {"called", "handled"} /\ callState'[c] = "failed"
      BY <3>1, <3>2 DEF callState, Ended
    <3>4. callState' = [callState EXCEPT ![c] = "failed"]
      BY <3>2, <3>3, OneCall
    <3> QED BY <3>3, <3>4 DEF Abstract!Next, Abstract!Fail, Abstract!Step
  <2>6. CASE \E c \in Calls :
               \/ Interrupted(c) \/ GetPooled(c) \/ Connected(c) \/ Send(c) \/ RecvLength(c)
               \/ \E s \in Socks : GetNew(c, s)
               \/ ConnectFails(c) /\ pc'[c] # "failed"
               \/ SendFails(c) /\ pc'[c] # "failed"
    <3>1. PICK c \in Calls :
               \/ Interrupted(c) \/ GetPooled(c) \/ Connected(c) \/ Send(c) \/ RecvLength(c)
               \/ \E s \in Socks : GetNew(c, s)
               \/ ConnectFails(c) /\ pc'[c] # "failed"
               \/ SendFails(c) /\ pc'[c] # "failed"
      BY <2>6
    <3>2. /\ {pc[c], pc'[c]} \subseteq {"get", "connect", "send", "length", "body"}
          /\ \A d \in Calls \ {c} : pc'[d] = pc[d]
          /\ handled' = handled
      BY <2>1, <3>1 DEF Interrupted, GetPooled, Connected, Send, RecvLength, GetNew,
                        ConnectFails, SendFails, TypeOK, server
    <3>3. callState'[c] = callState[c]
      BY <3>2 DEF callState, Ended
    <3>4. \A d \in Calls : callState'[d] = callState[d]
      BY <3>2, <3>3, StateStays
    <3> QED BY <3>4 DEF callState
  <2>7. CASE \/ \E s \in Socks :
                  Receive(s) \/ SendLength(s) \/ SendBody(s) \/ DetectClosure(s) \/ ReplyFails(s)
             \/ Stop \/ Start \/ UNCHANGED vars
    <3>1. UNCHANGED <<pc, handled>>
      BY <2>7 DEF Receive, SendLength, SendBody, SendPart, DetectClosure, ReplyFails, Stop, Start,
                  vars, client, server
    <3> QED BY <3>1 DEF callState
  <2>10. CASE ChildEnds
    <3>1. \A c \in Calls : callState'[c] = IF callState[c] \in {"called", "handled"} THEN "lost"
                                                                               ELSE callState[c]
      BY <2>1, <2>10 DEF ChildEnds, TypeOK, callState, Ended, Running, Holding, server
    <3>2. callState' = [c \in Calls |-> callState'[c]]
      BY DEF callState
    <3> QED BY <3>1, <3>2 DEF Abstract!Next, Abstract!Lose
  <2>8. ASSUME NEW c \in Calls, RecvFails(c) PROVE pc'[c] = "failed"
    BY <2>1, <2>8 DEF RecvFails, TypeOK
  <2>9. ASSUME NEW c \in Calls, GetFails(c) PROVE pc'[c] = "failed"
    BY <2>1, <2>9 DEF GetFails, TypeOK
  <2> QED
    BY <1>2, <2>2, <2>3, <2>4, <2>5, <2>6, <2>7, <2>8, <2>9, <2>10, Zenon DEF Next, Caller, Job
<1> QED BY <1>1, <1>2, Inductive, PTL DEF Spec, Abstract!Spec

-----------------------------------------------------------------------------
(* A stop of pepd and the retry.  A reply that can be read to its end: its   *)
(* socket is about to enter the pool.                                       *)
Replied(d) == pc[d] \in {"length", "body"} /\ Answered(d, sock[d])

(* No socket in the pool, or about to enter it, is stale.                    *)
NoStale ==
  /\ \A i \in DOMAIN pool : serverEnd[pool[i]] = "open"
  /\ \A d \in Calls : Replied(d) => serverEnd[sock[d]] = "open"

(* Stale sockets come from a stop only; a call in its second attempt that    *)
(* left no stale socket behind meets none while pepd does not stop again.    *)
RestartInv ==
  /\ \A i \in DOMAIN pool : serverEnd[pool[i]] = "closed" => stops >= 1
  /\ \A c \in Calls :
       /\ pc[c] \in {"send", "length", "body"} /\ serverEnd[sock[c]] = "closed" => stops >= 1
       /\ retry[c] = 0 => stops >= 1 /\ pc[c] # "idle"
       /\ (retry[c] = 0 /\ pc[c] \in {"get", "connect", "send"} /\ ~spare[c] /\ stops <= 1) =>
            NoStale /\ (pc[c] = "send" => serverEnd[sock[c]] = "open")

(* A step is one of a given call, the end of the child, or leaves the call   *)
(* where it is.                                                             *)
LEMMA StepOf ==
  ASSUME TypeOK, [Next]_vars, NEW d \in Calls
  PROVE  \/ Invoke(d) \/ Caller(d) \/ Interrupted(d)
         \/ ChildEnds
         \/ pc'[d] = pc[d] /\ sock'[d] = sock[d] /\ retry'[d] = retry[d]
<1>1. CASE \E c \in Calls : Invoke(c) \/ Caller(c) \/ Interrupted(c)
  <2>1. PICK c \in Calls : Invoke(c) \/ Caller(c) \/ Interrupted(c)
    BY <1>1
  <2>2. CASE c # d
    BY <2>1, <2>2 DEF TypeOK, Caller, Goto, CloseAndGo, Invoke, Interrupted, GetPooled, GetNew,
       GetFails, Connected, ConnectFails, Send, SendFails, RecvLength, RecvBody, RecvFails
  <2> QED BY <2>1, <2>2
<1>2. CASE (\E s \in Socks : Job(s)) \/ Stop \/ Start \/ UNCHANGED vars
  BY <1>2 DEF Job, Receive, Dispatch, SendLength, SendBody, SendPart, DetectClosure, ReplyFails,
     Stop, Start, vars, client
<1> QED BY <1>1, <1>2 DEF Next

(* Only a stop counts as one.                                                *)
LEMMA StopsCount ==
  ASSUME [Next]_vars
  PROVE  stops' = stops \/ (Stop /\ stops' = stops + 1)
  BY DEF Next, Caller, Job, Invoke, Interrupted, GetPooled, GetNew, GetFails, Connected,
     ConnectFails, Send, SendFails, RecvLength, RecvBody, RecvFails, ChildEnds, Receive, Dispatch,
     SendLength, SendBody, SendPart, DetectClosure, ReplyFails, Stop, Start, vars

(* A call makes its second attempt only after its first send() failed, and   *)
(* the first attempt of no call begins again.                               *)
LEMMA Attempts ==
  ASSUME TypeOK, [Next]_vars, NEW c \in Calls
  PROVE  /\ retry'[c] = 0 => retry[c] = 0 \/ SendFails(c)
         /\ pc'[c] = "idle" => pc[c] = "idle"
         /\ pc'[c] \in {"get", "connect", "send"} => pc[c] \in {"idle", "get", "connect", "send"}
         /\ pc[c] = "send" /\ pc'[c] \in {"get", "failed"} => SendFails(c)
<1>2. CASE Invoke(c) \/ Caller(c) \/ Interrupted(c)
  BY <1>2 DEF TypeOK, Caller, Goto, CloseAndGo, Invoke, Interrupted, GetPooled, GetNew,
     GetFails, Connected, ConnectFails, Send, SendFails, RecvLength, RecvBody, RecvFails
<1>3. CASE ChildEnds
  BY <1>3 DEF TypeOK, ChildEnds, Running
<1>4. CASE pc'[c] = pc[c] /\ sock'[c] = sock[c] /\ retry'[c] = retry[c]
  BY <1>4
<1> QED BY <1>2, <1>3, <1>4, StepOf

(* A daemon's end is closed by a stop, or when the client's is.              *)
LEMMA EndCloses ==
  ASSUME TypeOK, [Next]_vars, ~Stop, NEW s \in Socks, serverEnd'[s] = "closed"
  PROVE  serverEnd[s] = "closed" \/ clientEnd[s] = "closed"
<1>1. CASE \E c \in Calls : Connected(c)
  BY <1>1 DEF Connected, TypeOK
<1>2. CASE \E t \in Socks : DetectClosure(t) \/ ReplyFails(t)
  BY <1>2 DEF DetectClosure, ReplyFails, TypeOK
<1>3. CASE ~(\E c \in Calls : Connected(c)) /\ ~\E t \in Socks : DetectClosure(t) \/ ReplyFails(t)
  <2>1. serverEnd' = serverEnd
    BY <1>3 DEF Next, Caller, Job, Invoke, Interrupted, GetPooled, GetNew, GetFails,
       ConnectFails, Send, SendFails, RecvLength, RecvBody, RecvFails, ChildEnds, Receive,
       Dispatch, SendLength, SendBody, SendPart, Start, vars, wire
  <2> QED BY <2>1
<1> QED BY <1>1, <1>2, <1>3

(* A socket that a call is to use, or uses, and that is stale: it was stale   *)
(* in the pool, or the call had it already.                                 *)
LEMMA SocketOrigin ==
  ASSUME IInv, [Next]_vars, ~Stop, NEW c \in Calls,
         pc'[c] \in {"send", "length", "body"}, serverEnd'[sock'[c]] = "closed"
  PROVE  \/ \E i \in DOMAIN pool : serverEnd[pool[i]] = "closed"
         \/ /\ pc[c] \in {"send", "length", "body"} /\ serverEnd[sock[c]] = "closed"
            /\ pc'[c] = "send" => pc[c] = "send"
<1>1. TypeOK /\ CallInv(c)
  BY DEF IInv
<1>2. CASE GetPooled(c)
  <2>1. pool \in Seq(Socks) /\ pool # <<>> /\ Len(pool) \in DOMAIN pool
    BY <1>1, <1>2, EmptySeq, LenProperties DEF TypeOK, GetPooled
  <2>2. sock'[c] = pool[Len(pool)] /\ serverEnd' = serverEnd
    BY <1>1, <1>2 DEF GetPooled, TypeOK, Last, wire
  <2> QED BY <2>1, <2>2
<1>3. CASE Connected(c)
  BY <1>1, <1>3 DEF Connected, TypeOK, CallInv, Holding
<1>4. CASE ~GetPooled(c) /\ ~Connected(c)
  <2>1. /\ pc[c] \in {"send", "length", "body"} /\ sock'[c] = sock[c]
        /\ pc'[c] = "send" => pc[c] = "send"
    <3>1. CASE Invoke(c) \/ Caller(c) \/ Interrupted(c)
      BY <1>1, <1>4, <3>1 DEF TypeOK, Caller, Goto, CloseAndGo, Invoke, Interrupted, GetNew,
         GetFails, ConnectFails, Send, SendFails, RecvLength, RecvBody, RecvFails
    <3>2. CASE ChildEnds
      BY <1>1, <3>2 DEF TypeOK, ChildEnds, Running
    <3> QED BY <1>1, <3>1, <3>2, StepOf
  <2>2. sock[c] \in Socks /\ clientEnd[sock[c]] = "open"
    BY <1>1, <2>1 DEF TypeOK, CallInv, Holding
  <2> QED BY <1>1, <2>1, <2>2, EndCloses
<1> QED BY <1>2, <1>3, <1>4

(* A stale socket that is in the pool was there, or a reply was read from it. *)
LEMMA PoolOrigin ==
  ASSUME IInv, [Next]_vars, ~Stop, NEW i \in DOMAIN pool', serverEnd'[pool'[i]] = "closed"
  PROVE  \/ \E j \in DOMAIN pool : serverEnd[pool[j]] = "closed"
         \/ \E d \in Calls : Replied(d) /\ serverEnd[sock[d]] = "closed"
<1>1. /\ TypeOK /\ pool \in Seq(Socks) /\ DOMAIN pool = 1..Len(pool) /\ Len(pool) \in Nat
      /\ \A j \in DOMAIN pool : pool[j] \in Socks /\ clientEnd[pool[j]] = "open"
  BY PoolSocks DEF IInv, TypeOK, PoolInv
<1>2. ASSUME NEW j \in DOMAIN pool, pool'[i] = pool[j]
      PROVE  serverEnd[pool[j]] = "closed"
  BY <1>1, <1>2, EndCloses
<1>3. CASE \E c \in Calls : GetPooled(c)
  <2>1. PICK c \in Calls : GetPooled(c)
    BY <1>3
  <2>2. /\ pool' = Front(pool) /\ DOMAIN Front(pool) = 1..(Len(pool) - 1)
        /\ \A j \in 1..(Len(pool) - 1) : Front(pool)[j] = pool[j]
    <3>1. pool # <<>> /\ Len(pool) \in Nat \ {0}
      BY <1>1, <2>1, EmptySeq DEF GetPooled
    <3> QED BY <1>1, <2>1, <3>1, SubSeqProperties, LenProperties DEF GetPooled, Front
  <2>3. i \in DOMAIN pool /\ pool'[i] = pool[i]
    BY <1>1, <2>2
  <2> QED BY <1>2, <2>3
<1>4. CASE \E c \in Calls : RecvBody(c)
  <2>1. PICK c \in Calls : RecvBody(c)
    BY <1>4
  <2>2. /\ CallInv(c) /\ pc[c] = "body" /\ toClient[sock[c]] # <<>> /\ sock[c] \in Socks
        /\ pool' = Append(pool, sock[c]) /\ serverEnd' = serverEnd
    BY <1>1, <2>1 DEF IInv, TypeOK, CallInv, Holding, RecvBody
  <2>3. Replied(c)
    BY <2>2 DEF CallInv, Holding, Replied, Requested, Working, Broken
  <2>4. (i \in DOMAIN pool /\ pool'[i] = pool[i]) \/ pool'[i] = sock[c]
    BY <1>1, <2>2, AppendProperties, LenProperties
  <2> QED BY <1>2, <2>2, <2>3, <2>4
<1>5. CASE ~(\E c \in Calls : GetPooled(c) \/ RecvBody(c))
  <2>1. pool' = pool \/ pool' = <<>>
    BY <1>5 DEF Next, Caller, Job, Invoke, Interrupted, GetNew, GetFails, Connected,
       ConnectFails, Send, SendFails, RecvLength, RecvFails, ChildEnds, Receive, Dispatch,
       SendLength, SendBody, SendPart, DetectClosure, ReplyFails, Stop, Start, vars, client
  <2> QED BY <1>2, <2>1
<1> QED BY <1>3, <1>4, <1>5

(* A reply that can be read to its end on a stale socket was there before.    *)
LEMMA ReplyRests ==
  ASSUME IInv, [Next]_vars, ~Stop, NEW d \in Calls,
         Replied(d)', serverEnd'[sock'[d]] = "closed"
  PROVE  Replied(d) /\ serverEnd[sock[d]] = "closed"
<1>1. /\ TypeOK /\ CallInv(d)
      /\ \A c \in Calls \ {d} : sock[c] # sock[d] \/ sock[d] = NoSock
  BY DEF IInv, Unshared
<1>2. CASE pc[d] \notin {"length", "body"} \/ sock'[d] # sock[d]
  <2>1. Invoke(d) \/ Caller(d) \/ Interrupted(d)
    <3>1. pc'[d] \in {"length", "body"}
      BY DEF Replied
    <3>2. ASSUME ChildEnds PROVE pc'[d] \notin {"length", "body"}
      <4>1. pc'[d] = IF pc[d] \in Running THEN "lost" ELSE pc[d]
        BY <3>2 DEF ChildEnds
      <4> QED BY <4>1 DEF Running
    <3>3. CASE pc'[d] = pc[d] /\ sock'[d] = sock[d] /\ retry'[d] = retry[d]
      BY <1>2, <3>1, <3>3
    <3> QED BY <1>1, <3>1, <3>2, <3>3, StepOf
  <2>2. Send(d)
    BY <1>1, <1>2, <2>1 DEF TypeOK, Replied, Caller, Goto, CloseAndGo, Invoke, Interrupted,
       GetPooled, GetNew, GetFails, Connected, ConnectFails, SendFails, RecvLength, RecvBody,
       RecvFails
  <2>3. AtRest(sock[d]) /\ sock[d] \in Socks /\ sock' = sock
    BY <1>1, <2>2 DEF Send, CallInv, Holding, TypeOK
  <2>4. toServer'[sock[d]] = <<d>> /\ <<d>> # <<>>
    BY <1>1, <2>2, <2>3, Messages DEF Send, AtRest, TypeOK
  <2> QED BY <2>3, <2>4 DEF Replied, Answered
<1>3. CASE pc[d] \in {"length", "body"} /\ sock'[d] = sock[d]
  <2>1. sock[d] \in Socks /\ sock[d] # NoSock /\ clientEnd[sock[d]] = "open"
    BY <1>1, <1>3 DEF TypeOK, CallInv, Holding
  <2>2. serverEnd[sock[d]] = "closed"
    BY <1>1, <1>3, <2>1, EndCloses
  <2>3. jobPc[sock[d]] = "idle"
    BY <2>1, <2>2 DEF IInv, WorkerInv
  <2>4. Requested(d, sock[d]) \/ Answered(d, sock[d]) \/ Broken(d, sock[d])
    BY <1>1, <1>3, <2>2 DEF CallInv, Holding, Working
  <2>5. RecvLength(d) \/ (pc'[d] = pc[d] /\ toClient'[sock[d]] = toClient[sock[d]])
    <3>1. CASE \E c \in Calls : Invoke(c) \/ Caller(c) \/ Interrupted(c)
      <4>1. PICK c \in Calls : Invoke(c) \/ Caller(c) \/ Interrupted(c)
        BY <3>1
      <4>2. CASE c = d
        BY <1>1, <1>3, <4>1, <4>2 DEF TypeOK, Replied, Caller, Goto, CloseAndGo, Invoke,
           Interrupted, GetPooled, GetNew, GetFails, Connected, ConnectFails, Send, SendFails,
           RecvBody, RecvFails, wire, Ended
      <4>3. CASE c # d
        <5>1. pc'[d] = pc[d] /\ sock[c] # sock[d]
          BY <1>1, <2>1, <4>1, <4>3 DEF TypeOK, Caller, Goto, CloseAndGo, Invoke,
             Interrupted, GetPooled, GetNew, GetFails, Connected, ConnectFails, Send, SendFails,
             RecvLength, RecvBody, RecvFails
        <5>2. CASE \E s \in Socks : GetNew(c, s)
          BY <1>1, <2>1, <5>1, <5>2 DEF TypeOK, GetNew, Free
        <5>3. CASE RecvLength(c) \/ RecvBody(c)
          BY <1>1, <2>1, <5>1, <5>3 DEF TypeOK, RecvLength, RecvBody
        <5>4. CASE ~(RecvLength(c) \/ RecvBody(c) \/ \E s \in Socks : GetNew(c, s))
          BY <4>1, <5>1, <5>4 DEF Caller, Invoke, Interrupted, GetPooled, GetFails, Connected,
             ConnectFails, Send, SendFails, RecvFails, wire
        <5> QED BY <5>2, <5>3, <5>4
      <4> QED BY <4>2, <4>3
    <3>2. CASE \E s \in Socks : SendLength(s) \/ SendBody(s)
      BY <1>1, <2>1, <2>3, <3>2 DEF TypeOK, SendLength, SendBody, SendPart, client
    <3>3. CASE ChildEnds
      BY <1>1, <1>3, <3>3 DEF TypeOK, ChildEnds, Running, Replied
    <3>4. CASE \/ \E s \in Socks :
                    Receive(s) \/ Dispatch(s) \/ DetectClosure(s) \/ ReplyFails(s)
               \/ Start \/ UNCHANGED vars
      BY <3>4 DEF Receive, Dispatch, DetectClosure, ReplyFails, Start, vars, client, wire
    <3> QED BY <3>1, <3>2, <3>3, <3>4 DEF Next, Job
  <2>6. CASE RecvLength(d)
    <3>1. /\ pc[d] = "length" /\ pc'[d] = "body" /\ toClient[sock[d]] # <<>>
          /\ toClient'[sock[d]] = Tail(toClient[sock[d]])
      BY <1>1, <2>1, <2>6 DEF RecvLength, Goto, TypeOK
    <3>2. Tail(toClient[sock[d]]) = <<Body(d)>>
      BY <1>3, <3>1 DEF Replied, Answered
    <3>3. toClient[sock[d]] # <<Length(d)>>
      BY <3>2, Messages
    <3> QED BY <1>3, <2>2, <2>4, <3>1, <3>3 DEF Replied, Requested, Broken
  <2>7. CASE pc'[d] = pc[d] /\ toClient'[sock[d]] = toClient[sock[d]]
    <3>1. <<Length(d)>> # <<Length(d), Body(d)>>
      BY Messages
    <3>2. \/ pc[d] = "length" /\ toClient[sock[d]] = <<Length(d), Body(d)>>
          \/ pc[d] = "body" /\ toClient[sock[d]] = <<Body(d)>>
      BY <1>3, <2>7 DEF Replied, Answered
    <3>3. /\ toClient[sock[d]] # <<>>
          /\ pc[d] = "length" => toClient[sock[d]] # <<Length(d)>>
      BY <3>1, <3>2, Messages
    <3> QED BY <1>3, <2>2, <2>4, <3>3 DEF Replied, Requested, Broken
  <2> QED BY <2>5, <2>6, <2>7
<1> QED BY <1>2, <1>3

(* A reply that can be read to its end ends with its body.                   *)
LEMMA Ends ==
  ASSUME NEW c \in Calls
  PROVE  /\ Last(<<Length(c), Body(c)>>).part = "body"
         /\ Last(<<Body(c)>>).part = "body"
         /\ <<Length(c), Body(c)>> # <<>> /\ <<Body(c)>> # <<>>
<1>1. Last(<<Length(c), Body(c)>>) = Body(c) /\ Last(<<Body(c)>>) = Body(c)
  BY DEF Last
<1>2. Body(c).part = "body"
  BY DEF Body
<1> QED BY <1>1, <1>2, Messages

(* The second attempt meets no stale socket but one that was there.          *)
LEMMA NextRestartInv ==
  ASSUME IInv, RestartInv, [Next]_vars,
         \A c \in Calls :
           spare'[c] = IF pc[c] = "send" /\ pc'[c] = "get" THEN OtherStale(c) ELSE spare[c]
  PROVE  RestartInv'
<1>1. TypeOK /\ stops \in Nat /\ MaxStops \in Nat
  BY CallAssumption DEF IInv, TypeOK, CallAssumption
<1>2. stops' \in Nat /\ stops' >= stops /\ (Stop => stops' = stops + 1) /\ (~Stop => stops' = stops)
  BY <1>1, StopsCount DEF Stop
<1>3. ASSUME NEW i \in DOMAIN pool', serverEnd'[pool'[i]] = "closed" PROVE stops' >= 1
  <2>1. CASE Stop
    BY <1>1, <1>2, <2>1
  <2>2. CASE ~Stop
    BY <1>1, <1>2, <1>3, <2>2, PoolOrigin DEF RestartInv, Replied
  <2> QED BY <2>1, <2>2
<1>4. ASSUME NEW c \in Calls, pc'[c] \in {"send", "length", "body"},
             serverEnd'[sock'[c]] = "closed"
      PROVE  stops' >= 1
  <2>1. CASE Stop
    BY <1>1, <1>2, <2>1
  <2>2. CASE ~Stop
    BY <1>1, <1>2, <1>4, <2>2, SocketOrigin DEF RestartInv
  <2> QED BY <2>1, <2>2
<1>5. ASSUME NEW c \in Calls, retry'[c] = 0 PROVE stops' >= 1 /\ pc'[c] # "idle"
  <2>1. retry[c] = 0 \/ SendFails(c)
    BY <1>1, <1>5, Attempts
  <2>2. SendFails(c) => pc[c] = "send" /\ serverEnd[sock[c]] = "closed"
    BY DEF SendFails
  <2>3. stops >= 1 /\ pc[c] # "idle"
    BY <2>1, <2>2 DEF RestartInv
  <2> QED BY <1>1, <1>2, <2>3, Attempts
<1>6. ASSUME NEW c \in Calls, retry'[c] = 0, pc'[c] \in {"get", "connect", "send"},
             ~spare'[c], stops' <= 1
      PROVE  NoStale' /\ (pc'[c] = "send" => serverEnd'[sock'[c]] = "open")
  <2>1. retry[c] = 0 \/ SendFails(c)
    BY <1>1, <1>6, Attempts
  <2>2. stops >= 1 /\ pc[c] # "idle"
    <3>1. SendFails(c) => pc[c] = "send" /\ serverEnd[sock[c]] = "closed"
      BY DEF SendFails
    <3> QED BY <2>1, <3>1 DEF RestartInv
  <2>3. ~Stop /\ stops <= 1
    BY <1>1, <1>2, <1>6, <2>2
  <2>4. NoStale /\ (pc[c] = "send" => serverEnd[sock[c]] = "open" \/ pc'[c] # "send")
    <3>1. CASE SendFails(c)
      <4>1. /\ pc[c] = "send" /\ pc'[c] = "get" /\ sock[c] \in Socks
            /\ serverEnd[sock[c]] = "closed" /\ CallInv(c)
        BY <1>1, <1>6, <3>1 DEF SendFails, CloseAndGo, Goto, TypeOK, IInv, CallInv, Holding
      <4>2. ~OtherStale(c)
        BY <1>6, <4>1
      <4>3. ASSUME NEW i \in DOMAIN pool PROVE serverEnd[pool[i]] = "open"
        <5>1. pool[i] \in Socks \ {sock[c]}
          BY PoolSocks DEF IInv, PoolInv
        <5> QED BY <1>1, <4>2, <5>1 DEF OtherStale, TypeOK
      <4>4. ASSUME NEW d \in Calls, Replied(d) PROVE serverEnd[sock[d]] = "open"
        <5>1. CallInv(d) /\ pc[d] \in {"length", "body"} /\ d # c
          BY <4>1, <4>4 DEF IInv, Replied
        <5>2. sock[d] \in Socks \ {sock[c]}
          BY <1>1, <5>1 DEF IInv, TypeOK, Unshared, CallInv, Holding
        <5>3. Complete(sock[d])
          BY <4>4, Ends DEF Replied, Answered, Complete
        <5> QED BY <1>1, <4>2, <5>1, <5>2, <5>3 DEF OtherStale, TypeOK
      <4> QED BY <4>1, <4>3, <4>4 DEF NoStale
    <3>2. CASE ~SendFails(c)
      <4>1. retry[c] = 0 /\ pc[c] \in {"get", "connect", "send"}
        BY <1>1, <1>6, <2>1, <2>2, <3>2, Attempts
      <4>2. ~(pc[c] = "send" /\ pc'[c] = "get")
        BY <1>1, <3>2, Attempts
      <4>3. ~spare[c]
        BY <1>6, <4>2
      <4> QED BY <2>3, <4>1, <4>3 DEF RestartInv
    <3> QED BY <3>1, <3>2
  <2>5. \A i \in DOMAIN pool' : serverEnd'[pool'[i]] # "closed"
    BY <2>3, <2>4, PoolOrigin DEF NoStale
  <2>6. \A d \in Calls : Replied(d)' => serverEnd'[sock'[d]] # "closed"
    BY <2>3, <2>4, ReplyRests DEF NoStale
  <2>7. pc'[c] = "send" => serverEnd'[sock'[c]] # "closed"
    BY <2>3, <2>4, SocketOrigin DEF NoStale
  <2>8. IInv'
    BY NextIInv
  <2>9. /\ \A i \in DOMAIN pool' : serverEnd'[pool'[i]] \in {"open", "closed"}
        /\ \A d \in Calls : pc'[d] \in Holding => serverEnd'[sock'[d]] \in {"open", "closed"}
    <3>1. \A i \in DOMAIN pool' : pool'[i] \in Socks
      BY <2>8, LenProperties, ElementOfSeq DEF IInv, TypeOK
    <3>2. ASSUME NEW d \in Calls, pc'[d] \in Holding PROVE sock'[d] \in Socks
      <4>1. CallInv(d)' /\ TypeOK'
        BY <2>8 DEF IInv
      <4> QED BY <3>2, <4>1 DEF CallInv, TypeOK
    <3> QED BY <2>8, <3>1, <3>2 DEF IInv, TypeOK
  <2> QED BY <1>6, <2>5, <2>6, <2>7, <2>9 DEF NoStale, Replied, Holding
<1> QED BY <1>3, <1>4, <1>5, <1>6 DEF RestartInv

(* For one stop of pepd, a call gives up on a message it could not send only *)
(* if, when its first send() failed, another stale socket was in the pool or *)
(* about to enter it.                                                        *)
THEOREM RestartSafe == HistorySpec => SurvivesOneRestart
<1> DEFINE Remembers ==
             \A c \in Calls :
               spare'[c] = IF pc[c] = "send" /\ pc'[c] = "get" THEN OtherStale(c) ELSE spare[c]
           Excused ==
             \A c \in Calls : pc[c] = "send" /\ pc'[c] = "failed" /\ stops <= 1 => spare[c]
<1>1. HistoryInit => IInv /\ RestartInv
  <2> SUFFICES ASSUME HistoryInit PROVE IInv /\ RestartInv
    OBVIOUS
  <2>1. IInv
    BY InitIInv DEF HistoryInit
  <2>2. pool = <<>> /\ \A c \in Calls : pc[c] = "idle" /\ retry[c] = 1
    BY DEF HistoryInit, Init
  <2> QED BY <2>1, <2>2 DEF RestartInv
<1>2. ASSUME [HistoryNext]_<<vars, spare>> PROVE [Next]_vars /\ Remembers
  <2>1. CASE HistoryNext
    BY <2>1 DEF HistoryNext, Remember
  <2>2. CASE UNCHANGED <<vars, spare>>
    <3>1. pc' = pc
      BY <2>2 DEF vars, client
    <3> QED BY <2>2, <3>1
  <2> QED BY <1>2, <2>1, <2>2
<1>3. IInv /\ RestartInv /\ [HistoryNext]_<<vars, spare>> => IInv' /\ RestartInv'
  BY <1>2, NextIInv, NextRestartInv
<1>4. ASSUME IInv, RestartInv, [HistoryNext]_<<vars, spare>> PROVE Excused
  <2> SUFFICES ASSUME NEW c \in Calls, pc[c] = "send", pc'[c] = "failed", stops <= 1, ~spare[c]
               PROVE  FALSE
    OBVIOUS
  <2>1. TypeOK /\ [Next]_vars
    BY <1>2, <1>4 DEF IInv
  <2>2. SendFails(c)
    BY <2>1, Attempts
  <2>3. retry[c] = 0 /\ serverEnd[sock[c]] = "closed"
    BY <2>1, <2>2 DEF SendFails, CloseAndGo, Goto, TypeOK
  <2> QED BY <1>4, <2>3 DEF RestartInv
<1>5. HistorySpec => [](IInv /\ RestartInv)
  BY <1>1, <1>3, PTL DEF HistorySpec
<1>6. IInv /\ RestartInv /\ [HistoryNext]_<<vars, spare>> => [Excused]_<<vars, spare>>
  BY <1>4
<1> QED BY <1>5, <1>6, PTL DEF HistorySpec, SurvivesOneRestart
=============================================================================
