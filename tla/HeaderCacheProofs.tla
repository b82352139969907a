-------------------------- MODULE HeaderCacheProofs --------------------------
(***************************************************************************)
(* Proofs about HeaderCache for any threads, replies and numbers of calls:  *)
(* the lock is used as it must be, what the lock is for, and that the       *)
(* threads implement the list that is fetched once (HeaderList).            *)
(***************************************************************************)
EXTENDS HeaderCache, SequenceTheorems, TLAPS

IInv == TypeOK /\ LockHeld

(* Nobody holds the lock at the beginning.                                  *)
LEMMA InitIInv == Init => IInv
  BY HeaderCacheAssumption
  DEF HeaderCacheAssumption, Init, IInv, TypeOK, LockHeld, Places, Reading, Writing

(* The steps of a thread t that leave the lock alone and stay on their side *)
(* of it.                                                                   *)
LEMMA GotoKeeps ==
  ASSUME IInv, NEW t \in Threads, NEW place \in Places, Goto(t, place),
         place \in Reading <=> pc[t] \in Reading,
         place \in Writing <=> pc[t] \in Writing,
         UNCHANGED <<outOfProcess, readers, writer>>,
         calls' \in [Threads -> 0..MaxCalls]
  PROVE  IInv'
<1>1. pc' \in [Threads -> Places] /\ pc' = [pc EXCEPT ![t] = place]
  BY DEF IInv, TypeOK, Goto
<1>2. TypeOK'
  BY <1>1 DEF IInv, TypeOK
<1>3. \A u \in Threads : /\ pc'[u] \in Reading <=> pc[u] \in Reading
                         /\ pc'[u] \in Writing <=> pc[u] \in Writing
  BY <1>1 DEF IInv, TypeOK
<1>4. LockHeld'
  BY <1>3 DEF IInv, LockHeld
<1> QED BY <1>2, <1>4 DEF IInv

(* Those that take or give back the read lock.                              *)
LEMMA ReadLockKeeps ==
  ASSUME IInv, NEW t \in Threads, NEW place \in Places, Goto(t, place),
         pc[t] \notin Writing, place \notin Writing,
         \/ place \in Reading /\ writer = NoThread /\ readers' = readers \cup {t}
         \/ place \notin Reading /\ readers' = readers \ {t},
         UNCHANGED <<outOfProcess, calls, writer>>
  PROVE  IInv'
<1>1. pc' \in [Threads -> Places] /\ pc' = [pc EXCEPT ![t] = place]
  BY DEF IInv, TypeOK, Goto
<1>2. TypeOK'
  BY <1>1 DEF IInv, TypeOK
<1>3. \A u \in Threads \ {t} : pc'[u] = pc[u]
  BY <1>1 DEF IInv, TypeOK
<1>4. pc'[t] = place
  BY <1>1 DEF IInv, TypeOK
<1>5. readers' = {u \in Threads : pc'[u] \in Reading}
  BY <1>3, <1>4 DEF IInv, LockHeld
<1>6. \A u \in Threads : pc'[u] \in Writing <=> writer' = u
  BY <1>3, <1>4 DEF IInv, LockHeld
<1>7. writer' # NoThread => readers' = {}
  BY DEF IInv, LockHeld
<1> QED BY <1>2, <1>5, <1>6, <1>7 DEF IInv, LockHeld

(* Those that take or give back the write lock.                             *)
LEMMA WriteLockKeeps ==
  ASSUME IInv, NEW t \in Threads, NEW place \in Places, Goto(t, place),
         pc[t] \notin Reading, place \notin Reading,
         \/ place \in Writing /\ writer = NoThread /\ readers = {} /\ writer' = t
         \/ place \notin Writing /\ writer = t /\ writer' = NoThread,
         UNCHANGED <<outOfProcess, calls, readers>>
  PROVE  IInv'
<1>1. pc' \in [Threads -> Places] /\ pc' = [pc EXCEPT ![t] = place]
  BY DEF IInv, TypeOK, Goto
<1>2. TypeOK'
  BY <1>1 DEF IInv, TypeOK
<1>3. \A u \in Threads \ {t} : pc'[u] = pc[u]
  BY <1>1 DEF IInv, TypeOK
<1>4. pc'[t] = place
  BY <1>1 DEF IInv, TypeOK
<1>5. readers' = {u \in Threads : pc'[u] \in Reading}
  BY <1>3, <1>4 DEF IInv, LockHeld
<1>6. \A u \in Threads : pc'[u] \in Writing <=> writer' = u
  BY <1>3, <1>4, HeaderCacheAssumption DEF IInv, LockHeld, HeaderCacheAssumption
<1>7. writer' # NoThread => readers' = {}
  BY DEF IInv, LockHeld
<1> QED BY <1>2, <1>5, <1>6, <1>7 DEF IInv, LockHeld

(* Each step of the function, by what it does to the lock.                  *)
LEMMA StepIInv ==
  ASSUME IInv, NEW t \in Threads, Call(t) \/ Step(t)
  PROVE  IInv'
<1> USE DEF Places, Reading, Writing
<1>0. calls \in [Threads -> 0..MaxCalls] /\ MaxCalls \in Nat
  BY HeaderCacheAssumption DEF IInv, TypeOK, HeaderCacheAssumption
<1>1. CASE Call(t)
  <2>1. calls' \in [Threads -> 0..MaxCalls]
    BY <1>0, <1>1 DEF Call
  <2> QED BY <1>1, <2>1, GotoKeeps DEF Call
<1>2. CASE ClearNatively(t)
  BY <1>0, <1>2, GotoKeeps DEF ClearNatively
<1>3. CASE RdLock(t)
  BY <1>3, ReadLockKeeps DEF RdLock
<1>4. CASE Check(t)
  <2>1. CASE cache = <<>>
    BY <1>4, <2>1, ReadLockKeeps DEF Check
  <2>2. CASE cache # <<>>
    BY <1>0, <1>4, <2>2, GotoKeeps DEF Check
  <2> QED BY <2>1, <2>2
<1>5. CASE WrLock(t)
  BY <1>5, WriteLockKeeps DEF WrLock
<1>6. CASE Recheck(t)
  <2>1. CASE cache = <<>>
    BY <1>0, <1>6, <2>1, GotoKeeps DEF Recheck
  <2>2. CASE cache # <<>>
    BY <1>6, <2>2, WriteLockKeeps DEF Recheck, IInv, LockHeld
  <2> QED BY <2>1, <2>2
<1>7. CASE SendThrows(t)
  BY <1>7, WriteLockKeeps DEF SendThrows, IInv, LockHeld
<1>8. CASE SendReturns(t)
  BY <1>0, <1>8, GotoKeeps DEF SendReturns
<1>9. CASE Fill(t)
  BY <1>9 DEF Fill, IInv, TypeOK, LockHeld
<1>10. CASE Filled(t)
  BY <1>10, WriteLockKeeps DEF Filled, IInv, LockHeld
<1>11. CASE Clear(t)
  BY <1>11 DEF Clear, IInv, TypeOK, LockHeld
<1>12. CASE Cleared(t)
  BY <1>12, ReadLockKeeps DEF Cleared
<1> QED
  BY <1>1, <1>2, <1>3, <1>4, <1>5, <1>6, <1>7, <1>8, <1>9, <1>10, <1>11, <1>12 DEF Step

(* The invariant is inductive.                                              *)
LEMMA NextIInv == IInv /\ [Next]_vars => IInv'
<1>1. ASSUME IInv, Next PROVE IInv'
  BY <1>1, StepIInv DEF Next
<1>2. ASSUME IInv, UNCHANGED vars PROVE IInv'
  BY <1>2 DEF vars, IInv, TypeOK, LockHeld
<1> QED BY <1>1, <1>2

(* The type and the lock hold in every behaviour of the threads.            *)
THEOREM Inductive == Spec => []IInv
  BY InitIInv, NextIInv, PTL DEF Spec

(* m_lock is held by those who are in the part it guards, in the right      *)
(* mode, and by nobody else, also after send() has thrown.                  *)
THEOREM LockSafe == Spec => []LockHeld
  BY Inductive, PTL DEF IInv

Stable == (\E t \in Threads : pc[t] \in Reading) => cache' = cache

(* While a thread looks at the list or clears its headers, nobody changes   *)
(* the list: no iteration of for_each() meets a push_back().                *)
THEOREM ListStable == Spec => [][Stable]_vars
<1>1. ASSUME IInv, [Next]_vars PROVE [Stable]_vars
  <2>1. CASE UNCHANGED vars
    BY <2>1
  <2>2. CASE Next
    <3>1. PICK t \in Threads : Call(t) \/ Step(t)
      BY <2>2 DEF Next
    <3>2. CASE Fill(t)
      <4>1. writer = t /\ t # NoThread
        BY <1>1, <3>2, HeaderCacheAssumption
        DEF Fill, IInv, LockHeld, Writing, HeaderCacheAssumption
      <4>2. readers = {}
        BY <1>1, <4>1 DEF IInv, LockHeld
      <4> QED BY <1>1, <4>2 DEF IInv, LockHeld, Stable
    <3>3. CASE ~Fill(t)
      <4>1. cache' = cache
        BY <3>1, <3>3 DEF Call, Step, ClearNatively, RdLock, Check, WrLock, Recheck,
                          SendThrows, SendReturns, Filled, Clear, Cleared
      <4> QED BY <4>1 DEF Stable
    <3> QED BY <3>2, <3>3
  <2> QED BY <1>1, <2>1, <2>2
<1> QED BY <1>1, Inductive, PTL DEF Spec

-----------------------------------------------------------------------------
(* The refinement.                                                          *)

Headers == UNION {ToSet(r) : r \in Replies}

(* The writer has read some of the reply r: the list is what it has read,   *)
(* and holds strings alone.                                                 *)
Filling(r) ==
  /\ Len(cache) <= Len(r)
  /\ cache = SubSeq(r, 1, Len(cache))
  /\ reply = SubSeq(r, Len(cache) + 1, Len(r))
  /\ \A i \in 1..Len(cache) : r[i] # Other

Idle == {"none", "ended", "failed"}

CallInv(t) ==
  /\ pc[t] \notin Idle => (pc[t] = "native" <=> outOfProcess)
  /\ pc[t] \notin Idle \cup {"clearing"} => cleared[t] = <<>>
  /\ pc[t] = "clearing" => /\ Len(cleared[t]) <= Len(cache)
                           /\ cleared[t] = SubSeq(cache, 1, Len(cleared[t]))
  /\ pc[t] = "sending" => cache = <<>>
  /\ pc[t] = "filling" => \E r \in Replies : Filling(r)

ListInv ==
  /\ cache \in Seq(Headers) /\ reply \in Seq(Headers)
  /\ cleared \in [Threads -> Seq(Headers)]
  /\ \A t \in Threads : CallInv(t)

FullInv == IInv /\ ListInv

(* A reply has headers.                                                     *)
LEMMA ReplyHeaders == \A r \in Replies : r \in Seq(Headers)
<1>1. ASSUME NEW r \in Replies PROVE r \in Seq(Headers)
  <2>1. r \in Seq(ToSet(r)) /\ ToSet(r) \subseteq Headers
    BY HeaderCacheAssumption DEF HeaderCacheAssumption, Headers
  <2> QED BY <2>1, SeqMonotonic, Zenon
<1> QED BY <1>1

(* What the loop takes of a reply in which Other first stands behind the    *)
(* k first members, or nowhere.                                             *)
LEMMA WantedIs ==
  ASSUME NEW S, NEW r \in Seq(S), NEW k \in 0..Len(r),
         \A i \in 1..k : r[i] # Other,
         k = Len(r) \/ r[k + 1] = Other
  PROVE  Wanted(r) = SubSeq(r, 1, k)
<1>0. k \in Nat /\ k <= Len(r)
  BY LenProperties
<1>1. Len(r) \in Nat /\ DOMAIN r = 1..Len(r)
  BY LenProperties
<1>2. CASE k = Len(r)
  <2>1. Other \notin ToSet(r)
    BY <1>1, <1>2 DEF ToSet
  <2>2. SubSeq(r, 1, Len(r)) = r
    BY SubSeqFull
  <2> QED BY <1>2, <2>1, <2>2 DEF Wanted
<1>3. CASE k # Len(r)
  <2>0. r[k + 1] = Other
    BY <1>3, Zenon
  <2>1. k + 1 \in 1..Len(r) /\ r[k + 1] = Other
    <3> DEFINE n == Len(r)
    <3>1. n \in Nat /\ k \in Nat /\ k <= n /\ k # n
      BY <1>0, <1>1, <1>3
    <3> HIDE DEF n
    <3>2. k + 1 \in 1..n
      BY <3>1
    <3> QED BY <2>0, <3>2 DEF n
  <2>2. Other \in ToSet(r)
    BY <1>1, <2>1 DEF ToSet
  <2> DEFINE I == {i \in 1..Len(r) : r[i] = Other}
  <2>3. k + 1 \in I /\ \A i \in I : k + 1 <= i /\ i \in Nat
    BY <1>1, <2>1
  <2>4. Min(I) = k + 1
    <3>1. \E x \in I : \A y \in I : x <= y
      BY <2>3
    <3>2. Min(I) \in I /\ \A y \in I : Min(I) <= y
      BY <3>1 DEF Min
    <3> QED BY <2>3, <3>2
  <2>5. SelectInSeq(r, LAMBDA h : h = Other) = Min(I)
    BY <2>3 DEF SelectInSeq
  <2>6. SelectInSeq(r, LAMBDA h : h = Other) - 1 = k
    BY <2>4, <2>5
  <2> QED BY <2>2, <2>6 DEF Wanted
<1> QED BY <1>2, <1>3

(* Nobody has called at the beginning.                                      *)
LEMMA InitListInv == Init => ListInv
<1> SUFFICES ASSUME Init PROVE ListInv
  OBVIOUS
<1>1. <<>> \in Seq(Headers)
  BY EmptySeq
<1> QED BY <1>1 DEF Init, ListInv, CallInv, Idle

(* A step of t leaves alone what holds for the other threads, if it touches *)
(* the list and the reply only between taking and releasing the write lock. *)
LEMMA OthersKeep ==
  ASSUME FullInv, NEW t \in Threads,
         UNCHANGED <<cache, reply>> \/ pc[t] \in Writing,
         \A u \in Threads \ {t} : pc'[u] = pc[u] /\ cleared'[u] = cleared[u],
         UNCHANGED outOfProcess
  PROVE  \A u \in Threads \ {t} : CallInv(u)'
<1> SUFFICES ASSUME NEW u \in Threads \ {t} PROVE CallInv(u)'
  OBVIOUS
<1>1. CallInv(u) /\ pc'[u] = pc[u] /\ cleared'[u] = cleared[u]
  BY DEF FullInv, ListInv
<1>2. CASE UNCHANGED <<cache, reply>>
  BY <1>1, <1>2 DEF CallInv, Filling
<1>3. CASE pc[t] \in Writing
  <2>1. writer = t /\ t # NoThread /\ readers = {}
    BY <1>3, HeaderCacheAssumption DEF FullInv, IInv, LockHeld, HeaderCacheAssumption
  <2>2. pc[u] \notin {"clearing", "sending", "filling"}
    BY <2>1 DEF FullInv, IInv, LockHeld, Reading, Writing
  <2> QED BY <1>1, <2>2 DEF CallInv
<1> QED BY <1>2, <1>3

(* A step of t that leaves the list, the reply and what has been cleared.   *)
LEMMA MoveListInv ==
  ASSUME FullInv, NEW t \in Threads, NEW place \in Places, Goto(t, place),
         UNCHANGED <<outOfProcess, cache, reply, cleared>>,
         place \notin Idle => pc[t] \notin Idle \cup {"native", "clearing"} /\ place # "native",
         place = "clearing" => cleared[t] = <<>>,
         place = "sending" => cache = <<>>,
         place # "filling"
  PROVE  ListInv'
<1>1. pc'[t] = place /\ \A u \in Threads \ {t} : pc'[u] = pc[u]
  BY DEF FullInv, IInv, TypeOK, Goto
<1>2. \A u \in Threads \ {t} : CallInv(u)'
  BY <1>1, OthersKeep
<1>3. CallInv(t)'
  <2>1. CallInv(t)
    BY DEF FullInv, ListInv
  <2>2. Len(<<>>) = 0 /\ SubSeq(cache, 1, 0) = <<>> /\ Len(cache) \in Nat
    BY SubSeqEmpty, LenProperties DEF FullInv, ListInv
  <2>3. cleared'[t] = cleared[t]
    OBVIOUS
  <2>4. /\ pc'[t] \notin Idle => (pc'[t] = "native" <=> outOfProcess')
        /\ pc'[t] \notin Idle \cup {"clearing"} => cleared'[t] = <<>>
    BY <1>1, <2>1, <2>3 DEF CallInv, Idle
  <2>5. pc'[t] = "clearing" => /\ Len(cleared'[t]) <= Len(cache')
                               /\ cleared'[t] = SubSeq(cache', 1, Len(cleared'[t]))
    <3> SUFFICES ASSUME place = "clearing"
                 PROVE  Len(cleared'[t]) <= Len(cache') /\ cleared'[t] = SubSeq(cache', 1, Len(cleared'[t]))
      BY <1>1
    <3>1. cleared'[t] = <<>> /\ cache' = cache
      BY <2>3
    <3>2. Len(cleared'[t]) = 0
      BY <2>2, <3>1, Zenon
    <3>3. 0 <= Len(cache)
      BY <2>2
    <3> QED BY <2>2, <3>1, <3>2, <3>3, Zenon
  <2>6. (pc'[t] = "sending" => cache' = <<>>) /\ pc'[t] # "filling"
    BY <1>1
  <2> QED BY <2>4, <2>5, <2>6 DEF CallInv
<1> QED BY <1>2, <1>3 DEF FullInv, ListInv

(* A step of t that leaves the list and the reply, and after which nothing  *)
(* is cleared or under way.                                                 *)
LEMMA EndListInv ==
  ASSUME FullInv, NEW t \in Threads, NEW place \in Idle \cup {"native", "rdlocking"}, Goto(t, place),
         UNCHANGED <<outOfProcess, cache, reply>>,
         NEW text \in Seq(Headers), cleared' = [cleared EXCEPT ![t] = text],
         place \notin Idle => text = <<>> /\ (place = "native" <=> outOfProcess)
  PROVE  ListInv'
<1>1. pc'[t] = place /\ \A u \in Threads \ {t} : pc'[u] = pc[u]
  BY DEF FullInv, IInv, TypeOK, Goto
<1>2. cleared' \in [Threads -> Seq(Headers)] /\ cleared'[t] = text
  BY DEF FullInv, ListInv
<1>3. \A u \in Threads \ {t} : cleared'[u] = cleared[u]
  BY DEF FullInv, ListInv
<1>4. \A u \in Threads \ {t} : CallInv(u)'
  BY <1>1, <1>3, OthersKeep
<1>5. CallInv(t)'
  BY <1>1, <1>2 DEF CallInv, Idle
<1> QED BY <1>2, <1>4, <1>5 DEF FullInv, ListInv

(* The reply is there: nothing of it has been read.                         *)
LEMMA SendReturnsListInv ==
  ASSUME FullInv, NEW t \in Threads, SendReturns(t)
  PROVE  ListInv'
<1>1. /\ pc[t] = "sending" /\ pc'[t] = "filling"
      /\ \A u \in Threads \ {t} : pc'[u] = pc[u] /\ cleared'[u] = cleared[u]
  BY DEF FullInv, IInv, TypeOK, SendReturns, Goto
<1>2. \A u \in Threads \ {t} : CallInv(u)'
  BY <1>1, OthersKeep DEF Writing, SendReturns
<1>3. PICK r \in Replies : reply' = r
  BY DEF SendReturns
<1>4. r \in Seq(Headers)
  BY ReplyHeaders
<1>5. CallInv(t)'
  <2>1. cache' = <<>> /\ cleared'[t] = <<>> /\ outOfProcess' = outOfProcess /\ ~outOfProcess
    BY <1>1 DEF FullInv, ListInv, CallInv, SendReturns, Idle
  <2>2. Len(<<>>) = 0 /\ Len(r) \in Nat /\ SubSeq(r, 1, 0) = <<>>
    BY <1>4, LenProperties, SubSeqEmpty
  <2>3. SubSeq(r, 1, Len(r)) = r
    BY <1>4, SubSeqFull
  <2>4. Len(cache') = 0
    BY <2>1, <2>2, Zenon
  <2>5. Filling(r)'
    <3>1. cache' = SubSeq(r, 1, Len(cache'))
      BY <2>1, <2>2, <2>4, Zenon
    <3>2. reply' = SubSeq(r, Len(cache') + 1, Len(r))
      BY <1>3, <2>3, <2>4
    <3>3. Len(cache') <= Len(r) /\ \A i \in 1..Len(cache') : r[i] # Other
      BY <2>2, <2>4
    <3> QED BY <3>1, <3>2, <3>3 DEF Filling
  <2> QED BY <1>1, <2>1, <2>5 DEF CallInv, Idle
<1>6. cache' = cache /\ cleared' = cleared
  BY DEF SendReturns
<1> QED BY <1>2, <1>3, <1>4, <1>5, <1>6 DEF FullInv, ListInv

(* One header more than the sequence s has.                                 *)
LEMMA AppendConcat ==
  ASSUME NEW S, NEW s \in Seq(S), NEW e \in S
  PROVE  Append(s, e) = s \o <<e>>
  OBVIOUS

(* One more header of the reply.                                            *)
LEMMA FillListInv ==
  ASSUME FullInv, NEW t \in Threads, Fill(t)
  PROVE  ListInv'
<1>1. /\ pc[t] = "filling" /\ pc' = pc /\ cleared' = cleared
      /\ reply # <<>> /\ Head(reply) # Other
      /\ cache' = Append(cache, Head(reply)) /\ reply' = Tail(reply)
  BY DEF Fill
<1>2. \A u \in Threads \ {t} : CallInv(u)'
  BY <1>1, OthersKeep DEF Writing, Fill
<1>3. /\ cache \in Seq(Headers) /\ reply \in Seq(Headers)
      /\ Head(reply) \in Headers /\ Tail(reply) \in Seq(Headers)
  BY <1>1, HeadTailProperties DEF FullInv, ListInv
<1>4. cache' \in Seq(Headers) /\ reply' \in Seq(Headers)
  BY <1>1, <1>3
<1>5. PICK r \in Replies : Filling(r)
  BY <1>1 DEF FullInv, ListInv, CallInv
<1>6. r \in Seq(Headers)
  BY ReplyHeaders
<1>7. Filling(r)'
  <2> DEFINE k == Len(cache)
             n == Len(r)
  <2>1. k \in Nat /\ n \in Nat /\ k <= n
    BY <1>3, <1>5, <1>6, LenProperties DEF Filling
  <2>2. k # n
    <3>1. CASE k = n
      <4>1. SubSeq(r, k + 1, n) = <<>>
        BY <2>1, <3>1, SubSeqEmpty
      <4> QED BY <1>1, <1>5, <4>1 DEF Filling
    <3> QED BY <3>1
  <2>3. k + 1 \in 1..n /\ n \in (k + 1)..n
    BY <2>1, <2>2
  <2>4. Head(reply) = r[k + 1] /\ reply' = SubSeq(r, k + 2, n)
    <3>1. reply = SubSeq(r, k + 1, n)
      BY <1>5 DEF Filling
    <3>2. /\ Head(SubSeq(r, k + 1, n)) = r[k + 1]
          /\ Tail(SubSeq(r, k + 1, n)) = SubSeq(r, (k + 1) + 1, n)
      BY <1>6, <2>3, HeadTailOfSubSeq
    <3>3. (k + 1) + 1 = k + 2
      BY <2>1
    <3> QED BY <1>1, <3>1, <3>2, <3>3
  <2>5. Len(cache') = k + 1
    BY <1>1, <1>3
  <2>6. cache' = SubSeq(r, 1, k + 1)
    <3>1. 1 \in 1..n /\ k + 1 \in 1..n
      BY <2>3, <2>1
    <3>2. SubSeq(r, 1, k + 1) = SubSeq(r, 1, k) \o <<r[k + 1]>>
      <4>1. SubSeq(r, 1, k + 1) = SubSeq(r, 1, (k + 1) - 1) \o <<r[k + 1]>>
        BY <1>6, <2>1, <3>1, SubSeqRecursiveSecond
      <4>2. (k + 1) - 1 = k
        BY <2>1
      <4> QED BY <4>1, <4>2
    <3>3. cache = SubSeq(r, 1, k)
      BY <1>5 DEF Filling
    <3>4. cache' = cache \o <<r[k + 1]>>
      BY <1>1, <1>3, <2>4, AppendConcat
    <3> QED BY <3>2, <3>3, <3>4
  <2>7. \A i \in 1..(k + 1) : r[i] # Other
    <3>1. \A i \in 1..k : r[i] # Other
      BY <1>5 DEF Filling
    <3>2. r[k + 1] # Other
      BY <1>1, <2>4
    <3> QED BY <2>1, <3>1, <3>2
  <2>8. k + 1 <= n /\ (k + 1) + 1 = k + 2
    BY <2>1, <2>2
  <2> HIDE DEF k, n
  <2> QED BY <2>4, <2>5, <2>6, <2>7, <2>8 DEF Filling, n
<1>8. CallInv(t)'
  BY <1>1, <1>7 DEF FullInv, ListInv, CallInv, Idle, Fill
<1> QED BY <1>1, <1>2, <1>4, <1>8 DEF FullInv, ListInv

(* One more header is cleared.                                              *)
LEMMA ClearListInv ==
  ASSUME FullInv, NEW t \in Threads, Clear(t)
  PROVE  ListInv'
<1> DEFINE k == Len(cleared[t])
           n == Len(cache)
           text == Append(cleared[t], cache[k + 1])
<1>1. /\ pc[t] = "clearing" /\ pc' = pc /\ k < n
      /\ cleared' = [cleared EXCEPT ![t] = text]
      /\ UNCHANGED <<outOfProcess, cache, reply>>
  BY DEF Clear
<1>2. /\ cache \in Seq(Headers) /\ cleared[t] \in Seq(Headers)
      /\ cleared[t] = SubSeq(cache, 1, k)
      /\ k \in Nat /\ n \in Nat
  BY <1>1, LenProperties DEF FullInv, ListInv, CallInv
<1>3. k + 1 \in 1..n /\ 1 \in 1..n
  BY <1>1, <1>2
<1>4. cache[k + 1] \in Headers
  BY <1>2, <1>3, ElementOfSeq
<1>5. text \in Seq(Headers) /\ Len(text) = k + 1
  BY <1>2, <1>4, AppendProperties
<1>6. text = SubSeq(cache, 1, k + 1)
  <2>1. SubSeq(cache, 1, k + 1) = SubSeq(cache, 1, (k + 1) - 1) \o <<cache[k + 1]>>
    BY <1>2, <1>3, SubSeqRecursiveSecond
  <2>2. (k + 1) - 1 = k
    BY <1>2
  <2>3. text = cleared[t] \o <<cache[k + 1]>>
    BY <1>2, <1>4, AppendConcat
  <2> QED BY <1>2, <2>1, <2>2, <2>3
<1> HIDE DEF k, n, text
<1>7. cleared' \in [Threads -> Seq(Headers)] /\ cleared'[t] = text
  BY <1>1, <1>5 DEF FullInv, ListInv
<1>8. \A u \in Threads \ {t} : pc'[u] = pc[u] /\ cleared'[u] = cleared[u]
  BY <1>1 DEF FullInv, ListInv
<1>9. \A u \in Threads \ {t} : CallInv(u)'
  BY <1>1, <1>8, OthersKeep
<1>10. CallInv(t)'
  <2>1. k + 1 <= n
    BY <1>1, <1>2
  <2>2. Len(cleared'[t]) <= Len(cache') /\ cleared'[t] = SubSeq(cache', 1, Len(cleared'[t]))
    BY <1>1, <1>5, <1>6, <1>7, <2>1 DEF n
  <2>3. pc'[t] = "native" <=> outOfProcess'
    BY <1>1 DEF FullInv, ListInv, CallInv, Idle
  <2> QED BY <1>1, <2>2, <2>3 DEF CallInv, Idle
<1> QED BY <1>1, <1>2, <1>7, <1>9, <1>10 DEF FullInv, ListInv

(* The reply has been read: the list is what it should be.                  *)
LEMMA FilledListInv ==
  ASSUME FullInv, NEW t \in Threads, Filled(t)
  PROVE  ListInv' /\ cache \in {Wanted(r) : r \in Replies}
<1>1. /\ pc[t] = "filling" /\ pc'[t] = "relocking" /\ reply' = <<>>
      /\ \A u \in Threads \ {t} : pc'[u] = pc[u]
      /\ UNCHANGED <<outOfProcess, cache, cleared>>
  BY DEF FullInv, IInv, TypeOK, Filled, Goto
<1>2. \A u \in Threads \ {t} : CallInv(u)'
  BY <1>1, OthersKeep DEF Writing
<1>3. CallInv(t)'
  BY <1>1 DEF FullInv, ListInv, CallInv, Idle
<1>4. reply' \in Seq(Headers)
  BY <1>1, EmptySeq
<1>5. PICK r \in Replies : Filling(r)
  BY <1>1 DEF FullInv, ListInv, CallInv
<1>6. Wanted(r) = cache
  <2> DEFINE k == Len(cache)
             n == Len(r)
  <2>1. r \in Seq(Headers) /\ cache \in Seq(Headers)
    BY ReplyHeaders DEF FullInv, ListInv
  <2>2. k \in Nat /\ n \in Nat /\ k <= n
    BY <1>5, <2>1, LenProperties DEF Filling
  <2>3. reply = SubSeq(r, k + 1, n)
    BY <1>5 DEF Filling
  <2>4. k = n \/ r[k + 1] = Other
    <3>1. CASE k # n
      <4>1. k + 1 \in 1..n /\ n \in (k + 1)..n
        BY <2>2, <3>1
      <4>2. SubSeq(r, k + 1, n) = <<r[k + 1]>> \o SubSeq(r, (k + 1) + 1, n)
        BY <2>1, <4>1, SubSeqRecursiveFirst
      <4>3. Head(reply) = r[k + 1]
        BY <2>1, <2>3, <4>1, HeadTailOfSubSeq
      <4>4. reply # <<>>
        <5>1. \A i \in (k + 1)..n : r[i] \in Headers
          BY <2>1, <2>2, ElementOfSeq
        <5>2. Len(reply) = n - (k + 1) + 1 /\ Len(<<>>) = 0
          BY <2>2, <2>3, <4>1, <5>1, SubSeqProperties
        <5>3. n - (k + 1) + 1 # 0
          BY <2>2, <3>1
        <5> QED BY <5>2, <5>3
      <4> QED BY <4>3, <4>4 DEF Filled, ReplyRead
    <3> QED BY <3>1
  <2>5. k \in 0..n /\ \A i \in 1..k : r[i] # Other
    BY <1>5, <2>2 DEF Filling
  <2>6. Wanted(r) = SubSeq(r, 1, k)
    BY <2>1, <2>4, <2>5, WantedIs
  <2> QED BY <1>5, <2>6 DEF Filling
<1> QED BY <1>1, <1>2, <1>3, <1>4, <1>6 DEF FullInv, ListInv

(* What holds of the list and the calls is preserved by every step.         *)
LEMMA StepListInv ==
  ASSUME FullInv, NEW t \in Threads, Call(t) \/ Step(t)
  PROVE  ListInv'
<1>0. CallInv(t) /\ cache \in Seq(Headers) /\ <<>> \in Seq(Headers) /\ cleared[t] \in Seq(Headers)
  BY EmptySeq DEF FullInv, ListInv
<1>1. CASE Call(t)
  <2>1. (IF outOfProcess THEN "native" ELSE "rdlocking") \in {"native", "rdlocking"}
    OBVIOUS
  <2> QED BY <1>0, <1>1, <2>1, EndListInv DEF Call
<1>2. CASE ClearNatively(t)
  BY <1>0, <1>2, EndListInv DEF ClearNatively, Idle
<1>3. CASE RdLock(t)
  BY <1>0, <1>3, MoveListInv DEF RdLock, CallInv, Idle, Places
<1>4. CASE Check(t)
  BY <1>0, <1>4, MoveListInv DEF Check, CallInv, Idle, Places
<1>5. CASE WrLock(t)
  BY <1>0, <1>5, MoveListInv DEF WrLock, CallInv, Idle, Places
<1>6. CASE Recheck(t)
  BY <1>0, <1>6, MoveListInv DEF Recheck, CallInv, Idle, Places
<1>7. CASE SendThrows(t)
  BY <1>0, <1>7, MoveListInv DEF SendThrows, CallInv, Idle, Places
<1>8. CASE Cleared(t)
  BY <1>0, <1>8, MoveListInv DEF Cleared, CallInv, Idle, Places
<1> QED
  BY <1>1, <1>2, <1>3, <1>4, <1>5, <1>6, <1>7, <1>8, SendReturnsListInv, FillListInv,
     FilledListInv, ClearListInv DEF Step

(* The whole invariant is inductive.                                        *)
THEOREM FullInductive == Spec => []FullInv
<1>1. Init => FullInv
  BY InitIInv, InitListInv DEF FullInv
<1>2. FullInv /\ [Next]_vars => FullInv'
  <2>1. ASSUME FullInv, Next PROVE FullInv'
    BY <2>1, NextIInv, StepListInv DEF Next, FullInv
  <2>2. ASSUME FullInv, UNCHANGED vars PROVE FullInv'
    BY <2>2 DEF vars, FullInv, IInv, TypeOK, LockHeld, ListInv, CallInv, Filling
  <2> QED BY <2>1, <2>2
<1> QED BY <1>1, <1>2, PTL DEF Spec

(* A step of t is one of its call alone.                                    *)
LEMMA OneCall ==
  ASSUME TypeOK, NEW t \in Threads,
         \A u \in Threads \ {t} : pc'[u] = pc[u] /\ cleared'[u] = cleared[u]
  PROVE  /\ call' = [call EXCEPT ![t] = call'[t]]
         /\ result' = [result EXCEPT ![t] = result'[t]]
         /\ call'[t] = call[t] => call' = call
         /\ result'[t] = result[t] => result' = result
<1>1. \A u \in Threads \ {t} : call'[u] = call[u] /\ result'[u] = result[u]
  BY DEF call, result
<1>2. /\ call = [u \in Threads |-> call[u]] /\ call' = [u \in Threads |-> call'[u]]
      /\ result = [u \in Threads |-> result[u]] /\ result' = [u \in Threads |-> result'[u]]
  BY DEF call, result
<1>3. ASSUME call'[t] = call[t] PROVE call' = call
  <2>1. \A u \in Threads : call'[u] = call[u]
    BY <1>1, <1>3
  <2> QED BY <1>2, <2>1
<1>4. ASSUME result'[t] = result[t] PROVE result' = result
  <2>1. \A u \in Threads : result'[u] = result[u]
    BY <1>1, <1>4
  <2> QED BY <1>2, <2>1
<1> QED BY <1>1, <1>2, <1>3, <1>4

(* Who fills is the only one in the part that the lock guards.              *)
LEMMA ListIs ==
  ASSUME FullInv, NEW t \in Threads,
         pc[t] \in Reading \cup Writing \cup {"native"}
  PROVE  list = IF pc[t] = "filling" THEN <<>> ELSE cache
<1>1. CASE pc[t] \in Writing
  BY <1>1 DEF FullInv, IInv, LockHeld, list, Writing
<1>2. CASE pc[t] \in Reading
  <2>1. readers # {}
    BY <1>2 DEF FullInv, IInv, LockHeld
  <2>2. \A u \in Threads : pc[u] \notin Writing
    BY <2>1, HeaderCacheAssumption DEF FullInv, IInv, LockHeld, HeaderCacheAssumption
  <2> QED BY <1>2, <2>2 DEF list, Writing
<1>3. CASE pc[t] = "native"
  <2>1. \A u \in Threads : pc[u] # "filling"
    BY <1>3 DEF FullInv, ListInv, CallInv, Idle
  <2> QED BY <1>3, <2>1 DEF list
<1> QED BY <1>1, <1>2, <1>3

(* A step that starts or ends no filling, and does not change the list.     *)
LEMMA ListStays ==
  ASSUME TypeOK, NEW t \in Threads,
         \A u \in Threads \ {t} : pc'[u] = pc[u],
         pc[t] # "filling" /\ pc'[t] # "filling",
         cache' = cache
  PROVE  list' = list
<1>1. (\E u \in Threads : pc'[u] = "filling") <=> (\E u \in Threads : pc[u] = "filling")
  OBVIOUS
<1> QED BY <1>1 DEF list

(* The threads implement the list that is fetched once and as a whole: what *)
(* clearAttributeHeaders() promises each of its callers.                    *)
THEOREM HeaderListImplemented == Spec => ImplementsHeaderList
<1>1. Init => Abstract!Init
  BY DEF Init, Abstract!Init, list, call, result
<1>2. ASSUME FullInv, [Next]_vars PROVE [Abstract!Next]_<<list, call, result>>
  <2>1. TypeOK /\ \A t \in Threads : CallInv(t)
    BY <1>2 DEF FullInv, IInv, ListInv
  <2>2. CASE UNCHANGED vars
    BY <2>2 DEF vars, list, call, result
  <2>3. ASSUME NEW t \in Threads, Call(t) \/ Step(t)
        PROVE  [Abstract!Next]_<<list, call, result>>
    <3>0. \A u \in Threads \ {t} : pc'[u] = pc[u] /\ cleared'[u] = cleared[u]
      BY <1>2, <2>1, <2>3
      DEF FullInv, ListInv, TypeOK, Call, Step, ClearNatively, RdLock, Check, WrLock, Recheck,
          SendThrows, SendReturns, Fill, Filled, Clear, Cleared, Goto
    <3>1. /\ call' = [call EXCEPT ![t] = call'[t]]
          /\ result' = [result EXCEPT ![t] = result'[t]]
          /\ call'[t] = call[t] => call' = call
          /\ result'[t] = result[t] => result' = result
      BY <2>1, <3>0, OneCall
    <3>2. CASE Call(t)
      <4>1. /\ pc[t] \in Idle /\ pc'[t] \in {"native", "rdlocking"} /\ cache' = cache
        BY <2>1, <3>2 DEF Call, Goto, TypeOK, Idle
      <4>2. call[t] # "begun" /\ call'[t] = "begun" /\ result'[t] = <<>>
        BY <4>1 DEF call, result, Idle
      <4>3. list' = list
        BY <2>1, <3>0, <4>1, ListStays DEF Idle
      <4> QED BY <3>1, <4>2, <4>3 DEF Abstract!Next, Abstract!Begin
    <3>3. CASE ClearNatively(t) \/ Cleared(t)
      <4>1. /\ pc[t] \in {"native", "clearing"} /\ pc'[t] = "ended" /\ cache' = cache
            /\ cleared'[t] = cache
        <5>1. CASE ClearNatively(t)
          BY <1>2, <2>1, <5>1 DEF ClearNatively, Goto, TypeOK, FullInv, ListInv
        <5>2. CASE Cleared(t)
          <6>1. cache \in Seq(Headers) /\ cleared[t] \in Seq(Headers)
            BY <1>2 DEF FullInv, ListInv
          <6>2. /\ Len(cleared[t]) <= Len(cache) /\ Len(cleared[t]) >= Len(cache)
                /\ cleared[t] = SubSeq(cache, 1, Len(cleared[t]))
            BY <2>1, <5>2 DEF Cleared, CallInv
          <6>3. cleared[t] = cache
            <7>1. Len(cleared[t]) \in Nat /\ Len(cache) \in Nat
              BY <6>1, LenProperties
            <7>2. Len(cleared[t]) = Len(cache)
              BY <6>2, <7>1
            <7> QED BY <6>1, <6>2, <7>2, SubSeqFull
          <6> QED BY <2>1, <5>2, <6>3 DEF Cleared, Goto, TypeOK
        <5> QED BY <3>3, <5>1, <5>2
      <4>2. call[t] = "begun" /\ call'[t] = "ended" /\ result'[t] = cache
        BY <4>1 DEF call, result
      <4>3. list = cache
        BY <1>2, <4>1, ListIs DEF Reading
      <4>4. list' = list
        BY <2>1, <3>0, <4>1, ListStays
      <4> QED BY <3>1, <4>2, <4>3, <4>4 DEF Abstract!Next, Abstract!End
    <3>4. CASE SendThrows(t)
      <4>1. /\ pc[t] = "sending" /\ pc'[t] = "failed" /\ cache' = cache /\ cache = <<>>
        BY <2>1, <3>4 DEF SendThrows, Goto, TypeOK, CallInv
      <4>2. call[t] = "begun" /\ call'[t] = "failed" /\ result'[t] = result[t]
        BY <4>1 DEF call, result
      <4>3. list = <<>>
        BY <1>2, <4>1, ListIs DEF Writing
      <4>4. list' = list
        BY <2>1, <3>0, <4>1, ListStays
      <4>5. result' = result
        BY <3>1, <4>2
      <4> QED BY <3>1, <4>2, <4>3, <4>4, <4>5 DEF Abstract!Next, Abstract!Fail
    <3>5. CASE Filled(t)
      <4>1. /\ pc[t] = "filling" /\ pc'[t] = "relocking" /\ cache' = cache
            /\ cache \in {Wanted(r) : r \in Replies}
        BY <1>2, <2>1, <3>5, FilledListInv DEF Filled, Goto, TypeOK
      <4>2. call[t] = "begun" /\ call'[t] = call[t] /\ result'[t] = result[t]
        BY <4>1 DEF call, result
      <4>3. list = <<>>
        BY <1>2, <4>1, ListIs DEF Writing
      <4>4. list' = cache
        <5>1. \A u \in Threads : pc[u] = "filling" => u = t
          BY <1>2, <4>1 DEF FullInv, IInv, LockHeld, Writing
        <5>2. \A u \in Threads : pc'[u] # "filling"
          BY <3>0, <4>1, <5>1
        <5> QED BY <4>1, <5>2 DEF list
      <4>5. call' = call /\ result' = result
        BY <3>1, <4>2
      <4> QED BY <4>1, <4>2, <4>3, <4>4, <4>5 DEF Abstract!Next, Abstract!Fetch
    <3>6. CASE RdLock(t) \/ Check(t) \/ WrLock(t) \/ Recheck(t) \/ Clear(t)
      <4>1. /\ {pc[t], pc'[t]} \cap (Idle \cup {"filling"}) = {} /\ cache' = cache
        BY <2>1, <3>6 DEF RdLock, Check, WrLock, Recheck, Clear, Goto, TypeOK, Idle
      <4>2. call'[t] = call[t] /\ result'[t] = result[t]
        BY <4>1 DEF call, result, Idle
      <4>3. list' = list
        BY <2>1, <3>0, <4>1, ListStays
      <4>4. call' = call /\ result' = result
        BY <3>1, <4>2
      <4> QED BY <4>3, <4>4
    <3>7. CASE SendReturns(t) \/ Fill(t)
      <4>1. /\ pc[t] \in {"sending", "filling"} /\ pc'[t] = "filling"
            /\ pc[t] = "sending" => cache = <<>>
        BY <2>1, <3>7 DEF SendReturns, Fill, Goto, TypeOK, CallInv
      <4>2. call'[t] = call[t] /\ result'[t] = result[t]
        BY <4>1 DEF call, result
      <4>3. list = <<>>
        BY <1>2, <4>1, ListIs DEF Writing
      <4>4. list' = <<>>
        BY <4>1 DEF list
      <4>5. call' = call /\ result' = result
        BY <3>1, <4>2
      <4> QED BY <4>3, <4>4, <4>5
    <3> QED BY <2>3, <3>2, <3>3, <3>4, <3>5, <3>6, <3>7, Zenon DEF Step
  <2> QED BY <1>2, <2>2, <2>3 DEF Next
<1> QED
  BY <1>1, <1>2, FullInductive, PTL DEF Spec, ImplementsHeaderList, Abstract!Spec
=============================================================================
