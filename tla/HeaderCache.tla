----------------------------- MODULE HeaderCache -----------------------------
(***************************************************************************)
(* Application::clearAttributeHeaders(): the threads of a web server child  *)
(* share m_unsetHeaders, which the first of them fetches from the daemon    *)
(* under the write lock.  A writer looks again after it has the lock, which *)
(* it cannot take while it reads, and reads under the read lock.            *)
(***************************************************************************)
EXTENDS Naturals, Sequences, SequencesExt

CONSTANTS
  Threads,  \* the threads that call it
  NoThread, \* nobody
  Replies,  \* the lists with which the daemon may reply
  Other,    \* a member of a list that is not a named string
  MaxCalls  \* bound: calls of a thread

ASSUME HeaderCacheAssumption ==
  /\ NoThread \notin Threads
  /\ MaxCalls \in Nat
  /\ \A r \in Replies : r \in Seq(ToSet(r))

VARIABLES
  outOfProcess, \* the feature OutOfProcess of this process
  pc,           \* where each thread is
  calls,        \* how often each has called
  readers,      \* the threads that hold m_lock to read
  writer,       \* the thread that holds it to write
  cache,        \* m_unsetHeaders
  reply,        \* what the writer has not yet read of the reply
  cleared       \* what the last call of each thread has cleared

vars == <<outOfProcess, pc, calls, readers, writer, cache, reply, cleared>>

Places == {"none", "rdlocking", "checking", "wrlocking", "rechecking", "sending", "filling",
           "relocking", "clearing", "native", "ended", "failed"}
Writing == {"rechecking", "sending", "filling"}
Reading == {"checking", "clearing"}

TypeOK ==
  /\ outOfProcess \in BOOLEAN
  /\ pc \in [Threads -> Places]
  /\ calls \in [Threads -> 0..MaxCalls]
  /\ readers \subseteq Threads
  /\ writer \in Threads \cup {NoThread}

Init ==
  /\ outOfProcess \in BOOLEAN
  /\ pc = [t \in Threads |-> "none"]
  /\ calls = [t \in Threads |-> 0]
  /\ readers = {} /\ writer = NoThread
  /\ cache = <<>> /\ reply = <<>>
  /\ cleared = [t \in Threads |-> <<>>]

Goto(t, place) == pc' = [pc EXCEPT ![t] = place]

Call(t) ==
  /\ pc[t] \in {"none", "ended", "failed"} /\ calls[t] < MaxCalls
  /\ calls' = [calls EXCEPT ![t] = @ + 1]
  /\ cleared' = [cleared EXCEPT ![t] = <<>>]
  /\ Goto(t, IF outOfProcess THEN "native" ELSE "rdlocking")
  /\ UNCHANGED <<outOfProcess, readers, writer, cache, reply>>

(* A process with the feature OutOfProcess fetches nothing and takes no lock. *)
ClearNatively(t) ==
  /\ pc[t] = "native"
  /\ cleared' = [cleared EXCEPT ![t] = cache]
  /\ Goto(t, "ended")
  /\ UNCHANGED <<outOfProcess, calls, readers, writer, cache, reply>>

(* The two calls of rdlock().                                               *)
RdLock(t) ==
  /\ pc[t] \in {"rdlocking", "relocking"} /\ writer = NoThread
  /\ readers' = readers \cup {t}
  /\ Goto(t, IF pc[t] = "rdlocking" THEN "checking" ELSE "clearing")
  /\ UNCHANGED <<outOfProcess, calls, writer, cache, reply, cleared>>

(* Mutant: the read lock is kept while the write lock is waited for.        *)
CheckKeeping(t) ==
  /\ pc[t] = "checking"
  /\ Goto(t, IF cache = <<>> THEN "wrlocking" ELSE "clearing")
  /\ UNCHANGED <<outOfProcess, calls, readers, writer, cache, reply, cleared>>

Check(t) ==
  /\ pc[t] = "checking"
  /\ readers' = IF cache = <<>> THEN readers \ {t} ELSE readers
  /\ Goto(t, IF cache = <<>> THEN "wrlocking" ELSE "clearing")
  /\ UNCHANGED <<outOfProcess, calls, writer, cache, reply, cleared>>

WrLock(t) ==
  /\ pc[t] = "wrlocking" /\ writer = NoThread /\ readers = {}
  /\ writer' = t
  /\ Goto(t, "rechecking")
  /\ UNCHANGED <<outOfProcess, calls, readers, cache, reply, cleared>>

(* Mutant: the list is not looked at again under the write lock.            *)
RecheckNot(t) ==
  /\ pc[t] = "rechecking"
  /\ Goto(t, "sending")
  /\ UNCHANGED <<outOfProcess, calls, readers, writer, cache, reply, cleared>>

Recheck(t) ==
  /\ pc[t] = "rechecking"
  /\ writer' = IF cache = <<>> THEN writer ELSE NoThread
  /\ Goto(t, IF cache = <<>> THEN "sending" ELSE "relocking")
  /\ UNCHANGED <<outOfProcess, calls, readers, cache, reply, cleared>>

(* Mutant: nobody releases the write lock when send() throws.               *)
SendThrowsLocked(t) ==
  /\ pc[t] = "sending"
  /\ Goto(t, "failed")
  /\ UNCHANGED <<outOfProcess, calls, readers, writer, cache, reply, cleared>>

(* send() throws: the SharedLock of the block releases the write lock, and  *)
(* the exception leaves the function.                                       *)
SendThrows(t) ==
  /\ pc[t] = "sending"
  /\ writer' = NoThread
  /\ Goto(t, "failed")
  /\ UNCHANGED <<outOfProcess, calls, readers, cache, reply, cleared>>

SendReturns(t) ==
  /\ pc[t] = "sending"
  /\ reply' \in Replies
  /\ Goto(t, "filling")
  /\ UNCHANGED <<outOfProcess, calls, readers, writer, cache, cleared>>

(* Mutant: members of the reply that are no strings are not told apart.     *)
FillAny(t) ==
  /\ pc[t] = "filling" /\ reply # <<>>
  /\ cache' = Append(cache, Head(reply))
  /\ reply' = Tail(reply)
  /\ UNCHANGED <<outOfProcess, pc, calls, readers, writer, cleared>>

(* The loop over the reply ends at the first member that is not a named     *)
(* string, and at once if the reply is not a list, here an empty one.       *)
Fill(t) ==
  /\ pc[t] = "filling" /\ reply # <<>> /\ Head(reply) # Other
  /\ cache' = Append(cache, Head(reply))
  /\ reply' = Tail(reply)
  /\ UNCHANGED <<outOfProcess, pc, calls, readers, writer, cleared>>

ReplyRead == IF reply = <<>> THEN TRUE ELSE Head(reply) = Other

(* Mutant: the writer goes on to clear without the read lock.               *)
FilledUnlocked(t) ==
  /\ pc[t] = "filling" /\ ReplyRead
  /\ writer' = NoThread
  /\ reply' = <<>>
  /\ Goto(t, "clearing")
  /\ UNCHANGED <<outOfProcess, calls, readers, cache, cleared>>

Filled(t) ==
  /\ pc[t] = "filling" /\ ReplyRead
  /\ writer' = NoThread
  /\ reply' = <<>>
  /\ Goto(t, "relocking")
  /\ UNCHANGED <<outOfProcess, calls, readers, cache, cleared>>

(* for_each() over the list; clearHeader() of a PEPRequestImpl does nothing *)
(* that could fail.                                                         *)
Clear(t) ==
  /\ pc[t] = "clearing" /\ Len(cleared[t]) < Len(cache)
  /\ cleared' = [cleared EXCEPT ![t] = Append(@, cache[Len(@) + 1])]
  /\ UNCHANGED <<outOfProcess, pc, calls, readers, writer, cache, reply>>

Cleared(t) ==
  /\ pc[t] = "clearing" /\ Len(cleared[t]) >= Len(cache)
  /\ readers' = readers \ {t}
  /\ Goto(t, "ended")
  /\ UNCHANGED <<outOfProcess, calls, writer, cache, reply, cleared>>

Step(t) ==
  \/ ClearNatively(t) \/ RdLock(t) \/ Check(t) \/ WrLock(t) \/ Recheck(t)
  \/ SendThrows(t) \/ SendReturns(t) \/ Fill(t) \/ Filled(t) \/ Clear(t) \/ Cleared(t)

Next == \E t \in Threads : Call(t) \/ Step(t)

(* A thread that has called runs, and send() ends (RemoteCall).             *)
Fairness == \A t \in Threads : WF_vars(Step(t))

Spec == Init /\ [][Next]_vars /\ Fairness

-----------------------------------------------------------------------------
(* Properties.                                                              *)

(* Who is in the part of the function that the lock guards holds it, in the *)
(* right mode, and nobody else does, also after an exception; nobody reads  *)
(* the list, or looks whether it is empty, while it is filled, nor takes    *)
(* the write lock while it still reads (Application.cpp:122-147).           *)
LockHeld ==
  /\ readers = {t \in Threads : pc[t] \in Reading}
  /\ \A t \in Threads : pc[t] \in Writing <=> writer = t
  /\ writer # NoThread => readers = {}

(* The calls behave as those of HeaderList: whatever the order of the       *)
(* threads, the list is fetched once and as a whole, no call sees a part of *)
(* it, and only a call that found no list fails.                            *)
Wanted(r) == IF Other \in ToSet(r) THEN SubSeq(r, 1, SelectInSeq(r, LAMBDA h : h = Other) - 1) ELSE r
list == IF \E t \in Threads : pc[t] = "filling" THEN <<>> ELSE cache
call == [t \in Threads |-> IF pc[t] \in {"none", "ended", "failed"} THEN pc[t] ELSE "begun"]
result == [t \in Threads |-> IF pc[t] = "ended" THEN cleared[t] ELSE <<>>]
Abstract == INSTANCE HeaderList WITH Lists <- {Wanted(r) : r \in Replies}, cleared <- result
ImplementsHeaderList == Abstract!Spec

(* Every call ends: no thread waits for ever for a lock that is held by one *)
(* that waits itself, or by one that has left.                              *)
CallsEnd == \A t \in Threads : pc[t] = "rdlocking" ~> pc[t] \in {"ended", "failed"}
=============================================================================
