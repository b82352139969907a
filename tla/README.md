# Verification of pep

pep is a policy enforcement point for Apache. A web server module, `mod_pep`,
asks for every request to a protected directory whether the user may have it; a
daemon, `pepd`, carries the question to a policy decision point (PDP) as a XACML
request over SOAP and turns the answer into headers that `mod_pep` enforces. Both
halves are built on the library `libpep`, whose remoting layer connects them by
Unix sockets.

This directory holds TLA+ models of the program, the TLC configurations that check
them on small instances, and TLAPS proofs. All paths below are relative to the root
of the repository. `PROJECT.json` lists the runs, the source lines that every definition
stands for, one mutant per checked property (a plausible bug that the property
catches), the hazards, the findings and the theorems.

## 1. The system

### 1.1 Parts

| Part | Where | State it keeps | Operations |
|---|---|---|---|
| Server threads | `remoting/impl/SocketListener.cpp` 225-285, 417-580 | `m_children`, `*m_shutdown`, the descriptors | `run`, `ServerThread::run`, `job`, `~ServerThread` |
| Client of the listener | `SocketListener.cpp` 53-223, 287-388 | `SocketPool::m_pool`, the sockets, `errno` | `send`, `get`, `put`, `connect`, `~SocketPool` |
| Unix transport | `remoting/impl/UnixListener.cpp` | the socket file, `m_bound` | `bind`, `close`, `connect`, `recv`, `send` |
| Remoted endpoints | `remoting/impl/ListenerService.cpp`, `core/PEP.cpp` 132-160, `RemotedHandler.cpp` 240-270 | `m_listenerMap` | `regListener`, `unregListener`, `lookup`, `receive` |
| Authorization flow | `mod_pep.c`, `api/api.cpp`, `AuthorizationHandler.cpp`, `RemotedHandler.cpp` | headers of a request, `t_authz_response` | `check_pep_authz`, `run`, `receive`, `processAuthzResponse`, `unwrap`, `processResponse` |
| Daemon | `pepd.cpp` | pid file, socket file, the shutdown flag | start, `SIGUSR1` to the parent, signal handlers, stop |
| Configuration | `config/PEPConfig.cpp`, `core/XMLApplication.cpp` | `m_initCount`, application map, overrides, handlers | `initialize`, `terminate`, lookups |
| Header cache | `core/Application.cpp` | `m_unsetHeaders` behind a read/write lock | `clearAttributeHeaders` |
| Data trees | `remoting/impl/ddf.cpp` | linked nodes with a cursor per list | add, remove, copy, iterate, serialize |
| Utilities | `util/DOMPropertySet.cpp`, `CGIParser.cpp`, `IPRange.cpp` | properties, parameters, a masked address | load, parse, match |
| XACML request | `core/XACMLRequestBuilder.cpp` | the document being built | one call per attribute |
| Request facade | `core/PEPRequestImpl.cpp`, `AbstractPEPRequest.cpp` | `m_ResponseHeaderMap`, the URI | setters and getters |

(The paths without a directory are under `src/libpep/src/pep/`, `pepd.cpp` is
`src/pepd/src/main/pepd.cpp`, `mod_pep.c` is `src/mod_pep/src/mod_pep.c`.)

### 1.2 How they interact

A worker thread of Apache runs `check_pep_authz`, which calls
`pep_check_authorization`; `PEP::doHandler` finds the application and its
`AuthorizationHandler`, whose `run` wraps the request into a DDF and calls
`SocketListener::send`. That takes a socket from the pool all threads of
the child share, or connects a new one, sends length and body, and blocks for length
and body of the reply. In `pepd` the listener thread has accepted the connection and
started a `ServerThread`, which reads the message, calls
`ListenerService::receive` (the endpoint is looked up by its address), and
sends the reply, or an `exception` DDF if the handler threw. The handler asks the PDP and
collects headers in the reply. Back in the web server `unwrap` copies these into the request,
`processResponse` reads a decision from them, and `check_pep_authz` enforces it.

Shared state, and who shares it: `m_pool` (threads of one web server child), `m_children` and
`m_child_wait` (all threads of `pepd`), the descriptor numbers of each process (all its
threads; the kernel reuses a number as soon as it is closed), `*m_shutdown` (the signal handler
of `pepd` and every thread), the socket file (two generations of `pepd`), the configuration (all
threads, read only once loaded).

### 1.3 What is hard

- **Reused descriptors.** A `ServerThread` closes its socket before it removes the number from
  `m_children`; another connection can get the number in between. The worker therefore waits
  at its start until the number is free.
- **One condition variable for two kinds of waiters.** Workers wait for *their* number,
  `run()` waits for an empty map, and `signal()` wakes one of them.
- **Shutdown.** The flag is polled; workers that have not registered yet, that sleep, or that are in the
  middle of a message all have to be gone, or harmless, when `run()` returns.
- **Retry and restart.** `send()` retries once. A retry after the daemon has acted
  would act twice; pooled sockets outlive the daemon they were connected to.
- **Failure anywhere.** The decision has to be "no" when the configuration, the socket, the daemon, the
  SOAP call, the answer or a header fails.
- **Data that changes on the way.** An empty string does not survive serialization as a
  string.

### 1.4 What makes each part correct

Server threads: the registry is exact, no worker touches a connection that is not its
own, none works after `run()` has returned, shutdown ends, requests are answered. Client: a message is
handled at most once, a caller gets its own reply, pooled sockets are clean. Authorization:
fails closed, and headers come only from what the PDP said. Endpoints: no call of a
destroyed handler. Daemon: the parent reports what happened to the child. Configuration: an inherited
or overridden setting is the nearest one. Data trees: a tree stays a tree, its size is its number of
members, iteration with removal visits every member once, and what is received is what was sent.

## 2. Modules

| Module | Models | Used by |
|---|---|---|
| `ServerThreads` | server half of `SocketListener` | `MCServerThreads`, `ServerThreadsProofs` |
| `ServerThreadsProofs` | proofs | |
| `AtMostOnceCall` | abstract: what `ListenerService::send` promises | `RemoteCall` (refinement), `Authorization` (composition) |
| `RemoteCall` | client half of `SocketListener`, `SocketPool`, and `job()` | `MCRemoteCall`, `RestartHistory` |
| `RestartHistory` | `RemoteCall` with a history variable, for `SurvivesOneRestart`; its own run | `RemoteCallProofs` |
| `RemoteCallProofs` | proofs | |
| `Authorization` | a request from `mod_pep` to the PDP and back | `AuthorizationProofs` |
| `AuthorizationProofs` | proofs | |
| `OrderedForest` | abstract: what a DDF promises | `DataTree` (refinement) |
| `DataTree` | `DDF`: nodes, links and cursors on the heap | `MCDataTree`, `DataTreeProofs` |
| `DataTreeProofs` | proofs: the nodes are trees, and implement the forest | |
| `Endpoints` | the configuration as it is read, and the maps a remoted call is looked up in | `EndpointsProofs` |
| `EndpointsProofs` | proofs | |
| `Daemon` | starts and stops of `pepd`, parent and child process | `MCDaemon`, `DaemonProofs` |
| `DaemonProofs` | proofs | |
| `HeaderList` | abstract: a list that is fetched once, as a whole | `HeaderCache` (refinement) |
| `HeaderCache` | `Application::clearAttributeHeaders` | `MCHeaderCache`, `HeaderCacheProofs` |
| `HeaderCacheProofs` | proofs | |
| `Packet` | a DDF as a value: paths, serialization, parsing | `RemotedMessage`, `MCAlgorithms` |
| `XACMLRequest` | `XACMLRequestBuilder` | `RemotedMessage` |
| `RemotedMessage` | what a request and its answer say, from the web server to the PDP and back | `MCRemotedMessage` |
| `CGIParameters`, `AddressRanges`, `PropertySets` | pure parts of the library, each with the definition it is compared with | `Algorithms` |
| `Algorithms` | the properties of these three, of an input | `MCAlgorithms`, `AlgorithmsProofs` |
| `AlgorithmsProofs` | proofs | |

`RemoteCall` implements `AtMostOnceCall`, and `Authorization` is built on `AtMostOnceCall`, so that
the authorization flow is checked against everything a remoted call can do without the
sockets in its state. `Authorization` and `RemotedMessage` are two views of one path: the first has its control, with every failure and
the meaning of the answer, and leaves out what is asked; the second follows the texts through every form they take.

### 2.1 ServerThreads

`Conns` are connections; since every accepted connection gets one `ServerThread`, the same
element is both. `sock[c]` is `m_sock`, a descriptor *number*; what a number stands
for at the moment is `fdTable`. Every read, write and close of a worker goes through
`fdTable[sock[c]]`, so a worker that used a number too long would reach someone else's client.

| Action | Code |
|---|---|
| `Connect`, `SendLength`, `SendBody`, `HangUp` | a client of the daemon, in the steps `send()` makes |
| `Terminate` | the signal handler of `pepd` |
| `MainCheck`, `MainContinue`, `MainSelectError`, `Accept`, `AcceptNoThread`, `Drain` | `SocketListener::run` |
| `OwnOrWait`, `WorkerCheck`, `WorkerSelect`, `WorkerSelectError` | `ServerThread::run` |
| `ReadMessage`, `Dispatch`, `SendReply`, `JobEnds` | `ServerThread::job`, and the `close` after it |
| `Erase`, `Signal`, `SpuriousWakeup` | `~ServerThread` and `CondWait` |

A critical section of `m_child_lock` is one action. `signal()` is called behind it
and is an action of its own, because another thread can get in between. The three ways in which system calls fail
(`Faults`) are switched by a constant, since with them a descriptor may stay open for ever.

### 2.2 RemoteCall and AtMostOnceCall

A call of `send()` is a thread. The client's states are the lines of `send()`: `get` from
the pool (`GetPooled`, `GetNew`, `GetFails`), `connect` with its attempts (`Connected`, `ConnectFails`),
`send` (`Send`, `SendFails` with the retry), `length` and `body` (`RecvLength`, `RecvBody`,
`RecvFails`, `Interrupted`). `errno` is kept per thread because the loops around
`recv()` test it even if `recv()` did not set it. The daemon's `job()` is
`Receive`, `Dispatch`, `SendLength`, `SendBody`; `DetectClosure` is the worker that finds its client gone between two
messages, `ReplyFails` the one that cannot send its reply. A reply that cannot be parsed, or whose exception cannot be made again, is a
failure like the others, but for the socket, which is back in the pool by then (`RecvBody`).
`Stop` kills the daemon at any point, between the two halves of a reply too, and `Start` starts another; `ChildEnds`
ends the web server child, between two calls (`~SocketPool`) or in the middle of some, which are then `"lost"`: `pepd` may still handle what they have sent.

`RestartHistory` adds one variable, `spare[c]`: whether another stale socket was in the pool, or about to enter it with a reply that can be read to its
end (`Complete`), when the first `send()` of call `c` failed (`OtherStale`). It is only written (`Remember`), so every behaviour of `RemoteCall` is one
of `RestartHistory`. `SurvivesOneRestart` needs it: whether a call may fail at its second attempt depends on what the first one left behind.

`AtMostOnceCall` says what the callers rely on: a call is handled at most once, ends with its own
result, and is not handled any more after it has failed; with its process it is lost (`Lose`). `ImplementsCall` states that `RemoteCall` implements it
under the mapping `callState`: a call that has not ended is `"handled"` once its handler has run. The fairness it promises, by which a call ends, has one exception:
the thread that calls `recv()` for ever because an `EINTR` is left over in `errno` (`Spins`).

### 2.3 Authorization

The web server's side is a pipeline of actions (`Remote`, `Returned`/`Raised`/`Failed`, `Unwrap` header
by header, `ProcessResponse`, `Enforce`), with the early exits `NotEnabled`,
`BadUri` and `NoHandler`. The daemon's side is `Receive`, the PDP's answer, and one
action per child of the `Result` (`ReadDecision`, `ReadStatus`, `ReadObligation`), which appends to the
reply. The `Result` is not chosen in advance: it is the history of what has been read, so every
sequence of children up to `MaxChildren` is examined. The call in between is `AtMostOnceCall`
by `INSTANCE`, so it can fail at any moment, after the daemon has acted as well.

Texts are abstracted to what matters: a text the request accepts as a header, a
text it refuses (`Refused`, line breaks in `setResponseHeader`), and the empty one, which ends `unwrap`'s loop.

### 2.4 DataTree and OrderedForest

`heap` holds the `ddf_body_t`s with their six links and the count; an operation of the heap (`Unlink` for
`remove()`, `LinkLast`, `Retype`, ...) maps a heap to a heap, and a function that calls others, such as `add()` with its
`getmember().destroy()` and `remove()`, composes them in that order. Every call is an action, and `call` and
`result` record what was called and what it returned.

`OrderedForest` has no links: `lists` gives each node the sequence of its members, and the number of them an iteration has passed; `ListOf`
reads both off the heap.
`ImplementsForest` states that the linked nodes implement it, call by call: the sequences change as they should, freed memory
is not reached any more, and `first`, `next`, `last` and `previous` return the member at the cursor, also after members were added
and removed on either side of it. `remove()` steps the cursor back to the predecessor, which is what makes an iteration that removes
as it goes visit each of the others once; the null that stands for "before the first member" is position 0.

Paths of several names, indexes and values are in `Packet`. Not in the models: failing allocations. Names are
given when a node is made; a second `name()` would break the uniqueness of a struct's names, and no code calls it so.

### 2.5 Endpoints

`PEPConfig::initialize` reads the elements of the document in their order, and each takes effect at
once. An action reads one element: a listener (`ReadListener`), an
`ApplicationDefaults` (`ReadDefaults`), a handler in it (`ReadBaseHandler`), its end, where the application is
registered (`RegisterBase`), then its overrides (`ReadOverride`, `ReadOverrideHandler`, `RegisterOverride`); `Validate` is what
`main()` does after that. Which element comes next is open, so every document within the bounds is read. `reading` is the
place in the document, `base` and `override` are the shared pointers on the stack of `parseApplicationConfig`.

Handlers are numbered in the order in which they are made, and an application keeps both `m_handlers` (`own`, what is destroyed with it)
and `m_handlerMap` (`at`, what a request finds). The maps of addresses are those of the daemon: `remote` of the listener in
use, `local` of the PEP. A handler goes into `remote` only if there is a listener yet, into `local` always, and its destructor
removes it from `remote` alone. A handler without a `pdpURL` or a `Location` never is: its constructor makes a string
of a null pointer (`AuthorizationHandler.cpp:116`, 119) and the process dies (`HandlerDies`). The web server reads the same document, so the
handler it chooses for a request is the one in `at` of the registered application (`Chosen`), and the daemon should look up
that very handler (`Lookup`). An override may have the id of an application that is registered; the log reports it as skipped, and `skipped` remembers the
addresses its handlers had, until an application of that id is read again.

### 2.6 Daemon

An element of `Daemons` is one start of `pepd`. `child` is where its `main()` is, `parent` where the process is that forked it; with `-F` and
`-t` there is no fork. `Start` reads the command line; `Load`, `Create`, `Unlink`, `Bind`, `Listen`, `Detach`, `WritePid`
and `Notify` are the start in its order (`UnixListener::create`, `bind`, `listen` one system call at a time, since another start can
get in between), each with its failure; `ParentExits` is the end of the parent's sleep, at any time, as any signal ends it;
`Stop` is a signal to the child, `RunReturns`, `Term`, `Clean` the end of `main()`, and `Kill` a death without it. What all starts share are `socketFile`, what
the path of the socket leads to, and `pidFile`. `Orderly` names the two ways to use `pepd` under which its files stay in
order: without `-f`, or one daemon after the other. With `-f` beside a living daemon they do not, as the option is meant.

### 2.7 HeaderCache and HeaderList

`HeaderCache` is one call per thread of `clearAttributeHeaders()`, with the read/write lock (`readers`, `writer`), the first look at
`m_unsetHeaders` (`Check`), the second one under the write lock (`Recheck`), the remote call (`SendReturns`, `SendThrows`), and the two loops
a header at a time (`Fill`, `Clear`), so that a thread that got in without the lock would see half a list. `HeaderList` has no lock: the list is there or not, one step
fetches it, one step clears it all. `ImplementsHeaderList` maps a list that is still being filled to none.

### 2.8 RemotedMessage, Packet and XACMLRequest

`RemotedMessage` carries one check through its forms: `apache` (the `request_rec`), the `t_authz_request` and the getters of `PEPRequestImpl` (`AuthzRequest`, `PEPRequest`),
the DDF that `wrap()` makes (`CheckAuthz`), the packet (`Send`), what the daemon parses of it (`Parse`, `Refuse`), what `RemotedRequest` answers of that
(`RemotedRequest`), the XACML document (`Receive`, with `XACMLRequest`), the headers of the reply (`Reply`) and their way
back (`Return`, `ReturnFails`, `Unwrap`, `UnwrapThrows`, `Unwrapped`). A certificate is a text until the daemon has loaded it; from then on it is what the library
gives back of it (`Encoding`), which is the same for a certificate in PEM and in base64 alone. The library refuses a header with a control character
(`Control`), and `run()` goes on with those that were set before.

`Packet` is the value a DDF has, without the pointers of `DataTree`: `GetMember` and `AddMember` with their paths, `Serialize`,
`Deserialize` and `Parses`. A text is a sequence of atoms: a part of a text, an escape, or one of `Raw`, which is no UTF-8. That is as fine as
it has to be: concatenation, unescaping and whether a parser takes it are all that happens to a text.

### 2.9 Pure algorithms

`CGIParameters` (`CGIParser.cpp`), `AddressRanges` (`IPRange.cpp`, and the list and port of `TCPListener.cpp`) and `PropertySets`
(`DOMPropertySet.cpp`, and the getters of `AbstractHandler.cpp`) have operators for the functions and, next to them, what the functions should
compute in a form of its own: the definition of the URL encoding (cut, then decode), prefixes by division instead of masks, the nearest element that
says something. `Algorithms` compares the two on an input, and `MCAlgorithms` takes every input of a bounded domain in one step, those of `Packet`
included.

The words of a text are a recursive function of positions (`Words`), as `fmakeword` walks through it. The parameters of a request are a list in the order of insertion, which `kvp_map`
keeps among equal names; `GetParameters` (`equal_range`) is the set of their positions. `Overwrite` is the loop of `getAll`. A number is what
`atoi` makes of a text (`IntOf`) or `lexical_cast` (`UnsignedOf`); they need to agree only up to `INT_MAX` (`NumberAssumption`).

## 3. Runs

| Run | Instance | What it shows |
|---|---|---|
| `ServerThreads_safety` | 3 connections, 2 numbers, all faults | `RegistryExact`, `SoleOwner`, `OwnConnection`, `NoJobAfterReturn` |
| `ServerThreads_live` | 3 connections, 1 number, no faults, fair | `NoLeak`, `ShutdownCompletes`, `RequestAnswered` |
| `ServerThreads_waiters` | 4 connections, 2 numbers | the finding of section 6 |
| `RemoteCall_safety` | 3 calls (one throws), 2 sockets, 2 attempts of `connect`, 1 stop, signals | `AtMostOnce`, `OwnAnswer`, `PoolClean` |
| `RemoteCall_live` | 2 calls, 2 sockets, 2 stops, signals, fair | `SurvivesOneRestart`, `NoOrphanWork`, `ImplementsCall` |
| `Authorization_safety` | 1 request, 2 texts (one refused), 4 children, fair | `PermitOnlyIfPermitted`, `FailClosed`, `ObligationsFromPDP`, `RequestEnds` |
| `DataTree_safety` | 4 nodes, at most 3 of them containers, 2 names | `WellFormed`, `ImplementsForest` |
| `Endpoints_safety` | 2 ids, 2 locations, 4 handlers, 2 listeners | `EndpointsServed`, `ListenerLive` |
| `Daemon_safety` | 2 starts, 4 command lines, fair | `SuccessTruthful`, `ServerReachable`, `PidFileStable`, `StopEnds` |
| `HeaderCache_safety` | 3 threads with 2 calls each, 4 replies, fair | `LockHeld`, `ImplementsHeaderList`, `CallsEnd` |
| `RemotedMessage_safety` | 504 requests, 6 answers | `RequestArrives`, `AskedAbout`, `OnlyUnreadableFails`, `ReplyArrives` |
| `Algorithms_safety` | every input of section 2.9's domains, trees and paths | `TreeArrives`, `MembersAdded`, `ParametersRead`, `ListedAdmitted`, `PropertiesRead` |

Why the bounds are enough. *ServerThreads*: the interesting races need a worker that is leaving, one that got its
number and waits, and a third party (`run()` or another worker); three connections over two numbers have them all, and the
safety properties are proved for every number anyway. For liveness one number is the worst
case: every connection waits for its predecessor. *RemoteCall*: two sockets and three calls let a pooled socket be stale, be taken
by another call, and leave one call without a descriptor; one stop can fall between any two steps; the attempts of
`connect` are two, the least number with a first that is counted down and a last that gives up, and their real number, three, in the two-stop instance. The two-stop instance lets the retry meet a second restart, and with two sockets one can be stale in the pool, or on its way there with another call, while the first attempt fails with
the other. The child may end at any step of either. *Authorization*: the
reply's reading order matters, so the bound is the number of children: with four a result can have a decision, a status
and two obligations in any order, or any of them twice. *DataTree*: with four nodes a list has a member with a neighbour on both
sides, and a subtree of two levels can move between two containers; with two names a struct has members that collide and members that
do not. Of four nodes in trees at least one holds no member, so `FewContainers` (a state constraint, for the time the run takes) goes on only from heaps with at most three that can hold one.
Within the memory and that constraint every sequence of calls is explored, and both properties are proved for any memory. *Endpoints*: four handlers let one address be taken by
a handler that stays, one of an override with the same id, one of a later application with the same id, and one of another override;
the second listener is the one that forgets the registrations of the first. The properties are proved without the bounds.
*Daemon*: what two starts can do to each other's files needs two, and what was there before them (`Earlier`) stands for a third. *HeaderCache*: one thread
fetches, one waits for the lock to fetch, one reads; the second call is the one that finds a list, or, after a failure, fetches again. The replies have a member that is
no string at the end, in the middle and not at all. `CallsEnd` is about calls of this number: it shows that nobody waits for a lock that is never given back, and
not that a writer gets the lock from readers without end. *RemotedMessage*: every field that may be missing is, every field that may hold
bytes that are no UTF-8 does, alone and together with others. *Algorithms*: trees of three levels
with all types of node; paths of three names; texts of five characters or escapes; address families of 2 and 3 bits instead of 32 and 128, with every address, every
prefix length from -1 to 4 and every client; chains of three sets, with a number above `INT_MAX` among the texts. But for the trees, the properties are proved for inputs of any size and any widths.

The type invariants of `ServerThreads`, `Daemon` and `HeaderCache` are proved, and not among the properties of a run; those of `RemoteCall`,
`Authorization` and `Endpoints` are both; that of `DataTree` is a conjunct of `WellFormed`, which is proved.

`SYMMETRY` is used only in runs without a liveness property, and only over sets whose elements
no action names. `DataTree_safety` explores states that differ in the last call alone once (`VIEW Memory`); no action reads it,
and the steps into such a state are all checked.

## 4. Fairness

`ServerThreads`: every thread is scheduled (weak fairness of `Main` and of each `Worker`), and a client that has begun a message
completes it or closes (`SendBody`): `send()` makes the two calls one after the other. Without the last assumption `run()`
may wait for ever, because `recv()` in `job()` has no timeout (that is a hazard, line 521). Nobody
has to connect, to send, to hang up or to stop the daemon; a spurious wakeup never has to happen.
`RemoteCall`: every caller and every worker runs; the daemon need not be started
again. `Authorization`: the same, plus a PDP that answers or fails; a thread that hangs in the SOAP call
hangs the request (opensaml's timeout is outside this repository).
`Daemon`: both processes run, and the parent's `sleep()` ends; nobody has to start, stop or kill anything. That `run()` returns once the flag is set is
`ShutdownCompletes` of `ServerThreads`. `HeaderCache`: every thread that has called runs, and `send()` ends.

## 5. Proofs

`ServerThreadsProofs` proves, for any sets of connections and descriptors and any `Faults`, of `Spec`:

- `Inductive`: `Spec => []IInv`, with `IInv` the conjunction of `TypeOK`, `RegistryExact`, `SoleOwner`, `OwnConnection`
  and `MainInv`;
- `TypeCorrect`, `RegistrySafe` (`RegistryExact`), `OwnerSafe` (`SoleOwner`), `ConnectionSafe` (`OwnConnection`), `ReturnSafe` (`NoJobAfterReturn`);
- `LeakSafe` (`NoLeak`).

The only assumption is `ServerAssumption` (the two null values are not elements of the sets, `Faults` are known kinds). The
conjuncts need each other. `RegistryExact` says which numbers are in `m_children`, and it is preserved by `Erase` only if no
other registered worker has the same number (`SoleOwner`); `SoleOwner` is preserved by
`OwnOrWait` because an unregistered number has no registered owner (`RegistryExact`). `OwnConnection` is preserved
by `JobEnds`, which closes a number, because a worker that may still use a number is the connection it stands for, so two
such workers never have the same one. `NoJobAfterReturn` is not inductive: it needs that the flag is set once the listener
thread has left its loop, and is never reset, which is `MainInv`. `NoLeak` is not inductive either: a worker may only end with an open descriptor if that is not its own, and what
rules that out is `GivenInv`, by which an open descriptor is the one its connection's worker was given. The proof has a lemma per group of
actions, and `MoveKeeps` for the many steps that move a worker between states of the same kind.

`RemoteCallProofs` proves, for any calls, sockets, attempts and stops, with and without signals, from `CallAssumption` alone:

- `Inductive`: `Spec => []IInv`, with `IInv` the conjunction of `TypeOK`, `Unshared`, `PoolInv`, `CallInv(c)`, `OrphanInv(c)` and `WorkerInv(s)`;
- `TypeCorrect`, `OnceSafe` (`AtMostOnce`), `AnswerSafe` (`OwnAnswer`), `PoolSafe` (`PoolClean`), `NoOrphanSafe` (`NoOrphanWork`);
- `CallSafe`: `Spec => Abstract!Spec`, the safety half of `ImplementsCall`;
- `RestartSafe`: `HistorySpec => SurvivesOneRestart`.

`AtMostOnce` alone says nothing of what is still on a socket. `CallInv` follows the exchange through its phases: while a call waits, its request is unread (`Requested`),
or the worker has it (`Working`), or what is left of the reply can be read (`Answered`), or the daemon has gone (`Broken`), and `handled`
is 0 or 1 accordingly; a call that is still to send finds its socket at rest (`AtRest`). That a socket is at rest when it comes from the pool is `PoolInv`; that nobody
else writes on it is `Unshared`; that a worker reads nothing but the request of the call that holds its socket, or of one whose process has ended, is `WorkerInv`. What such a call
leaves behind is on one socket at most, and nowhere once it has been handled (`OrphanInv`).
Every other lemma is about one socket and the call that holds it; `OneExchange` and `ExchangeKeeps` carry the rest. `TypeOK` was not inductive by itself: that `tries` does not fall below
0 needs that a call in `connect` has an attempt left, a conjunct of `CallInv`.

For `SurvivesOneRestart`, `RestartInv` says that a stale socket means a stop, and that a call in its second attempt that left no stale socket behind (`~spare`) meets a pool
without one for as long as `pepd` does not stop again (`NoStale`). A socket can become stale by a stop only (`EndCloses`), enters the pool only with a reply that could be read to its end
(`PoolOrigin`), and such a reply on a stale socket was there before the stop (`ReplyRests`): so none that was not seen at the first attempt turns up at the second.

`AuthorizationProofs` proves, for any requests and texts and a Result of any length, without an assumption on a constant:

- `Inductive`: `Spec => []IInv`, with `IInv` the conjunction of `TypeOK` and `RequestInv(r)`;
- `TypeCorrect`, `PermitSafe` (`PermitOnlyIfPermitted`), `ClosedSafe` (`FailClosed`), `ObligationsSafe` (`ObligationsFromPDP`).

The three properties speak of the end of a check and of the Result at its beginning. `RequestInv` has a conjunct for each place in between: the answer
says what `t_authz_response` says (`AnswerFromAuthz`), that what the headers of the request say (`AuthzFromHeaders`), those and the reply's headers what the
Result says (`HeadersBacked`, `ReplyBacked`; `Backed` gives each header its meaning), and headers are set only if the call has returned (`HeadersReturned`), which is why a failure
anywhere leaves nothing to enforce. The status alone is not enough for access, and its contents do not count (section 6): `Backed` says of
`status` no more than that there was one.

`EndpointsProofs` proves, for any ids, locations and numbers of handlers and listeners:

- `Inductive`: `Spec => []IInv`, with `IInv` the conjunction of `TypeOK`, `ReadingInv`, `OwnerInv` and `RemoteInv`;
- `TypeCorrect`, `ListenerSafe` (`ListenerLive`), and `ServedSafe` (`EndpointsServed`).

`ListenerLive` alone is not inductive: that a registration destroys nothing another application uses needs that no handler has
two owners (`OwnerInv`), and that a new handler is not among the dead needs that the dead have all been made (`TypeOK`). `EndpointsServed`
speaks of the moment when everything has been read. `ServedInv` says what holds on the way: a registered application
is found by both maps or by the PEP's alone at every address that nobody else has taken (`Taken`): a later application of the same id that is being read, which
is found from its first handler on, or an override of that id, which is about to be skipped or has been.

`DaemonProofs` proves, for any number of starts and any command lines:

- `Inductive`: `Spec => []IInv`, with `IInv` the conjunction of `TypeOK`, `CallInv`, `OptionsInv`, `AloneInv`, `BoundInv` and `PathInv`;
- `SuccessSafe` (`SuccessTruthful`), `ReachableSafe` (`ServerReachable`) and `PidFileSafe` (`PidFileStable`).

A reported success goes back to `shibd_running`, which is set only behind everything that may fail (`CallInv`). `ServerReachable` and
`PidFileStable` have one argument: in orderly use every daemon from its `bind()` to the removal of its pid file has the path (`PathInv`), so
there is one such daemon. What could take the path away is `Unlink`, which needs `-f` (`OptionsInv`), and then no other daemon is alive (`AloneInv`); nobody else binds, since the
path is not free. That the path stays after a clean stop is part of the argument: with `cleaning` outside `PathInv`, the last
daemon's `unlink(pidfile)` could hit a successor.

`HeaderCacheProofs` proves, for any threads, replies and numbers of calls:

- `Inductive` (`TypeOK` and `LockHeld`, which is inductive as it stands), `LockSafe` (`LockHeld`), and `ListStable`: nobody changes
  the list while another looks at it or iterates over it;
- `FullInductive`, with `ListInv`, and `HeaderListImplemented`: `Spec => ImplementsHeaderList`, the whole refinement.

`ListInv` says what a call has done so far: the list is what the writer has read of one of the replies (`Filling`), what a reader has cleared is the
beginning of the list, and who has just asked found no list. In the refinement the step of `HeaderList` that fetches is `Filled`, where what was read is
exactly what the reply holds in front of its first member that is no string (`WantedIs`). `HeaderCacheAssumption` says that a reply is a sequence.

`DataTreeProofs` proves, for any finite memory and any names (`DataTreeAssumption`):

- `Inductive`: `Spec => []IInv`, with `IInv` the conjunction of `HeapType`, `Siblings`, `Lists`, `Counted`, `Acyclic` and `Named`;
- `TreesSafe` (`WellFormed`).

`WellFormed` speaks of sequences and subtrees, which a call changes in many places at once; `IInv` speaks of single links, which is what the code
changes. `Siblings` and `Lists` say what a node and its neighbours know of each other, `Counted` that a parent's count is the number of the nodes whose parent it
is, `Named` that a struct's members have different names. `Acyclic` says that no set of nodes is closed under `next`, under `prev` or under `parent` (`Ending`):
a cycle would be such a set, and so would a way that leads nowhere. It needs no induction to be kept: a closed set after the call would
be closed before it, or would be once the nodes that were cut off or put in are left out (`SkippingEnds`, `SplicingEnds`, `GraftingEnds`).
Nothing has to be said about how a sequence changes. `GoodIsWellFormed` derives the sequences at the end: from every node there is exactly one
way along `next` to a last node (`EveryWay`, `OneWay`), so `Walk` is what its equations say (`WalkIsWay`), passes no node twice,
and passes all members (`ChainMembers`); hence its length is the count, and nothing is below itself (`ReachIsBelow`). There is a
lemma for each operation of the heap: `UnlinkKeeps`, `DeleteKeeps` and `RetypeKeeps` (by `CuttingKeeps`: a subtree that is cut off can be given back, no link from outside
leads into it), `NewKeeps`, `InsertKeeps` (for all three places), `CopyKeeps` and `CursorKeeps`; the actions put them together. That the memory is finite is needed for the count, and for every list
to have an end.

From the same assumption it proves `ForestImplemented`: `Spec => ImplementsForest`, the whole refinement. Under `IInv` a node has
exactly one list (`ListHas`, `ListIs`: a sequence that the links spell out is the one `ListOf` reads, because there is one way along `next`), so it is enough to write
down the sequence a call should leave and to see that the new links spell it. There is an equation for each operation of the heap: unlinking is
`Leaving` (`UnlinkLists`), putting a node between two neighbours is `Joining` at its place (`InsertLists`, for the end, before and after), freeing a subtree is
`Emptied` (`CutLists`), a cursor that is moved has passed as many members as its place says (`CursorLists`), and `copy()` maps each list (`CopyLists`). The cursor needs the
most cases: the member it stands at is the one that leaves, one before it, or one behind it. `FamilyIsSubtree` identifies what is
below a node in the forest, by membership, with what `destroy()` reaches along `first` and `next`. The step lemmas (`AddStep`, `CopyStep`, `IterateStep`, ...) compose the equations
in the order of the calls, and `NextForest` collects them; `TreesSafe`'s invariant holds before and after each.

`AlgorithmsProofs` proves of every input what `Algorithms_safety` checks of small ones:

- `ParametersSafe` (`ParametersRead`): texts of any length, if they have no NUL, which ends a C string; queries and forms of any length;
- `ListedSafe` (`ListedAdmitted`): lists of any length, address families of any width, any client, any two numbers for the port;
- `PropertiesSafe` (`PropertiesRead`): any number of nested elements with any attributes, any parameter of a request.

Assumed of the constants are `AddressAssumption` (widths are numbers, the loopback address is an address), `NumberAssumption` (no text is the null pointer; `atoi` and
`lexical_cast` agree up to `INT_MAX`) and `EscapeAssumption` (`=` and `&` are no escapes, and a blank is not NUL).
Induction goes by the least counterexample: that every set of numbers has a least element (`NatLeast`) follows from the library's theorem that `<` is well-founded.
So that a recursive function exists, and has only the values its equation gives, is an induction of its own each time: for the words of a text
(`WordsAre`, from the end of the text) and for the fold of `getAll` (`AllIs`, which finds it to be the nearest value of every name).
For the masks, `Power` counts subsets to double a power of two, `Halving` takes a bit off a number, and `MaskIsPrefix` goes bit by bit from the highest on. For texts,
`RankExists` numbers the ends of the parts as `EndOf` does, `WordsAreParts` meets every part in the loop at its number, and `CutMeant` exchanges decoding and
cutting: as long as an escaped `=` comes behind a plain one, the first `=` is the same before and after. What `Unambiguous` excludes is exactly what this needs.
Two parts of the first formulation were false, or said too much, and TLC did not see it for want of such an input: numbers above `INT_MAX` are not the same to `atoi` and to
`lexical_cast`, so `SameText` and `RequestOverrides` compare the numbers only up to it.

Only model-checked: all liveness properties, `StopEnds`, `CallsEnd` and the liveness part of `ImplementsCall` among them (liveness under fairness is out of the
prover's reach); and what recurses over trees, which are the elements of no set that a recursive function could have as its domain: `Packet`,
and with it `RemotedMessage`'s four properties, `TreeArrives` and `MembersAdded`.

## 6. Findings

`ServerThreads_waiters`: `signal()` can wake a worker that waits for another number, and the one it was meant for sleeps
on, although the comment at `SocketListener.cpp:436` says "signal waiters". `ShutdownCompletes` holds nevertheless with one number, where every waiter waits for the same.

Seen on the way, and modelled as the code has them. But for the message that the second one quotes, none of these contradicts a text of the repository in so many words; where a property would
fail because of one of them, the property says for which case it holds:

- The retry of `send()` takes its socket from the pool again: with a second stale socket there `send()` fails although `pepd` runs again.
  `SurvivesOneRestart` says that there must be one.
- An override with the id of a registered application is reported as one that is skipped (`PEPConfig.cpp:224`, "skipping it"), but only after its handlers have replaced the
  application's in both maps. They are destroyed with it, the application's endpoint is gone from the listener's map, and the PEP's map points at freed memory, which is where the
  lookup ends. `EndpointsServed` says nothing of such addresses (`skipped`), and holds of all others.
- `errno` is tested where `recv()` has not set it (`SocketListener.cpp:326`, 343): after an interrupted call a thread can spin on a closed connection. `Spins` is when, and
  `ImplementsCall` says that nothing else keeps a call from ending.
- An empty header ends `unwrap`'s loop, and a redirect or a user behind it is lost while the permit in front of it counts. `ReplyArrives` states exactly what arrives.
- An override is never registered as an application, since `regApplication` gets `defapp` (`PEPConfig.cpp:227`).
- `run()` may return before a started worker has registered in `m_children`; such a worker handles no request (`NoJobAfterReturn`).
- The status is compared with the name of its header and is never OK (`api.cpp:60`).
- `pepd -t` serves in the foreground: `main()` resets `shar_checkonly` (`pepd.cpp:291`).
- The socket file stays after a clean stop, since the listener is never deleted; the next start needs `-f`.
- `CGIParser` decodes a parameter before it looks for the `=`, and takes the byte 255 for the end of the text where `char` is signed (`Unambiguous`).
- A number above `INT_MAX` is one to `getUnsignedInt` and something else to `getInt`, which reads it with `atoi` (`SameText`).
- What stands behind the slash of an address block and is no number counts as 0, that is as every address of its family (`AddressRanges`, `NoNumber`).
- Without namespaces, which the parser is told to do without, declarations (`xmlns:...`) count as properties, and a
  nested element that the filter lets through is a null name to `DOMPropertySet::load`.

## 7. Not modelled, and why

- The sockets of `TCPListener`: its factory is not registered (`ListenerService.cpp:59`), no program runs it. The part that is its own, the list
  of addresses and the port, is in `AddressRanges`.
- Nested property sets, which the program cannot load (above); the remapping of names and `setProperty()` after a set is in use, which no caller does.
- The generic responses of `AbstractHandler` (commented out or called by nobody), and the parts of the request facade that read or set one member.
- The reference count of `PEPConfig::initialize` and `terminate`: `pepd` initializes once and never terminates, `mod_pep` once per pass of
  Apache's start.
- `dump()` and the C interface of DDF's lists beyond the methods of `DDF`.
- Logging, the XML parser, opensaml, `XMLTooling`'s threads and plug-in manager: outside this repository; what the code
  assumes of them is in the actions that call them.
- Memory exhaustion, and a `Thread` constructor that fails halfway.

## 8. Plan

Every safety property of a state machine and every refinement that the runs check is proved, but for `RemotedMessage`'s, and so is every property of the pure
algorithms that do not recurse over trees. What remains is `Packet`: with trees as functions of places, the operators that go through a whole tree would be recursive
functions of places too, and `TreeArrives` would be in reach; `AddMember`, which grows the tree as it goes down, would need more than that.
