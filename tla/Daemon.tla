-------------------------------- MODULE Daemon --------------------------------
(***************************************************************************)
(* The life of pepd (pepd.cpp): the command line, the fork, the signal to  *)
(* the parent, the socket file, the pid file, and the stop.  Several       *)
(* starts share the two files; an element of Daemons is one start, and its *)
(* child process once it has forked.  With -F and -t there is no fork, and *)
(* the process that was started plays the child.                           *)
(***************************************************************************)
EXTENDS Naturals, FiniteSets

CONSTANTS
  Daemons,    \* the starts of pepd
  CommandLines, \* the options it is started with
  NoFile,     \* a path that does not exist
  Earlier     \* a file that was there before the first start

(* -f, -F, -t and -p: -t clears daemonize as -F does.                      *)
Options ==
  {o \in [force : BOOLEAN, daemonize : BOOLEAN, checkonly : BOOLEAN, pidfile : BOOLEAN] :
     o.checkonly => ~o.daemonize}

ASSUME DaemonAssumption ==
  /\ {NoFile, Earlier} \cap Daemons = {}
  /\ NoFile # Earlier
  /\ CommandLines \subseteq Options

VARIABLES
  options,    \* options[d]: the command line of d
  parent,     \* parent[d]: where the process is that forked d
  child,      \* child[d]: where d is in main()
  running,    \* running[d]: shibd_running in d's parent
  shutdown,   \* shutdown[d]: shibd_shutdown in d
  bound,      \* the daemons whose listening socket is open
  socketFile, \* what the path of the socket leads to
  pidFile,    \* whose pid is in the pid file
  overlap     \* history: two daemons have been alive at the same time

vars == <<options, parent, child, running, shutdown, bound, socketFile, pidFile, overlap>>
files == <<bound, socketFile, pidFile>>

Default == [force |-> FALSE, daemonize |-> TRUE, checkonly |-> FALSE, pidfile |-> FALSE]

Ends == {"failed", "exited", "killed"}
Places == {"none", "loading", "creating", "unlinking", "binding", "chmod", "unbinding",
           "detaching", "pid", "notifying", "serving", "closing", "cleaning"} \cup Ends
Alive(d) == child[d] \notin {"none"} \cup Ends

TypeOK ==
  /\ options \in [Daemons -> Options]
  /\ parent \in [Daemons -> {"none", "sleeping", "success", "failure"}]
  /\ child \in [Daemons -> Places]
  /\ running \in [Daemons -> BOOLEAN]
  /\ shutdown \in [Daemons -> BOOLEAN]
  /\ bound \subseteq Daemons
  /\ socketFile \in Daemons \cup {NoFile, Earlier}
  /\ pidFile \in Daemons \cup {NoFile, Earlier}
  /\ overlap \in BOOLEAN

Init ==
  /\ options = [d \in Daemons |-> Default]
  /\ parent = [d \in Daemons |-> "none"]
  /\ child = [d \in Daemons |-> "none"]
  /\ running = [d \in Daemons |-> FALSE]
  /\ shutdown = [d \in Daemons |-> FALSE]
  /\ bound = {}
  /\ socketFile \in {NoFile, Earlier}
  /\ pidFile \in {NoFile, Earlier}
  /\ overlap = FALSE

Goto(d, place) == child' = [child EXCEPT ![d] = place]

(* A step of d that is seen in the files alone.                            *)
Step(d, from, to) ==
  /\ child[d] = from
  /\ Goto(d, to)
  /\ UNCHANGED <<options, parent, running, shutdown, overlap>>

-----------------------------------------------------------------------------
(* The start, and the parent.                                              *)

(* parse_args(), setup_signals(), and fork() unless in the foreground.     *)
Start(d) ==
  \E o \in CommandLines :
    /\ child[d] = "none"
    /\ options' = [options EXCEPT ![d] = o]
    /\ Goto(d, "loading")
    /\ parent' = [parent EXCEPT ![d] = IF o.daemonize THEN "sleeping" ELSE "none"]
    /\ overlap' = (overlap \/ \E e \in Daemons : Alive(e))
    /\ UNCHANGED <<running, shutdown, files>>

(* Usage, -v, a user or group, or a fork() that fails: no daemon.          *)
StartFails(d) ==
  /\ child[d] = "none"
  /\ Goto(d, "failed")
  /\ UNCHANGED <<options, parent, running, shutdown, files, overlap>>

(* sleep() has ended: the time is up, or a signal has arrived.             *)
ParentExits(d) ==
  /\ parent[d] = "sleeping"
  /\ parent' = [parent EXCEPT ![d] = IF running[d] THEN "success" ELSE "failure"]
  /\ UNCHANGED <<options, child, running, shutdown, files, overlap>>

-----------------------------------------------------------------------------
(* The child until it serves.                                              *)

(* initialize(), validate(), and socket() have succeeded ...               *)
Load(d) == Step(d, "loading", "creating") /\ UNCHANGED files

(* ... or one has thrown, or failed, as setsid() and chdir() may later:     *)
(* main() ends, and no file is removed.                                    *)
LoadFails(d) ==
  /\ \E place \in {"loading", "creating", "detaching"} : Step(d, place, "failed")
  /\ bound' = bound \ {d}
  /\ UNCHANGED <<socketFile, pidFile>>

(* Mutant: the parent is called before the listener has been initialized.  *)
CreateCalling(d) ==
  /\ child[d] = "creating"
  /\ Goto(d, IF options[d].force THEN "unlinking" ELSE "binding")
  /\ running' = [running EXCEPT ![d] = TRUE]
  /\ UNCHANGED <<options, parent, shutdown, files, overlap>>

(* Mutant: the pid file is written before the listener is initialized.     *)
CreateWriting(d) ==
  /\ Step(d, "creating", IF options[d].force THEN "unlinking" ELSE "binding")
  /\ pidFile' = IF options[d].daemonize /\ options[d].pidfile THEN d ELSE pidFile
  /\ UNCHANGED <<bound, socketFile>>

Create(d) ==
  /\ Step(d, "creating", IF options[d].force THEN "unlinking" ELSE "binding")
  /\ UNCHANGED files

(* bind(force): the path is removed first, whoever has made it.            *)
Unlink(d) == Step(d, "unlinking", "binding") /\ socketFile' = NoFile /\ UNCHANGED <<bound, pidFile>>

Bind(d) ==
  /\ socketFile = NoFile
  /\ Step(d, "binding", "chmod")
  /\ socketFile' = d
  /\ bound' = bound \cup {d}
  /\ UNCHANGED pidFile

(* Mutant: what follows a failing chmod() follows a failing bind() too.    *)
BindFailsUnlinking(d) ==
  socketFile # NoFile /\ Step(d, "binding", "failed") /\ socketFile' = NoFile /\ UNCHANGED <<bound, pidFile>>

(* The path exists: the socket is closed, and init() fails.                *)
BindFails(d) == socketFile # NoFile /\ Step(d, "binding", "failed") /\ UNCHANGED files

(* Mutant: run() begins with a flag of its own.                            *)
ListenResetting(d) ==
  /\ socketFile # NoFile
  /\ child[d] = "chmod"
  /\ Goto(d, IF options[d].daemonize THEN "detaching" ELSE "serving")
  /\ shutdown' = [shutdown EXCEPT ![d] = FALSE]
  /\ UNCHANGED <<options, parent, running, files, overlap>>

(* chmod() and listen(); only a daemon detaches and says that it runs.     *)
Listen(d) ==
  /\ socketFile # NoFile
  /\ Step(d, "chmod", IF options[d].daemonize THEN "detaching" ELSE "serving")
  /\ UNCHANGED files

(* chmod() has failed: bind() closes the socket and removes the path.      *)
ChmodFails(d) == Step(d, "chmod", "unbinding") /\ bound' = bound \ {d} /\ UNCHANGED <<socketFile, pidFile>>

Unbind(d) == Step(d, "unbinding", "failed") /\ socketFile' = NoFile /\ UNCHANGED <<bound, pidFile>>

(* setsid() and chdir().                                                   *)
Detach(d) ==
  Step(d, "detaching", IF options[d].pidfile THEN "pid" ELSE "notifying") /\ UNCHANGED files

(* If the file cannot be opened, the daemon goes on without.               *)
WritePid(d) ==
  Step(d, "pid", "notifying") /\ pidFile' \in {d, pidFile} /\ UNCHANGED <<bound, socketFile>>

(* kill(getppid(), SIGUSR1): once the parent has given up, the signal is   *)
(* for the process that has adopted the child.                             *)
Notify(d) ==
  /\ child[d] = "notifying"
  /\ Goto(d, "serving")
  /\ running' = [running EXCEPT ![d] = running[d] \/ parent[d] = "sleeping"]
  /\ UNCHANGED <<options, parent, shutdown, files, overlap>>

-----------------------------------------------------------------------------
(* The stop.                                                               *)

(* SIGHUP, SIGINT, SIGQUIT or SIGTERM, also before run() looks at the flag, *)
(* which run() sets itself when select() fails.                            *)
Stop(d) ==
  /\ Alive(d)
  /\ shutdown' = [shutdown EXCEPT ![d] = TRUE]
  /\ UNCHANGED <<options, parent, child, running, files, overlap>>

(* run() returns true (what it does until then: ServerThreads).            *)
RunReturns(d) == shutdown[d] /\ Step(d, "serving", "closing") /\ UNCHANGED files

(* term() closes the socket.  The path stays: the listener, whose          *)
(* destructor would remove it, is never deleted.                           *)
Term(d) ==
  /\ Step(d, "closing", IF options[d].daemonize /\ options[d].pidfile THEN "cleaning" ELSE "exited")
  /\ bound' = bound \ {d}
  /\ UNCHANGED <<socketFile, pidFile>>

Clean(d) == Step(d, "cleaning", "exited") /\ pidFile' = NoFile /\ UNCHANGED <<bound, socketFile>>

(* The process dies at once, and its files stay.                           *)
Kill(d) ==
  /\ Alive(d)
  /\ Goto(d, "killed")
  /\ bound' = bound \ {d}
  /\ UNCHANGED <<options, parent, running, shutdown, socketFile, pidFile, overlap>>

Main(d) ==
  \/ Load(d) \/ LoadFails(d) \/ Create(d) \/ Unlink(d) \/ Bind(d) \/ BindFails(d)
  \/ Listen(d) \/ ChmodFails(d) \/ Unbind(d) \/ Detach(d) \/ WritePid(d) \/ Notify(d)
  \/ RunReturns(d) \/ Term(d) \/ Clean(d)

Next ==
  \E d \in Daemons :
    Start(d) \/ StartFails(d) \/ ParentExits(d) \/ Main(d) \/ Stop(d) \/ Kill(d)

(* The two processes run; nobody has to start, stop or kill a daemon.      *)
Fairness == \A d \in Daemons : WF_vars(ParentExits(d)) /\ WF_vars(Main(d))

Spec == Init /\ [][Next]_vars /\ Fairness

-----------------------------------------------------------------------------
(* Properties.                                                             *)

(* The two ways to use pepd that keep its files in order: nobody uses -f,  *)
(* or every start waits for the end of the daemon before it.               *)
Orderly == (\A d \in Daemons : ~options[d].force) \/ ~overlap

(* A parent that ended with EXIT_SUCCESS (pepd.cpp:277) has a child that   *)
(* got through all of its start; no failure to load, to bind, to set the   *)
(* mode of the socket or to detach is reported as a success.               *)
SuccessTruthful ==
  \A d \in Daemons :
    parent[d] = "success" =>
      child[d] \in {"serving", "closing", "cleaning", "exited", "killed"}

(* A daemon that serves is the one clients reach by the path               *)
(* (UnixListener::bind), and no other has a socket open: neither a failing *)
(* second start nor the end of another daemon takes the path away.         *)
ServerReachable ==
  Orderly => \A d \in Daemons :
    child[d] = "serving" => d \in bound /\ bound = {d} /\ socketFile = d

(* While a daemon serves, no other start writes or removes the pid file    *)
(* (pepd.cpp:313 and 345), so that a stop by the pid file finds it.        *)
PidFileStable ==
  [][(Orderly /\ Orderly') =>
       \A d \in Daemons :
         child[d] = "serving" /\ child'[d] = "serving" => pidFile' = pidFile]_vars

(* A stop signal ends the daemon, at whatever point of its start it comes  *)
(* (the flag is tested before run() waits for the first time).             *)
StopEnds == \A d \in Daemons : shutdown[d] ~> ~Alive(d)
===============================================================================
