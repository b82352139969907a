----------------------------- MODULE DaemonProofs -----------------------------
(***************************************************************************)
(* Proofs about Daemon for any number of starts and any command lines: what *)
(* the parent reports, and what the starts do to each other's files.        *)
(***************************************************************************)
EXTENDS Daemon, TLAPS

(* Where d's socket is open; where the path is d's; and where d has called  *)
(* its parent, or needed no call.                                           *)
Opened == {"chmod", "detaching", "pid", "notifying", "serving", "closing"}
HasPath == Opened \cup {"unbinding", "cleaning"}
Through == {"serving", "closing", "cleaning", "exited", "killed"}

CallInv ==
  \A d \in Daemons : /\ running[d] => child[d] \in Through
                     /\ parent[d] = "success" => running[d]
OptionsInv ==
  \A d \in Daemons : /\ child[d] = "none" => ~options[d].force
                     /\ child[d] = "unlinking" => options[d].force
AloneInv == ~overlap => \A d, e \in Daemons : Alive(d) /\ Alive(e) => d = e
BoundInv == bound = {d \in Daemons : child[d] \in Opened}
PathInv == Orderly => \A d \in Daemons : child[d] \in HasPath => socketFile = d

IInv == TypeOK /\ CallInv /\ OptionsInv /\ AloneInv /\ BoundInv /\ PathInv

(* Before the first start no process runs, and nobody has the path.         *)
LEMMA InitIInv == Init => IInv
<1> SUFFICES ASSUME Init PROVE IInv
  OBVIOUS
<1>1. TypeOK
  BY DaemonAssumption DEF Init, TypeOK, Default, Options, Places, Ends, DaemonAssumption
<1>2. CallInv /\ OptionsInv /\ AloneInv /\ BoundInv /\ PathInv
  BY DEF Init, CallInv, OptionsInv, AloneInv, BoundInv, PathInv, Default, Alive, Ends,
         Opened, HasPath
<1> QED BY <1>1, <1>2 DEF IInv

(* A step of d's child, with what it does to the socket and to the path.    *)
LEMMA MoveKeeps ==
  ASSUME IInv, NEW d \in Daemons, NEW to \in Places, Goto(d, to),
         UNCHANGED <<options, parent, running, overlap>>,
         shutdown' \in [Daemons -> BOOLEAN],
         Alive(d), to # "none",
         child[d] \in Through => to \in Through,
         to = "unlinking" => options[d].force,
         \/ bound' = bound /\ (to \in Opened <=> child[d] \in Opened)
         \/ bound' = bound \cup {d} /\ to \in Opened
         \/ bound' = bound \ {d} /\ to \notin Opened,
         socketFile' \in Daemons \cup {NoFile, Earlier},
         pidFile' \in Daemons \cup {NoFile, Earlier},
         \/ socketFile' = socketFile /\ (to \in HasPath => child[d] \in HasPath)
         \/ PathInv'
  PROVE  IInv'
<1>1. child' \in [Daemons -> Places] /\ child' = [child EXCEPT ![d] = to]
  BY DEF IInv, TypeOK, Goto
<1>2. child'[d] = to /\ \A e \in Daemons \ {d} : child'[e] = child[e]
  BY <1>1 DEF IInv, TypeOK
<1>3. TypeOK'
  BY <1>1 DEF IInv, TypeOK
<1>4. CallInv'
  BY <1>2 DEF IInv, CallInv
<1>5. OptionsInv'
  BY <1>2 DEF IInv, OptionsInv
<1>6. \A e \in Daemons : Alive(e)' => Alive(e)
  BY <1>2 DEF Alive
<1>7. AloneInv'
  BY <1>6 DEF IInv, AloneInv
<1>8. BoundInv'
  BY <1>2 DEF IInv, BoundInv
<1>9. Orderly' <=> Orderly
  BY DEF Orderly
<1>10. PathInv'
  BY <1>2, <1>9 DEF IInv, PathInv
<1> QED BY <1>3, <1>4, <1>5, <1>7, <1>8, <1>10 DEF IInv

(* A daemon that has the path is alone with it, and the path is not free.   *)
LEMMA PathAlone ==
  ASSUME IInv, Orderly, NEW d \in Daemons, NEW e \in Daemons,
         child[d] \in HasPath, child[e] \in HasPath
  PROVE  d = e /\ socketFile # NoFile
  BY DaemonAssumption DEF IInv, PathInv, DaemonAssumption

(* The steps of main(), one by one.  Only Unlink, Bind and Unbind change    *)
(* what the path leads to.                                                  *)
LEMMA MainIInv ==
  ASSUME IInv, NEW d \in Daemons, Main(d)
  PROVE  IInv'
<1> USE DEF Places, Ends, Opened, HasPath, Through
<1>0. /\ socketFile \in Daemons \cup {NoFile, Earlier}
      /\ pidFile \in Daemons \cup {NoFile, Earlier}
      /\ shutdown \in [Daemons -> BOOLEAN] /\ child \in [Daemons -> Places]
  BY DEF IInv, TypeOK
<1>1. CASE Load(d)
  BY <1>0, <1>1, MoveKeeps DEF Load, Step, Alive, files
<1>2. CASE LoadFails(d)
  <2>1. PICK place \in {"loading", "creating", "detaching"} : Step(d, place, "failed")
    BY <1>2 DEF LoadFails
  <2> QED BY <1>0, <1>2, <2>1, MoveKeeps DEF LoadFails, Step, Alive
<1>3. CASE Create(d)
  <2>1. CASE options[d].force
    BY <1>0, <1>3, <2>1, MoveKeeps DEF Create, Step, Alive, files
  <2>2. CASE ~options[d].force
    BY <1>0, <1>3, <2>2, MoveKeeps DEF Create, Step, Alive, files
  <2> QED BY <2>1, <2>2
<1>4. CASE Unlink(d)
  <2>1. child' = [child EXCEPT ![d] = "binding"] /\ options' = options /\ overlap' = overlap
    BY <1>4 DEF Unlink, Step, Goto
  <2>2. options[d].force /\ Alive(d)
    BY <1>4 DEF Unlink, Step, IInv, OptionsInv, Alive
  <2>3. ASSUME Orderly', NEW e \in Daemons, child'[e] \in HasPath PROVE FALSE
    <3>1. ~overlap
      BY <2>1, <2>2, <2>3 DEF Orderly
    <3>2. e # d /\ child[e] \in HasPath
      BY <1>0, <2>1, <2>3
    <3>3. Alive(e)
      BY <3>2 DEF Alive
    <3> QED BY <2>2, <3>1, <3>2, <3>3 DEF IInv, AloneInv
  <2>4. PathInv'
    BY <2>3 DEF PathInv
  <2> QED BY <1>0, <1>4, <2>4, MoveKeeps DEF Unlink, Step, Alive
<1>5. CASE Bind(d)
  <2>1. child' = [child EXCEPT ![d] = "chmod"] /\ (Orderly' <=> Orderly)
    BY <1>5 DEF Bind, Step, Goto, Orderly
  <2>2. ASSUME Orderly', NEW e \in Daemons \ {d} PROVE child'[e] \notin HasPath
    BY <1>0, <1>5, <2>1, <2>2, PathAlone DEF Bind
  <2>3. PathInv'
    BY <1>5, <2>2 DEF PathInv, Bind
  <2> QED BY <1>0, <1>5, <2>3, MoveKeeps DEF Bind, Step, Alive
<1>6. CASE BindFails(d)
  BY <1>0, <1>6, MoveKeeps DEF BindFails, Step, Alive, files
<1>7. CASE Listen(d)
  <2>1. CASE options[d].daemonize
    BY <1>0, <1>7, <2>1, MoveKeeps DEF Listen, Step, Alive, files
  <2>2. CASE ~options[d].daemonize
    BY <1>0, <1>7, <2>2, MoveKeeps DEF Listen, Step, Alive, files
  <2> QED BY <2>1, <2>2
<1>8. CASE ChmodFails(d)
  BY <1>0, <1>8, MoveKeeps DEF ChmodFails, Step, Alive
<1>9. CASE Unbind(d)
  <2>1. child' = [child EXCEPT ![d] = "failed"] /\ (Orderly' <=> Orderly)
    BY <1>9 DEF Unbind, Step, Goto, Orderly
  <2>2. ASSUME Orderly', NEW e \in Daemons PROVE child'[e] \notin HasPath
    <3>1. CASE e = d
      BY <1>0, <2>1, <3>1
    <3>2. CASE e # d
      BY <1>0, <1>9, <2>1, <2>2, <3>2, PathAlone DEF Unbind, Step
    <3> QED BY <3>1, <3>2
  <2>3. PathInv'
    BY <2>2 DEF PathInv
  <2> QED BY <1>0, <1>9, <2>3, MoveKeeps DEF Unbind, Step, Alive
<1>10. CASE Detach(d)
  <2>1. CASE options[d].pidfile
    BY <1>0, <1>10, <2>1, MoveKeeps DEF Detach, Step, Alive, files
  <2>2. CASE ~options[d].pidfile
    BY <1>0, <1>10, <2>2, MoveKeeps DEF Detach, Step, Alive, files
  <2> QED BY <2>1, <2>2
<1>11. CASE WritePid(d)
  BY <1>0, <1>11, MoveKeeps DEF WritePid, Step, Alive
<1>12. CASE Notify(d)
  <2>1. child' = [child EXCEPT ![d] = "serving"] /\ child[d] = "notifying"
    BY <1>12 DEF Notify, Goto
  <2>2. child'[d] = "serving" /\ \A e \in Daemons \ {d} : child'[e] = child[e]
    BY <1>0, <2>1
  <2>3. /\ running' = [running EXCEPT ![d] = running[d] \/ parent[d] = "sleeping"]
        /\ UNCHANGED <<options, parent, shutdown, files, overlap>>
    BY <1>12 DEF Notify
  <2>4. running \in [Daemons -> BOOLEAN]
    BY DEF IInv, TypeOK
  <2>5. running' \in [Daemons -> BOOLEAN] /\ \A e \in Daemons \ {d} : running'[e] = running[e]
    BY <2>3, <2>4
  <2>6. running[d] => running'[d]
    BY <2>3, <2>4
  <2>7. TypeOK'
    BY <2>1, <2>3, <2>5 DEF IInv, TypeOK, files
  <2>8. CallInv'
    BY <2>2, <2>3, <2>5, <2>6 DEF IInv, CallInv
  <2>9. (OptionsInv /\ BoundInv)'
    BY <2>1, <2>2, <2>3 DEF IInv, OptionsInv, BoundInv, files
  <2>10. AloneInv'
    BY <2>1, <2>2, <2>3 DEF IInv, AloneInv, Alive
  <2>11. Orderly' <=> Orderly
    BY <2>3 DEF Orderly
  <2>12. PathInv'
    BY <2>1, <2>2, <2>3, <2>11 DEF IInv, PathInv, files
  <2> QED BY <2>7, <2>8, <2>9, <2>10, <2>12 DEF IInv
<1>13. CASE RunReturns(d)
  BY <1>0, <1>13, MoveKeeps DEF RunReturns, Step, Alive, files
<1>14. CASE Term(d)
  <2>1. CASE options[d].daemonize /\ options[d].pidfile
    BY <1>0, <1>14, <2>1, MoveKeeps DEF Term, Step, Alive
  <2>2. CASE ~(options[d].daemonize /\ options[d].pidfile)
    BY <1>0, <1>14, <2>2, MoveKeeps DEF Term, Step, Alive
  <2> QED BY <2>1, <2>2
<1>15. CASE Clean(d)
  BY <1>0, <1>15, MoveKeeps DEF Clean, Step, Alive
<1> QED
  BY <1>1, <1>2, <1>3, <1>4, <1>5, <1>6, <1>7, <1>8, <1>9, <1>10, <1>11, <1>12, <1>13,
     <1>14, <1>15 DEF Main

(* A start makes the use of pepd less orderly, never more.                  *)
LEMMA StartIInv ==
  ASSUME IInv, NEW d \in Daemons, Start(d)
  PROVE  IInv'
<1> USE DEF Places, Ends, Opened, HasPath, Through
<1>1. PICK o \in CommandLines :
        /\ child[d] = "none"
        /\ options' = [options EXCEPT ![d] = o]
        /\ child' = [child EXCEPT ![d] = "loading"]
        /\ parent' = [parent EXCEPT ![d] = IF o.daemonize THEN "sleeping" ELSE "none"]
        /\ overlap' = (overlap \/ \E e \in Daemons : Alive(e))
        /\ UNCHANGED <<running, shutdown, files>>
  BY DEF Start, Goto
<1>2. /\ options \in [Daemons -> Options] /\ o \in Options
      /\ parent \in [Daemons -> {"none", "sleeping", "success", "failure"}]
      /\ child \in [Daemons -> Places] /\ overlap \in BOOLEAN
  BY DaemonAssumption DEF IInv, TypeOK, DaemonAssumption
<1>3. child'[d] = "loading" /\ \A e \in Daemons \ {d} : child'[e] = child[e]
  BY <1>1, <1>2
<1>4. parent'[d] # "success" /\ \A e \in Daemons \ {d} : parent'[e] = parent[e]
  BY <1>1, <1>2
<1>5. \A e \in Daemons \ {d} : options'[e] = options[e]
  BY <1>1, <1>2
<1>6. TypeOK'
  BY <1>1, <1>2 DEF IInv, TypeOK, files
<1>7. CallInv'
  BY <1>1, <1>3, <1>4 DEF IInv, CallInv
<1>8. (OptionsInv /\ BoundInv)'
  BY <1>1, <1>3, <1>5 DEF IInv, OptionsInv, BoundInv, files
<1>9. AloneInv'
  BY <1>1, <1>3 DEF IInv, AloneInv, Alive
<1>10. Orderly' => Orderly
  <2>1. ~overlap' => ~overlap
    BY <1>1
  <2>2. (\A e \in Daemons : ~options'[e].force) => \A e \in Daemons : ~options[e].force
    BY <1>1, <1>5 DEF IInv, OptionsInv
  <2> QED BY <2>1, <2>2 DEF Orderly
<1>11. PathInv'
  BY <1>1, <1>3, <1>10 DEF IInv, PathInv, files
<1> QED BY <1>6, <1>7, <1>8, <1>9, <1>11 DEF IInv

(* What happens to a daemon from outside, and the end of the parent.        *)
LEMMA OtherIInv ==
  ASSUME IInv, NEW d \in Daemons, StartFails(d) \/ ParentExits(d) \/ Stop(d) \/ Kill(d)
  PROVE  IInv'
<1> USE DEF Places, Ends, Opened, HasPath, Through
<1>1. CASE StartFails(d)
  <2>1. /\ child[d] = "none" /\ child' = [child EXCEPT ![d] = "failed"]
        /\ UNCHANGED <<options, parent, running, shutdown, files, overlap>>
    BY <1>1 DEF StartFails, Goto
  <2>2. child \in [Daemons -> Places]
    BY DEF IInv, TypeOK
  <2>3. child'[d] = "failed" /\ \A e \in Daemons \ {d} : child'[e] = child[e]
    BY <2>1, <2>2
  <2>4. TypeOK'
    BY <2>1, <2>2 DEF IInv, TypeOK, files
  <2>5. (CallInv /\ OptionsInv /\ BoundInv)'
    BY <2>1, <2>3 DEF IInv, CallInv, OptionsInv, BoundInv, files
  <2>6. AloneInv'
    BY <2>1, <2>3 DEF IInv, AloneInv, Alive
  <2>7. Orderly' <=> Orderly
    BY <2>1 DEF Orderly
  <2>8. PathInv'
    BY <2>1, <2>3, <2>7 DEF IInv, PathInv, files
  <2> QED BY <2>4, <2>5, <2>6, <2>8 DEF IInv
<1>2. CASE ParentExits(d)
  <2>1. /\ parent' = [parent EXCEPT ![d] = IF running[d] THEN "success" ELSE "failure"]
        /\ UNCHANGED <<options, child, running, shutdown, files, overlap>>
    BY <1>2 DEF ParentExits
  <2>2. TypeOK'
    BY <2>1 DEF IInv, TypeOK, files
  <2>3. CallInv'
    BY <2>1 DEF IInv, TypeOK, CallInv
  <2>4. (OptionsInv /\ AloneInv /\ BoundInv)'
    BY <2>1 DEF IInv, OptionsInv, AloneInv, Alive, BoundInv, files
  <2>5. PathInv'
    BY <2>1 DEF IInv, PathInv, Orderly, files
  <2> QED BY <2>2, <2>3, <2>4, <2>5 DEF IInv
<1>3. CASE Stop(d)
  <2>1. /\ shutdown' = [shutdown EXCEPT ![d] = TRUE]
        /\ UNCHANGED <<options, parent, child, running, files, overlap>>
    BY <1>3 DEF Stop
  <2>2. TypeOK'
    BY <2>1 DEF IInv, TypeOK, files
  <2>3. (CallInv /\ OptionsInv /\ AloneInv /\ BoundInv)'
    BY <2>1 DEF IInv, CallInv, OptionsInv, AloneInv, Alive, BoundInv, files
  <2>4. PathInv'
    BY <2>1 DEF IInv, PathInv, Orderly, files
  <2> QED BY <2>2, <2>3, <2>4 DEF IInv
<1>4. CASE Kill(d)
  <2>1. /\ socketFile \in Daemons \cup {NoFile, Earlier}
        /\ pidFile \in Daemons \cup {NoFile, Earlier}
        /\ shutdown \in [Daemons -> BOOLEAN]
    BY DEF IInv, TypeOK
  <2> QED BY <1>4, <2>1, MoveKeeps DEF Kill
<1> QED BY <1>1, <1>2, <1>3, <1>4

(* The invariant is inductive.                                              *)
LEMMA NextIInv == IInv /\ [Next]_vars => IInv'
<1>1. ASSUME IInv, Next PROVE IInv'
  BY <1>1, MainIInv, StartIInv, OtherIInv DEF Next
<1>2. ASSUME IInv, UNCHANGED vars PROVE IInv'
  <2>1. TypeOK'
    BY <1>2 DEF IInv, TypeOK, vars
  <2>2. (CallInv /\ OptionsInv /\ AloneInv /\ BoundInv)'
    BY <1>2 DEF IInv, CallInv, OptionsInv, AloneInv, Alive, BoundInv, vars
  <2>3. PathInv'
    BY <1>2 DEF IInv, PathInv, Orderly, vars
  <2> QED BY <2>1, <2>2, <2>3 DEF IInv
<1> QED BY <1>1, <1>2

(* The inductive invariant holds in every behaviour of the starts.          *)
THEOREM Inductive == Spec => []IInv
  BY InitIInv, NextIInv, PTL DEF Spec

(* The parent says that the daemon runs only if its child has got through   *)
(* all of its start, whenever the two run and whatever fails or is killed.  *)
THEOREM SuccessSafe == Spec => []SuccessTruthful
<1>1. IInv => SuccessTruthful
  BY DEF IInv, CallInv, SuccessTruthful, Through
<1> QED BY <1>1, Inductive, PTL

(* In orderly use the daemon that serves has the path, and the only socket. *)
THEOREM ReachableSafe == Spec => []ServerReachable
<1>1. ASSUME IInv PROVE ServerReachable
  <2> SUFFICES ASSUME Orderly, NEW d \in Daemons, child[d] = "serving"
               PROVE  d \in bound /\ bound = {d} /\ socketFile = d
    BY DEF ServerReachable
  <2>1. child[d] \in HasPath /\ socketFile = d
    BY <1>1 DEF IInv, PathInv, HasPath, Opened
  <2>2. \A e \in bound : e = d
    BY <1>1, <2>1, PathAlone DEF IInv, BoundInv, HasPath
  <2>3. d \in bound
    BY <1>1 DEF IInv, BoundInv, Opened
  <2> QED BY <2>1, <2>2, <2>3
<1> QED BY <1>1, Inductive, PTL

(* In orderly use nobody touches the pid file while a daemon serves.        *)
THEOREM PidFileSafe == Spec => PidFileStable
<1> DEFINE Kept ==
      (Orderly /\ Orderly') =>
        \A d \in Daemons : child[d] = "serving" /\ child'[d] = "serving" => pidFile' = pidFile
<1>1. ASSUME IInv, [Next]_vars PROVE [Kept]_vars
  <2>1. CASE UNCHANGED vars
    BY <2>1
  <2>2. CASE Next
    <3> SUFFICES ASSUME Orderly, NEW d \in Daemons, child[d] = "serving",
                        child'[d] = "serving", pidFile' # pidFile
                 PROVE  FALSE
      OBVIOUS
    <3>1. PICK e \in Daemons :
            Start(e) \/ StartFails(e) \/ ParentExits(e) \/ Main(e) \/ Stop(e) \/ Kill(e)
      BY <2>2 DEF Next
    <3>2. WritePid(e) \/ Clean(e)
      BY <3>1 DEF Start, StartFails, ParentExits, Stop, Kill, Main, Load, LoadFails, Create,
                  Unlink, Bind, BindFails, Listen, ChmodFails, Unbind, Detach, Notify,
                  RunReturns, Term, files
    <3>3. child[e] \in {"pid", "cleaning"}
      BY <3>2 DEF WritePid, Clean, Step
    <3> QED BY <1>1, <3>3, PathAlone DEF HasPath, Opened
  <2> QED BY <1>1, <2>1, <2>2
<1>2. Spec => [][Kept]_vars
  BY <1>1, Inductive, PTL DEF Spec
<1> QED BY <1>2 DEF PidFileStable
=============================================================================
