------------------------------ MODULE Endpoints ------------------------------
(***************************************************************************)
(* PEPConfig::initialize of pepd: the configuration is read in document    *)
(* order, applications and their handlers are made, and every handler      *)
(* registers its address, the id of its application and its location, with *)
(* the listener, if there is one already, and with the PEP.  A request is  *)
(* addressed to the handler that the web server finds at its location:     *)
(* the web server has read the same document.                              *)
(*                                                                         *)
(* An action reads one element.  Nothing is decided about the document     *)
(* before it is read, so that every document is examined.                  *)
(***************************************************************************)
EXTENDS Naturals

CONSTANTS
  Ids,           (* ids of applications                                    *)
  Default,       (* the id of an application that has no other: "default"  *)
  Locations,     (* Location attributes of handlers                        *)
  None,          (* nullptr, or no entry in a map                          *)
  MaxHandlers,   (* bound: handlers in a document                          *)
  MaxListeners   (* bound: listeners in a document                         *)

Handlers == 1..MaxHandlers   (* in the order in which they are made *)

(* The id followed by the Location; a Location begins with a slash and an   *)
(* id holds none, so that the two can be told apart.                       *)
Addresses == Ids \X Locations

VARIABLES
  reading,    (* where initialize() is in the document; then what becomes  *)
              (* of the daemon                                             *)
  base,       (* the application of the ApplicationDefaults being read     *)
  override,   (* the application of the ApplicationOverride being read     *)
  apps,       (* m_AppMap                                                  *)
  listeners,  (* how many listeners have been made, of which one is used   *)
  remote,     (* m_listenerMap of the listener in use                      *)
  local,      (* m_listenerMap of the PEP                                  *)
  made,       (* how many handlers have been made                          *)
  dead,       (* handlers that have been destroyed                         *)
  skipped     (* addresses of an override reported as skipped, until an    *)
              (* application of its id is read again                       *)

vars == <<reading, base, override, apps, listeners, remote, local, made, dead, skipped>>

(* An application: m_handlers (own) and m_handlerMap (at). *)
Applications == [id : Ids, own : SUBSET Handlers, at : [Locations -> Handlers \cup {None}]]

ASSUME EndpointsAssumption ==
  /\ Default \in Ids
  /\ MaxHandlers \in Nat /\ MaxListeners \in Nat
  /\ None \notin Handlers /\ None \notin Applications

(* Mutant: getId() without its fallback. *)
MadeNameless(id) ==
  [id |-> IF id = Default THEN None ELSE id, own |-> {}, at |-> [l \in Locations |-> None]]

Made(id) == [id |-> id, own |-> {}, at |-> [l \in Locations |-> None]]

TypeOK ==
  /\ reading \in {"document", "defaults", "overrides", "override", "serving", "refused", "crashed"}
  /\ base \in Applications \cup {None}
  /\ override \in Applications \cup {None}
  /\ apps \in [Ids -> Applications \cup {None}]
  /\ listeners \in 0..MaxListeners
  /\ remote \in [Addresses -> Handlers \cup {None}]
  /\ local \in [Addresses -> Handlers \cup {None}]
  /\ made \in 0..MaxHandlers
  /\ dead \subseteq 1..made
  /\ skipped \subseteq Addresses

Init ==
  /\ reading = "document"
  /\ base = None /\ override = None
  /\ apps = [i \in Ids |-> None]
  /\ listeners = 0
  /\ remote = [a \in Addresses |-> None] /\ local = [a \in Addresses |-> None]
  /\ made = 0 /\ dead = {} /\ skipped = {}

-----------------------------------------------------------------------------
(* Mutant: a handler is destroyed without a word. *)
UnregisterKeeps(map, S) == map

(* unregListener() by the destructors of the handlers of S: an entry goes   *)
(* only if it is still theirs.                                             *)
Unregister(map, S) == [a \in Addresses |-> IF map[a] \in S THEN None ELSE map[a]]

(* setAddress() *)
SetAddress(address, h) ==
  IF listeners = 0 THEN remote ELSE [remote EXCEPT ![address] = h]

(* Mutant: the map of the PEP is left to daemons without a listener. *)
ReadHandlerRemoteOnly(app, location) ==
  /\ made < MaxHandlers
  /\ LET address == <<app.id, location>>
     IN /\ remote' = SetAddress(address, made + 1)
        /\ local' = IF listeners = 0 THEN [local EXCEPT ![address] = made + 1] ELSE local
  /\ made' = made + 1

(* The constructor of AuthorizationHandler.                                *)
ReadHandler(app, location) ==
  /\ made < MaxHandlers
  /\ LET address == <<app.id, location>>
     IN /\ remote' = SetAddress(address, made + 1)
        /\ local' = [local EXCEPT ![address] = made + 1]
  /\ made' = made + 1

(* doHandlers(): what becomes of the application. *)
With(app, location) == [app EXCEPT !.own = @ \cup {made + 1}, !.at[location] = made + 1]

(* The handlers of S are destroyed with their application. *)
Destroy(S) ==
  /\ remote' = Unregister(remote, S)
  /\ dead' = dead \cup S

-----------------------------------------------------------------------------
ReadListener ==
  /\ reading = "document"
  /\ listeners < MaxListeners
  /\ listeners' = listeners + 1
  /\ remote' = [a \in Addresses |-> None]
  /\ UNCHANGED <<reading, base, override, apps, local, made, dead, skipped>>

ReadDefaults(id) ==
  /\ reading = "document"
  /\ reading' = "defaults" /\ base' = Made(id)
  /\ UNCHANGED <<override, apps, listeners, remote, local, made, dead, skipped>>

ReadBaseHandler ==
  /\ reading = "defaults"
  /\ \E location \in Locations :
       ReadHandler(base, location) /\ base' = With(base, location)
  /\ UNCHANGED <<reading, override, apps, listeners, dead, skipped>>

(* regApplication(defapp): an application of the same id is replaced. *)
RegisterBase ==
  /\ reading = "defaults"
  /\ reading' = "overrides" /\ apps' = [apps EXCEPT ![base.id] = base]
  /\ Destroy(IF apps[base.id] = None THEN {} ELSE apps[base.id].own)
  /\ skipped' = {a \in skipped : a[1] # base.id}
  /\ UNCHANGED <<base, override, listeners, local, made>>

ReadOverride(id) ==
  /\ reading = "overrides"
  /\ reading' = "override" /\ override' = Made(id)
  /\ UNCHANGED <<base, apps, listeners, remote, local, made, dead, skipped>>

ReadOverrideHandler ==
  /\ reading = "override"
  /\ \E location \in Locations :
       ReadHandler(override, location) /\ override' = With(override, location)
  /\ UNCHANGED <<reading, base, apps, listeners, dead, skipped>>

(* Without a pdpURL, or with an empty Location, which is no property either, *)
(* the constructor makes a string of a null pointer: the process dies, and   *)
(* no exception, destructor or catch clause is reached.                      *)
HandlerDies ==
  /\ reading \in {"defaults", "override"}
  /\ made < MaxHandlers
  /\ reading' = "crashed"
  /\ UNCHANGED <<base, override, apps, listeners, remote, local, made, dead, skipped>>

(* Where an override has handlers of its own. *)
At(app) == {a \in Addresses : a[1] = app.id /\ app.at[a[2]] # None}

(* One with a registered id is reported as skipped; otherwise it is defapp  *)
(* that is registered once more.  The override is destroyed either way, and *)
(* its handlers have overwritten the maps either way.                       *)
RegisterOverride ==
  /\ reading = "override"
  /\ reading' = "overrides" /\ override' = None
  /\ \/ /\ apps[override.id] # None
        /\ skipped' = skipped \cup At(override)
        /\ UNCHANGED apps
     \/ /\ apps[override.id] = None
        /\ apps' = [apps EXCEPT ![base.id] = base]
        /\ UNCHANGED skipped
  /\ Destroy(override.own)
  /\ UNCHANGED <<base, listeners, local, made>>

EndDefaults ==
  /\ reading = "overrides"
  /\ reading' = "document" /\ base' = None
  /\ UNCHANGED <<override, apps, listeners, remote, local, made, dead, skipped>>

(* initialize() returns, and main() validates the PEP. *)
Validate ==
  /\ reading = "document"
  /\ reading' = IF listeners > 0 /\ apps[Default] # None THEN "serving" ELSE "refused"
  /\ UNCHANGED <<base, override, apps, listeners, remote, local, made, dead, skipped>>

Next ==
  \/ ReadListener \/ ReadBaseHandler \/ RegisterBase
  \/ ReadOverrideHandler \/ HandlerDies \/ RegisterOverride \/ EndDefaults \/ Validate
  \/ \E id \in Ids : ReadDefaults(id) \/ ReadOverride(id)

Spec == Init /\ [][Next]_vars

-----------------------------------------------------------------------------
(* Mutant: the listener's map only. *)
LookupRemote(address) == remote[address]

(* ListenerService::receive(), its lookup in two stages. *)
Lookup(address) == IF remote[address] # None THEN remote[address] ELSE local[address]

(* The web server chooses a handler by application and location. *)
Chosen(id, location) == IF apps[id] = None THEN None ELSE apps[id].at[location]

(* A request reaches, in the daemon, the very handler the web server chose  *)
(* for it, whatever the order of listeners, applications and handlers in    *)
(* the document, except where the log tells of an override that was skipped. *)
EndpointsServed ==
  reading = "serving" =>
    \A id \in Ids, location \in Locations :
      Chosen(id, location) # None /\ <<id, location>> \notin skipped =>
        Lookup(<<id, location>>) = Chosen(id, location)

(* The handlers of registered applications exist, and the listener's map    *)
(* leads to no handler that does not.                                      *)
ListenerLive ==
  /\ \A a \in Addresses : remote[a] \notin dead
  /\ \A i \in Ids : apps[i] # None => apps[i].own \cap dead = {}
=============================================================================
