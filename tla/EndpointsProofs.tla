--------------------------- MODULE EndpointsProofs ---------------------------
(***************************************************************************)
(* Proofs about Endpoints, for any ids, locations and bounds.              *)
(***************************************************************************)
EXTENDS Endpoints, TLAPS

(* The handlers of an application have been made. *)
OnlyMade(app) == app.own \subseteq 1..made

(* The handlers an application finds are its own. *)
OwnsFound(app) == \A l \in Locations : app.at[l] \in app.own \cup {None}

(* Where the reading is, and which applications there are then.            *)
ReadingInv ==
  /\ reading \in {"defaults", "overrides", "override"} => base # None
  /\ reading = "override" => override # None
  /\ override # None => reading \in {"override", "crashed"}
  /\ reading \in {"overrides", "override"} => apps[base.id] = base
  /\ \A i \in Ids : apps[i] # None => apps[i].id = i

(* No handler is owned twice, and none that is owned has been destroyed.    *)
OwnerInv ==
  /\ \A i \in Ids : apps[i] # None =>
       /\ OnlyMade(apps[i]) /\ OwnsFound(apps[i]) /\ apps[i].own \cap dead = {}
       /\ \A j \in Ids \ {i} : apps[j] # None => apps[i].own \cap apps[j].own = {}
       /\ reading = "defaults" => apps[i].own \cap base.own = {}
       /\ override # None => apps[i].own \cap override.own = {}
  /\ reading = "defaults" => OnlyMade(base) /\ OwnsFound(base) /\ base.own \cap dead = {}
  /\ override # None => OnlyMade(override)

(* The listener's map leads to handlers that have been made and exist. *)
RemoteInv ==
  /\ \A a \in Addresses : remote[a] \in (1..made \ dead) \cup {None}
  /\ listeners = 0 => \A a \in Addresses : remote[a] = None

(* The maps lead to what an application finds at l. *)
Served(app, l) ==
  app.at[l] # None =>
    /\ local[<<app.id, l>>] = app.at[l]
    /\ remote[<<app.id, l>>] \in {app.at[l], None}

(* The addresses that an application of another element has taken: one of   *)
(* the same id that is being read, or an override that has been skipped.    *)
Taken(i, l) ==
  \/ reading = "defaults" /\ base.id = i
  \/ override # None /\ <<i, l>> \in At(override)
  \/ <<i, l>> \in skipped

(* An application is served at every address that nobody else has taken.    *)
ServedInv ==
  reading # "crashed" =>
    /\ \A i \in Ids, l \in Locations : apps[i] # None /\ ~Taken(i, l) => Served(apps[i], l)
    /\ reading = "defaults" => \A l \in Locations : Served(base, l)

IInv == TypeOK /\ ReadingInv /\ OwnerInv /\ RemoteInv

(* The initial state satisfies the invariants.                             *)
LEMMA InitInv == Init => IInv /\ ServedInv
<1> SUFFICES ASSUME Init PROVE IInv /\ ServedInv
  OBVIOUS
<1>1. TypeOK
  BY EndpointsAssumption DEF Init, TypeOK
<1>2. ReadingInv /\ OwnerInv /\ RemoteInv /\ ServedInv
  BY DEF Init, ReadingInv, OwnerInv, RemoteInv, ServedInv
<1> QED BY <1>1, <1>2 DEF IInv

(* What the construction of a handler does to the maps: the new handler is  *)
(* put at its own address.                                                  *)
LEMMA HandlerStep ==
  ASSUME TypeOK, RemoteInv, NEW app \in Applications, NEW l \in Locations,
         ReadHandler(app, l), UNCHANGED <<listeners, dead>>
  PROVE  /\ made' = made + 1 /\ made' \in Handlers /\ made' \notin dead
         /\ remote' \in [Addresses -> Handlers \cup {None}]
         /\ local' \in [Addresses -> Handlers \cup {None}]
         /\ RemoteInv'
         /\ \A a \in Addresses : a # <<app.id, l>> =>
              local'[a] = local[a] /\ remote'[a] = remote[a]
         /\ local'[<<app.id, l>>] = made' /\ remote'[<<app.id, l>>] \in {made', None}
<1> DEFINE address == <<app.id, l>>
           h == made + 1
<1>1. /\ made' = h /\ h \in Handlers /\ h \notin dead
      /\ made \in Nat /\ 1..made \subseteq 1..h
  BY EndpointsAssumption DEF ReadHandler, TypeOK, Handlers
<1>2. address \in Addresses
  BY DEF Addresses, Applications
<1>3. /\ remote' = SetAddress(address, h) /\ dead' = dead
      /\ local' = [local EXCEPT ![address] = h]
  BY <1>1 DEF ReadHandler
<1>4. \A a \in Addresses : remote'[a] = IF listeners # 0 /\ a = address THEN h ELSE remote[a]
  BY <1>2, <1>3 DEF SetAddress, TypeOK
<1>5. RemoteInv'
  BY <1>1, <1>3, <1>4 DEF RemoteInv
<1>6. /\ remote' \in [Addresses -> Handlers \cup {None}]
      /\ local' \in [Addresses -> Handlers \cup {None}]
  BY <1>1, <1>3 DEF SetAddress, TypeOK
<1>7. local'[address] = h /\ remote'[address] \in {h, None}
  BY <1>2, <1>3, <1>4 DEF RemoteInv, TypeOK
<1>8. \A a \in Addresses : a # address => local'[a] = local[a] /\ remote'[a] = remote[a]
  BY <1>2, <1>3, <1>4 DEF TypeOK
<1> QED BY <1>1, <1>5, <1>6, <1>7, <1>8

(* What an application looks like with the handler that has been read. *)
LEMMA WithApplication ==
  ASSUME NEW app \in Applications, NEW l \in Locations, made + 1 \in Handlers
  PROVE  LET new == With(app, l) IN
         /\ new \in Applications /\ new.id = app.id /\ new.own = app.own \cup {made + 1}
         /\ \A k \in Locations : new.at[k] = IF k = l THEN made + 1 ELSE app.at[k]
  BY DEF With, Applications

(* The absence of an application or a handler is not one of them.           *)
LEMMA NoneNotMade == None \notin Applications /\ \A n \in Handlers : n # None
  BY EndpointsAssumption

(* Reading a handler of the application of an ApplicationDefaults.          *)
LEMMA BaseHandlerStep ==
  ASSUME IInv, ReadBaseHandler
  PROVE  IInv' /\ (ServedInv => ServedInv')
<1>1. base \in Applications
  BY NoneNotMade DEF IInv, TypeOK, ReadingInv, ReadBaseHandler
<1>2. PICK l \in Locations : ReadHandler(base, l) /\ base' = With(base, l)
  BY DEF ReadBaseHandler
<1>3. /\ reading = "defaults" /\ override = None
      /\ UNCHANGED <<reading, override, apps, listeners, dead, skipped>>
  BY DEF ReadBaseHandler, IInv, ReadingInv
<1> DEFINE h == made + 1
<1>4. /\ made' = h /\ h \in Handlers /\ h \notin dead
      /\ remote' \in [Addresses -> Handlers \cup {None}]
      /\ local' \in [Addresses -> Handlers \cup {None}]
      /\ RemoteInv'
      /\ \A a \in Addresses : a # <<base.id, l>> => local'[a] = local[a] /\ remote'[a] = remote[a]
      /\ local'[<<base.id, l>>] = h /\ remote'[<<base.id, l>>] \in {h, None}
  BY <1>1, <1>2, <1>3, HandlerStep DEF IInv
<1>5. /\ base' \in Applications /\ base'.id = base.id
      /\ base'.own = base.own \cup {h}
      /\ \A k \in Locations : base'.at[k] = IF k = l THEN h ELSE base.at[k]
  BY <1>1, <1>2, <1>4, WithApplication
<1>6. made \in Nat /\ h \notin 1..made /\ 1..made \subseteq 1..h /\ h \in 1..h
  BY DEF IInv, TypeOK
<1>7. TypeOK'
  <2>1. made' \in 0..MaxHandlers
    BY <1>4 DEF Handlers
  <2>2. dead' \subseteq 1..made'
    BY <1>3, <1>4, <1>6 DEF IInv, TypeOK
  <2> QED BY <1>3, <1>4, <1>5, <2>1, <2>2 DEF IInv, TypeOK
<1>8. ReadingInv'
  BY <1>3, <1>5, NoneNotMade DEF IInv, ReadingInv
<1>9. OwnerInv'
  <2>1. ASSUME NEW i \in Ids, apps[i] # None
        PROVE  /\ apps[i].own \subseteq 1..made' /\ apps[i].own \cap dead' = {}
               /\ apps[i].own \cap base'.own = {}
    BY <2>1, <1>3, <1>4, <1>5, <1>6 DEF IInv, OwnerInv, OnlyMade
  <2>2. OnlyMade(base)' /\ OwnsFound(base)' /\ base'.own \cap dead' = {}
    BY <1>3, <1>4, <1>5, <1>6 DEF IInv, OwnerInv, OnlyMade, OwnsFound
  <2> QED BY <2>1, <2>2, <1>3 DEF IInv, OwnerInv, OnlyMade, OwnsFound
<1>10. ASSUME ServedInv PROVE ServedInv'
  <2>1. ASSUME NEW i \in Ids, NEW k \in Locations, apps[i] # None, ~Taken(i, k)'
        PROVE  Served(apps[i], k)'
    <3>1. i # base.id /\ ~Taken(i, k)
      BY <2>1, <1>3, <1>5 DEF Taken
    <3>2. <<i, k>> \in Addresses /\ <<i, k>> # <<base.id, l>>
      BY <3>1 DEF Addresses
    <3>3. apps[i].id = i /\ apps' = apps /\ Served(apps[i], k)
      BY <2>1, <3>1, <1>3, <1>10 DEF IInv, ReadingInv, ServedInv
    <3> QED BY <3>2, <3>3, <1>4 DEF Served
  <2>2. ASSUME NEW k \in Locations PROVE Served(base, k)'
    <3>1. <<base.id, k>> \in Addresses
      BY <1>1 DEF Addresses, Applications
    <3>2. CASE k = l
      BY <3>2, <1>4, <1>5 DEF Served
    <3>3. CASE k # l
      <4>1. <<base.id, k>> # <<base.id, l>>
        BY <3>3
      <4>2. base'.at[k] = base.at[k] /\ Served(base, k)
        BY <3>3, <1>3, <1>5, <1>10 DEF ServedInv
      <4> QED BY <3>1, <4>1, <4>2, <1>4, <1>5 DEF Served
    <3> QED BY <3>2, <3>3
  <2> QED BY <2>1, <2>2, <1>3 DEF ServedInv
<1> QED BY <1>4, <1>7, <1>8, <1>9, <1>10 DEF IInv

(* Reading a handler of an application that is going to be destroyed.       *)
LEMMA OverrideHandlerStep ==
  ASSUME IInv, ReadOverrideHandler
  PROVE  IInv' /\ (ServedInv => ServedInv')
<1>1. override \in Applications /\ override # None
  BY NoneNotMade DEF IInv, TypeOK, ReadingInv, ReadOverrideHandler
<1>2. PICK l \in Locations : ReadHandler(override, l) /\ override' = With(override, l)
  BY DEF ReadOverrideHandler
<1>3. /\ reading = "override" /\ UNCHANGED <<reading, base, apps, listeners, dead, skipped>>
  BY DEF ReadOverrideHandler
<1> DEFINE h == made + 1
<1>4. /\ made' = h /\ h \in Handlers /\ h \notin dead
      /\ remote' \in [Addresses -> Handlers \cup {None}]
      /\ local' \in [Addresses -> Handlers \cup {None}]
      /\ RemoteInv'
      /\ \A a \in Addresses : a # <<override.id, l>> => local'[a] = local[a] /\ remote'[a] = remote[a]
  <2>1. UNCHANGED <<listeners, dead>> /\ ReadHandler(override, l)
    BY <1>2, <1>3
  <2>2. TypeOK /\ RemoteInv
    BY DEF IInv
  <2> QED BY <1>1, <2>1, <2>2, HandlerStep
<1>5. /\ override' \in Applications /\ override'.id = override.id
      /\ override'.own = override.own \cup {h}
      /\ \A k \in Locations : override'.at[k] = IF k = l THEN h ELSE override.at[k]
  BY <1>1, <1>2, <1>4, WithApplication
<1>6. made \in Nat /\ h \notin 1..made /\ 1..made \subseteq 1..h /\ h \in 1..h
  BY DEF IInv, TypeOK
<1>7. TypeOK'
  <2>1. made' \in 0..MaxHandlers
    BY <1>4 DEF Handlers
  <2>2. dead' \subseteq 1..made'
    BY <1>3, <1>4, <1>6 DEF IInv, TypeOK
  <2> QED BY <1>3, <1>4, <1>5, <2>1, <2>2 DEF IInv, TypeOK
<1>8. ReadingInv'
  BY <1>1, <1>3, <1>5, NoneNotMade DEF IInv, ReadingInv
<1>9. OwnerInv'
  <2>1. ASSUME NEW i \in Ids, apps[i] # None
        PROVE  /\ apps[i].own \subseteq 1..made' /\ apps[i].own \cap dead' = {}
               /\ apps[i].own \cap override'.own = {}
    BY <2>1, <1>1, <1>3, <1>4, <1>5, <1>6 DEF IInv, OwnerInv, OnlyMade
  <2>2. OnlyMade(override)'
    BY <1>1, <1>4, <1>5, <1>6 DEF IInv, OwnerInv, OnlyMade
  <2> QED BY <2>1, <2>2, <1>3 DEF IInv, OwnerInv, OnlyMade, OwnsFound
<1>10. ASSUME ServedInv PROVE ServedInv'
  <2>1. At(override)' = At(override) \cup {<<override.id, l>>}
    <3>1. h # None
      BY <1>4, NoneNotMade
    <3> QED BY <3>1, <1>1, <1>5 DEF At, Addresses, Applications
  <2>2. ASSUME NEW i \in Ids, NEW k \in Locations, apps[i] # None, ~Taken(i, k)'
        PROVE  Served(apps[i], k)'
    <3>1. <<i, k>> # <<override.id, l>> /\ ~Taken(i, k)
      BY <2>1, <2>2, <1>1, <1>3, <1>8 DEF Taken, ReadingInv
    <3>2. <<i, k>> \in Addresses
      BY DEF Addresses
    <3>3. apps[i].id = i /\ apps' = apps /\ Served(apps[i], k)
      BY <2>2, <3>1, <1>3, <1>10 DEF IInv, ReadingInv, ServedInv
    <3> QED BY <3>1, <3>2, <3>3, <1>4 DEF Served
  <2> QED BY <2>2, <1>3 DEF ServedInv
<1> QED BY <1>4, <1>7, <1>8, <1>9, <1>10 DEF IInv

(* The handlers of S are destroyed: entries of the listener's map vanish.   *)
LEMMA DestroyStep ==
  ASSUME TypeOK, RemoteInv, NEW S \in SUBSET (1..made), Destroy(S), UNCHANGED <<made, listeners>>
  PROVE  /\ RemoteInv' /\ remote' \in [Addresses -> Handlers \cup {None}]
         /\ dead' = dead \cup S /\ dead' \subseteq 1..made'
         /\ \A a \in Addresses : remote'[a] \in {remote[a], None}
<1>1. \A a \in Addresses : remote'[a] = IF remote[a] \in S THEN None ELSE remote[a]
  BY DEF Destroy, Unregister
<1>2. dead' = dead \cup S /\ made' = made
  BY DEF Destroy
<1>3. RemoteInv'
  BY <1>1, <1>2, NoneNotMade DEF RemoteInv
<1>4. remote' \in [Addresses -> Handlers \cup {None}]
  BY DEF Destroy, Unregister, TypeOK
<1> QED BY <1>1, <1>2, <1>3, <1>4 DEF TypeOK

(* An application is registered, and the one it replaces is destroyed.      *)
LEMMA RegisterBaseStep ==
  ASSUME IInv, RegisterBase
  PROVE  IInv' /\ (ServedInv => ServedInv')
<1> DEFINE old == IF apps[base.id] = None THEN {} ELSE apps[base.id].own
<1>1. /\ reading = "defaults" /\ reading' = "overrides" /\ override = None
      /\ base \in Applications /\ base # None /\ base.id \in Ids
  BY NoneNotMade DEF IInv, TypeOK, ReadingInv, RegisterBase, Applications
<1>2. /\ apps' = [apps EXCEPT ![base.id] = base] /\ Destroy(old)
      /\ skipped' = {a \in skipped : a[1] # base.id}
      /\ UNCHANGED <<base, override, listeners, local, made>>
  BY DEF RegisterBase
<1>3. \A i \in Ids : apps'[i] = IF i = base.id THEN base ELSE apps[i]
  BY <1>1, <1>2 DEF IInv, TypeOK
<1>4. old \in SUBSET (1..made) /\ old \cap base.own = {}
      /\ \A i \in Ids \ {base.id} : apps[i] # None => old \cap apps[i].own = {}
  BY <1>1 DEF IInv, OwnerInv, OnlyMade
<1>5. /\ RemoteInv' /\ remote' \in [Addresses -> Handlers \cup {None}]
      /\ dead' = dead \cup old /\ dead' \subseteq 1..made'
      /\ \A a \in Addresses : remote'[a] \in {remote[a], None}
  BY <1>2, <1>4, DestroyStep DEF IInv
<1>6. TypeOK'
  BY <1>1, <1>2, <1>5 DEF IInv, TypeOK
<1>7. ReadingInv'
  BY <1>1, <1>2, <1>3 DEF IInv, ReadingInv
<1>8. OwnerInv'
  <2>1. ASSUME NEW i \in Ids, apps'[i] # None
        PROVE  /\ apps'[i].own \subseteq 1..made /\ OwnsFound(apps'[i])
               /\ apps'[i].own \cap dead' = {}
    BY <2>1, <1>1, <1>3, <1>4, <1>5 DEF IInv, OwnerInv, OnlyMade
  <2>2. ASSUME NEW i \in Ids, NEW j \in Ids \ {i}, apps'[i] # None, apps'[j] # None
        PROVE  apps'[i].own \cap apps'[j].own = {}
    BY <2>2, <1>1, <1>3 DEF IInv, OwnerInv
  <2> QED BY <2>1, <2>2, <1>1, <1>2 DEF OwnerInv, OnlyMade, OwnsFound
<1>9. ASSUME ServedInv PROVE ServedInv'
  <2>1. ASSUME NEW i \in Ids, NEW l \in Locations, apps'[i] # None, ~Taken(i, l)'
        PROVE  Served(apps[i], l)'
    <3>1. apps'[i].id = i /\ Served(apps'[i], l)
      <4>1. CASE i = base.id
        BY <4>1, <1>1, <1>3, <1>9 DEF ServedInv
      <4>2. CASE i # base.id
        <5>1. <<i, l>> \in skipped => <<i, l>> \in skipped'
          BY <4>2, <1>2
        <5>2. ~Taken(i, l)
          BY <2>1, <4>2, <5>1, <1>1, <1>2 DEF Taken
        <5> QED BY <2>1, <4>2, <5>2, <1>1, <1>3, <1>9 DEF IInv, ReadingInv, ServedInv
      <4> QED BY <4>1, <4>2
    <3>2. <<i, l>> \in Addresses
      BY DEF Addresses
    <3> QED BY <3>1, <3>2, <1>2, <1>5 DEF Served
  <2> QED BY <2>1, <1>1 DEF ServedInv
<1> QED BY <1>5, <1>6, <1>7, <1>8, <1>9 DEF IInv

(* An override is destroyed; no application is registered that was not.     *)
LEMMA RegisterOverrideStep ==
  ASSUME IInv, RegisterOverride
  PROVE  IInv' /\ (ServedInv => ServedInv')
<1>1. /\ reading = "override" /\ reading' = "overrides" /\ override' = None
      /\ override # None /\ override.own \in SUBSET (1..made) /\ base # None
      /\ base.id \in Ids
      /\ apps[base.id] = base
  BY DEF IInv, TypeOK, ReadingInv, OwnerInv, OnlyMade, RegisterOverride, Applications
<1>2. /\ Destroy(override.own)
      /\ \/ apps[override.id] # None /\ skipped' = skipped \cup At(override) /\ apps' = apps
         \/ apps[override.id] = None /\ skipped' = skipped /\ apps' = [apps EXCEPT ![base.id] = base]
      /\ UNCHANGED <<base, listeners, local, made>>
  BY DEF RegisterOverride
<1>3. apps' = apps /\ skipped' \subseteq Addresses
  BY <1>1, <1>2 DEF IInv, TypeOK, At
<1>4. /\ RemoteInv' /\ remote' \in [Addresses -> Handlers \cup {None}]
      /\ dead' = dead \cup override.own /\ dead' \subseteq 1..made'
      /\ \A a \in Addresses : remote'[a] \in {remote[a], None}
  BY <1>1, <1>2, <1>3, DestroyStep DEF IInv
<1>5. TypeOK' /\ ReadingInv'
  BY <1>1, <1>2, <1>3, <1>4 DEF IInv, TypeOK, ReadingInv, At
<1>6. OwnerInv'
  BY <1>1, <1>2, <1>3, <1>4 DEF IInv, OwnerInv, OnlyMade, OwnsFound
<1>7. ASSUME ServedInv PROVE ServedInv'
  <2>1. ASSUME NEW i \in Ids, NEW l \in Locations, apps[i] # None, ~Taken(i, l)'
        PROVE  Served(apps[i], l)'
    <3>1. <<i, l>> \notin At(override)
      BY <2>1, <1>1, <1>2, <1>3 DEF Taken, At
    <3>2. ~Taken(i, l)
      BY <2>1, <3>1, <1>1, <1>2, <1>3 DEF Taken
    <3>3. apps[i].id = i /\ Served(apps[i], l)
      BY <2>1, <3>2, <1>1, <1>3, <1>7 DEF IInv, ReadingInv, ServedInv
    <3>4. <<i, l>> \in Addresses
      BY DEF Addresses
    <3> QED BY <3>3, <3>4, <1>2, <1>3, <1>4 DEF Served
  <2> QED BY <2>1, <1>1, <1>2, <1>3 DEF ServedInv
<1> QED BY <1>4, <1>5, <1>6, <1>7 DEF IInv

(* The steps that make and destroy no handler.                             *)
LEMMA OtherStep ==
  ASSUME IInv,
         \/ ReadListener \/ EndDefaults \/ Validate \/ HandlerDies \/ UNCHANGED vars
         \/ \E id \in Ids : ReadDefaults(id) \/ ReadOverride(id)
  PROVE  IInv' /\ (ServedInv => ServedInv')
<1>1. CASE ReadListener
  <2>1. /\ reading = "document" /\ remote' = [a \in Addresses |-> None]
        /\ listeners' \in 1..MaxListeners
        /\ UNCHANGED <<reading, base, override, apps, local, made, dead, skipped>>
    BY <1>1, EndpointsAssumption DEF ReadListener, IInv, TypeOK
  <2>2. TypeOK' /\ ReadingInv' /\ OwnerInv' /\ RemoteInv'
    BY <2>1 DEF IInv, TypeOK, ReadingInv, OwnerInv, OnlyMade, OwnsFound, RemoteInv
  <2>3. ASSUME ServedInv PROVE ServedInv'
    <3>1. ASSUME NEW i \in Ids, NEW l \in Locations, apps[i] # None, ~Taken(i, l)'
          PROVE  Served(apps[i], l)'
      <4>1. apps[i].id = i /\ Served(apps[i], l)
        BY <3>1, <2>1, <2>3 DEF IInv, ReadingInv, ServedInv, Taken, At
      <4>2. <<i, l>> \in Addresses
        BY DEF Addresses
      <4> QED BY <4>1, <4>2, <2>1 DEF Served
    <3> QED BY <3>1, <2>1 DEF ServedInv
  <2> QED BY <2>2, <2>3 DEF IInv
<1>2. ASSUME NEW id \in Ids, ReadDefaults(id) PROVE IInv' /\ (ServedInv => ServedInv')
  <2>1. /\ reading = "document" /\ reading' = "defaults" /\ base' = Made(id) /\ override = None
        /\ UNCHANGED <<override, apps, listeners, remote, local, made, dead, skipped>>
    BY <1>2 DEF ReadDefaults, IInv, ReadingInv
  <2>2. Made(id) \in Applications /\ Made(id) # None
    BY NoneNotMade DEF Made, Applications
  <2>3. TypeOK' /\ ReadingInv'
    BY <2>1, <2>2 DEF IInv, TypeOK, ReadingInv
  <2>4. OwnerInv' /\ RemoteInv'
    BY <2>1 DEF IInv, OwnerInv, OnlyMade, OwnsFound, RemoteInv, Made
  <2>5. ASSUME ServedInv PROVE ServedInv'
    <3>1. \A l \in Locations : Served(base, l)'
      BY <2>1 DEF Served, Made
    <3>2. ASSUME NEW i \in Ids, NEW l \in Locations, apps[i] # None, ~Taken(i, l)'
          PROVE  Served(apps[i], l)'
      BY <3>2, <2>1, <2>5 DEF ServedInv, Taken, Served
    <3> QED BY <3>1, <3>2, <2>1 DEF ServedInv
  <2> QED BY <2>3, <2>4, <2>5 DEF IInv
<1>3. ASSUME NEW id \in Ids, ReadOverride(id) PROVE IInv' /\ (ServedInv => ServedInv')
  <2>1. /\ reading = "overrides" /\ reading' = "override" /\ override' = Made(id)
        /\ override = None
        /\ UNCHANGED <<base, apps, listeners, remote, local, made, dead, skipped>>
    BY <1>3 DEF ReadOverride, IInv, ReadingInv
  <2>2. Made(id) \in Applications /\ Made(id) # None
    BY NoneNotMade DEF Made, Applications
  <2>3. TypeOK' /\ ReadingInv'
    BY <2>1, <2>2 DEF IInv, TypeOK, ReadingInv
  <2>4. OwnerInv' /\ RemoteInv'
    BY <2>1 DEF IInv, OwnerInv, OnlyMade, OwnsFound, RemoteInv, Made
  <2>5. ASSUME ServedInv PROVE ServedInv'
    <3>1. ASSUME NEW i \in Ids, NEW l \in Locations, apps[i] # None, ~Taken(i, l)'
          PROVE  Served(apps[i], l)'
      BY <3>1, <2>1, <2>5 DEF ServedInv, Taken, Served
    <3> QED BY <3>1, <2>1 DEF ServedInv
  <2> QED BY <2>3, <2>4, <2>5 DEF IInv
<1>4. CASE EndDefaults \/ Validate \/ UNCHANGED vars
  <2>1. /\ UNCHANGED <<override, apps, listeners, remote, local, made, dead, skipped>>
        /\ \/ UNCHANGED <<reading, base>>
           \/ reading = "overrides" /\ reading' = "document" /\ base' = None
           \/ reading = "document" /\ reading' \in {"serving", "refused"} /\ base' = base
    BY <1>4 DEF EndDefaults, Validate, vars
  <2>2. TypeOK' /\ ReadingInv'
    BY <2>1 DEF IInv, TypeOK, ReadingInv
  <2>3. OwnerInv' /\ RemoteInv'
    BY <2>1 DEF IInv, OwnerInv, OnlyMade, OwnsFound, RemoteInv
  <2>4. ASSUME ServedInv PROVE ServedInv'
    BY <2>1, <2>4 DEF ServedInv, Served, Taken, At
  <2> QED BY <2>2, <2>3, <2>4 DEF IInv
<1>5. CASE HandlerDies
  <2>1. /\ reading \in {"defaults", "override"} /\ reading' = "crashed"
        /\ UNCHANGED <<base, override, apps, listeners, remote, local, made, dead, skipped>>
    BY <1>5 DEF HandlerDies
  <2>2. TypeOK' /\ ReadingInv'
    BY <2>1 DEF IInv, TypeOK, ReadingInv
  <2>3. OwnerInv' /\ RemoteInv' /\ ServedInv'
    BY <2>1 DEF IInv, OwnerInv, OnlyMade, OwnsFound, RemoteInv, ServedInv
  <2> QED BY <2>2, <2>3 DEF IInv
<1> QED BY <1>1, <1>2, <1>3, <1>4, <1>5

(* Every step preserves the invariants. *)
LEMMA NextStep == IInv /\ [Next]_vars => IInv' /\ (ServedInv => ServedInv')
  BY BaseHandlerStep, OverrideHandlerStep, RegisterBaseStep, RegisterOverrideStep, OtherStep
     DEF Next

(* The invariant holds in every reachable state. *)
THEOREM Inductive == Spec => []IInv
<1>1. Init => IInv
  BY InitInv
<1>2. IInv /\ [Next]_vars => IInv'
  BY NextStep
<1> QED BY <1>1, <1>2, PTL DEF Spec

(* Type correctness: initialize() leaves well-formed maps of applications   *)
(* and of addresses after every element.                                   *)
THEOREM TypeCorrect == Spec => []TypeOK
<1>1. IInv => TypeOK
  BY DEF IInv
<1> QED BY <1>1, Inductive, PTL

(* The destructor of RemotedHandler, which removes an entry only if it is   *)
(* current, is enough: the listener never hands a request to a handler that *)
(* has been destroyed, and no registered application owns one.             *)
THEOREM ListenerSafe == Spec => []ListenerLive
<1>1. IInv => ListenerLive
  <2> SUFFICES ASSUME IInv PROVE ListenerLive
    OBVIOUS
  <2>1. dead \subseteq Handlers
    BY EndpointsAssumption DEF IInv, TypeOK, Handlers
  <2> QED BY <2>1, NoneNotMade DEF IInv, RemoteInv, OwnerInv, ListenerLive
<1> QED BY <1>1, Inductive, PTL

(* The lookup in two stages makes up for every order of the elements: each  *)
(* request gets to the handler that the web server has chosen, but at the   *)
(* addresses of an override that has been reported as skipped.              *)
THEOREM ServedSafe == Spec => []EndpointsServed
<1>1. Init => IInv /\ ServedInv
  BY InitInv
<1>2. (IInv /\ ServedInv) /\ [Next]_vars => (IInv /\ ServedInv)'
  BY NextStep
<1>3. IInv /\ ServedInv => EndpointsServed
  <2> SUFFICES ASSUME IInv, ServedInv, reading = "serving",
                      NEW i \in Ids, NEW l \in Locations, Chosen(i, l) # None,
                      <<i, l>> \notin skipped
               PROVE  Lookup(<<i, l>>) = Chosen(i, l)
    BY DEF EndpointsServed
  <2>1. apps[i] # None /\ Chosen(i, l) = apps[i].at[l]
    BY DEF Chosen
  <2>2. override = None
    BY DEF IInv, ReadingInv
  <2>3. Served(apps[i], l) /\ apps[i].id = i
    BY <2>1, <2>2 DEF ServedInv, Taken, IInv, ReadingInv
  <2> QED BY <2>1, <2>3 DEF Served, Lookup
<1> QED BY <1>1, <1>2, <1>3, PTL DEF Spec
=============================================================================
