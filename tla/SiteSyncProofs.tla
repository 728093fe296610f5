---------------------------- MODULE SiteSyncProofs ----------------------------
(***************************************************************************)
(* Proofs about SiteSync, and about its history of claims in SiteClaims,   *)
(* for any sets of addresses, sites and shapes and any bound on the        *)
(* pending notifications.                                                  *)
(***************************************************************************)
EXTENDS SiteClaims, TLAPS

\* Reading the file, and editing it for a peer, stay within the types.
LEMMA EditType ==
    ASSUME NEW defs \in Services, NEW p \in Peers, NEW upd \in Announcement,
           NEW cache \in Services, NEW D
    PROVE  Edit(defs, p, upd, Changed(cache, p, upd), D) \in Services
  BY DEF Edit, Changed, Services, Def, Origin, Announcement, Peers

LEMMA EraseType ==
    ASSUME NEW defs \in Services, NEW D
    PROVE  Erase(defs, D) \in Services
  BY DEF Erase, Services

LEMMA OwnType ==
    ASSUME NEW defs \in Services
    PROVE  Own(defs) \in Announcement
  BY NoDefAssumption DEF Own, Services, Announcement, IsLocal, Present, Def

\* No edit attributes a definition to this site.
LEMMA EditSelf ==
    ASSUME NEW defs \in Services, NEW p \in Peers, NEW upd \in Announcement,
           NEW cache \in Services, NEW D, NEW a \in Addr,
           ~IsFrom(defs, a, Self)
    PROVE  ~IsFrom(Edit(defs, p, upd, Changed(cache, p, upd), D), a, Self)
  BY DEF Edit, IsFrom, Present, Peers

LEMMA AbsorbType ==
    ASSUME NEW byO \in [Site -> SUBSET Addr], NEW defs, NEW pick,
           byO[Self] = {}, \A a \in Addr : ~IsFrom(defs, a, Self)
    PROVE  /\ Absorb(byO, defs, pick) \in [Site -> SUBSET Addr]
           /\ Absorb(byO, defs, pick)[Self] = {}
  BY SelfAssumption DEF Absorb, Remote

\* After the file was read, every remote definition is held for its origin:
\* paring takes out local addresses only.
LEMMA AbsorbTracks ==
    ASSUME NEW byO, NEW defs, NEW pick, NEW a \in Addr, NEW p \in Site,
           IsFrom(defs, a, p)
    PROVE  a \in Absorb(byO, defs, pick)[p]
  BY LocalAssumption DEF Absorb, Remote, IsFrom, IsLocal

LEMMA NotificationsType ==
    ASSUME NEW n \in 0..MaxEvents, NEW m \in Notifications(n)
    PROVE  m \in 0..MaxEvents /\ m # 0
  BY EventsAssumption DEF Notifications
-----------------------------------------------------------------------------
IInv == TypeOK /\ CacheCoherent /\ RemoteTracked

\* A write of the file keeps the watch's part of the invariant: in the running
\* phase it leaves a notification.
LEMMA WriteFileNotifies ==
    ASSUME TypeOK, NEW defs, WriteFile(defs)
    PROVE  events' \in 0..MaxEvents /\ (phase = "running" <=> events' # 0)
  BY NotificationsType DEF TypeOK, WriteFile

LEMMA CommandKeeps ==
    ASSUME IInv, NEW defs \in Services, \A a \in Addr : ~IsFrom(defs, a, Self),
           Command(defs)
    PROVE  IInv'
  <1>1. events' \in 0..MaxEvents /\ (phase = "running" <=> events' # 0)
    BY WriteFileNotifies DEF IInv, Command
  <1>2. file' = defs
    BY DEF Command, WriteFile
  <1>3. TypeOK'
    BY <1>1, <1>2 DEF IInv, TypeOK, Command, cacheVars, peerVars, IsFrom, Present
  <1>4. CacheCoherent' /\ RemoteTracked'
    BY <1>1 DEF Command, CacheCoherent, RemoteTracked, Quiet
  <1> QED  BY <1>3, <1>4 DEF IInv

LEMMA LocalDefType ==
    ASSUME NEW sh \in Shape
    PROVE  LocalDef(sh) \in Def /\ LocalDef(sh).origin = Local /\ LocalDef(sh).shape = sh
  BY DEF LocalDef, Def, Origin

LEMMA InitInvariant == Init => IInv
  BY EventsAssumption, SelfAssumption
     DEF Init, IInv, TypeOK, CacheCoherent, RemoteTracked, Quiet, NoServices, Services,
         Announcement, IsFrom, Present, NothingHeld, NeverHeard, Age, Phase

\* A command writes local definitions, or takes definitions out.
LEMMA CommandsKeep ==
    ASSUME IInv, NEW a \in Addr, NEW sh \in Shape, NEW last \in BOOLEAN,
           \/ CreateService(a, sh) \/ UpdateService(a, sh) \/ BindService(a, sh)
           \/ UnbindService(a, last) \/ RemoveService(a)
    PROVE  IInv'
  <1> DEFINE Safe(defs) == defs \in Services /\ \A b \in Addr : ~IsFrom(defs, b, Self)
  <1>1. Safe(file)
    BY DEF IInv, TypeOK
  <1>2. ASSUME NEW t \in Shape
        PROVE  Safe([file EXCEPT ![a] = LocalDef(t)])
    BY <1>1, LocalDefType, LocalAssumption, SelfAssumption
       DEF Services, IsFrom, Present
  <1>3. Safe([file EXCEPT ![a] = NoDef])
    BY <1>1 DEF Services, IsFrom, Present
  <1>4. Present(file, a) => file[a].shape \in Shape
    BY <1>1 DEF Present, Services, Def
  <1>5. ASSUME NEW defs, Safe(defs), Command(defs)
        PROVE  IInv'
    BY <1>5, CommandKeeps
  <1> HIDE DEF Safe
  <1>6. CASE CreateService(a, sh)
    BY <1>6, <1>1, <1>2, <1>5 DEF CreateService, Created
  <1>7. CASE UpdateService(a, sh)
    BY <1>7, <1>2, <1>5 DEF UpdateService, Updated
  <1>8. CASE BindService(a, sh)
    BY <1>8, <1>2, <1>4, <1>5 DEF BindService, Updated, ShapeToBind
  <1>9. CASE UnbindService(a, last)
    BY <1>9, <1>1, <1>3, <1>5 DEF UnbindService, Unbound
  <1>10. CASE RemoveService(a)
    BY <1>10, <1>3, <1>5 DEF RemoveService, Removed
  <1> QED  BY <1>6, <1>7, <1>8, <1>9, <1>10

\* Once the file has been read, all the copies are current.
LEMMA DefinitionsUpdatedKeeps ==
    ASSUME IInv, NEW pick, DefinitionsUpdated(pick), UNCHANGED file
    PROVE  /\ byName' \in Services /\ localServices' \in Announcement
           /\ byOrigin' \in [Site -> SUBSET Addr] /\ byOrigin'[Self] = {}
           /\ CacheCoherent' /\ RemoteTracked'
  <1>1. file \in Services /\ byOrigin \in [Site -> SUBSET Addr] /\ byOrigin[Self] = {}
        /\ \A a \in Addr : ~IsFrom(file, a, Self)
    BY DEF IInv, TypeOK
  <1>2. byName' \in Services /\ localServices' \in Announcement
    BY <1>1, OwnType DEF DefinitionsUpdated
  <1>3. byOrigin' \in [Site -> SUBSET Addr] /\ byOrigin'[Self] = {}
    BY <1>1, AbsorbType DEF DefinitionsUpdated
  <1>4. CacheCoherent'
    BY DEF DefinitionsUpdated, CacheCoherent, Own, IsLocal, Present
  <1>5. RemoteTracked'
    BY AbsorbTracks DEF DefinitionsUpdated, RemoteTracked, IsFrom, Present
  <1> QED  BY <1>2, <1>3, <1>4, <1>5

LEMMA BootKeeps == ASSUME IInv, Boot PROVE IInv'
  <1>1. PICK pick : DefinitionsUpdated(pick)
    BY DEF Boot
  <1>2. UNCHANGED file /\ phase' = "running" /\ UNCHANGED events
    BY DEF Boot, fileVars
  <1>3. heardFrom' \in [Site -> Age]
    BY DEF Boot, IInv, TypeOK, Age
  <1> QED
    BY <1>1, <1>2, <1>3, DefinitionsUpdatedKeeps
       DEF IInv, TypeOK, Phase, IsFrom, Present

LEMMA WatchKeeps == ASSUME IInv, Watch PROVE IInv'
  <1>1. PICK pick : DefinitionsUpdated(pick)
    BY DEF Watch
  <1>2. UNCHANGED <<file, phase, heardFrom>> /\ events' \in 0..MaxEvents /\ phase = "running"
    BY EventsAssumption DEF Watch, IInv, TypeOK
  <1> QED
    BY <1>1, <1>2, DefinitionsUpdatedKeeps
       DEF IInv, TypeOK, Phase, IsFrom, Present

LEMMA ReceiveKeeps ==
    ASSUME IInv, NEW p \in Site, NEW upd \in Announcement, ReceiveUpdate(p, upd)
    PROVE  IInv'
  <1> DEFINE changed == Changed(byName, p, upd)
             deleted == Withdrawn(byOrigin, p, upd)
  <1>1. p \in Peers
    BY DEF ReceiveUpdate, FromPeer, Peers
  <1>2. UNCHANGED <<phase, byName, localServices>>
    BY DEF ReceiveUpdate, cacheVars
  <1>3. byOrigin' = [byOrigin EXCEPT ![p] = @ \ deleted]
    BY DEF ReceiveUpdate
  <1>4. heardFrom' \in [Site -> Age]
    BY DEF ReceiveUpdate, IInv, TypeOK, Age
  <1>5. byOrigin' \in [Site -> SUBSET Addr] /\ byOrigin'[Self] = {}
    BY <1>3 DEF IInv, TypeOK
  <1>6. CASE changed = {} /\ deleted = {}
    <2>1. UNCHANGED <<file, events, byOrigin>>
      BY <1>3, <1>6 DEF ReceiveUpdate, fileVars, IInv, TypeOK
    <2> QED
      BY <2>1, <1>2, <1>4
         DEF IInv, TypeOK, CacheCoherent, RemoteTracked, Quiet, Own, IsLocal, IsFrom, Present
  <1>7. CASE ~(changed = {} /\ deleted = {})
    <2>1. WriteFile(Edit(file, p, upd, changed, deleted))
      BY <1>7 DEF ReceiveUpdate
    <2>2. events' \in 0..MaxEvents /\ (phase = "running" <=> events' # 0)
      BY <2>1, WriteFileNotifies DEF IInv
    <2>3. file' = Edit(file, p, upd, changed, deleted)
      BY <2>1 DEF WriteFile
    <2>4. file' \in Services
      BY <2>3, <1>1, EditType DEF IInv, TypeOK
    <2>5. \A a \in Addr : ~IsFrom(file', a, Self)
      BY <2>3, <1>1, EditSelf DEF IInv, TypeOK
    <2>6. TypeOK'
      BY <1>2, <1>4, <1>5, <2>2, <2>4, <2>5 DEF IInv, TypeOK, IsFrom, Present
    <2> QED
      BY <1>2, <2>2, <2>6 DEF IInv, CacheCoherent, RemoteTracked, Quiet
  <1> QED  BY <1>6, <1>7

LEMMA AgeOutKeeps == ASSUME IInv, AgeOut PROVE IInv'
  <1>1. UNCHANGED <<phase, byName, localServices>>
    BY DEF AgeOut, cacheVars
  <1>2. heardFrom' \in [Site -> Age]
    BY DEF AgeOut, IInv, TypeOK, Age
  <1>3. byOrigin' \in [Site -> SUBSET Addr] /\ byOrigin'[Self] = {}
    BY SelfAssumption DEF AgeOut, IInv, TypeOK
  <1>4. CASE AgedServices = {}
    <2>1. UNCHANGED <<file, events>>
      BY <1>4 DEF AgeOut, fileVars
    <2>2. UNCHANGED byOrigin
      BY <1>4 DEF AgeOut, AgedServices, IInv, TypeOK
    <2> QED
      BY <2>1, <2>2, <1>1, <1>2
         DEF IInv, TypeOK, CacheCoherent, RemoteTracked, Quiet, Own, IsLocal, IsFrom, Present
  <1>5. CASE AgedServices # {}
    <2>1. WriteFile(Erase(file, AgedServices))
      BY <1>5 DEF AgeOut
    <2>2. events' \in 0..MaxEvents /\ (phase = "running" <=> events' # 0)
      BY <2>1, WriteFileNotifies DEF IInv
    <2>3. file' = Erase(file, AgedServices)
      BY <2>1 DEF WriteFile
    <2>4. file' \in Services /\ \A a \in Addr : ~IsFrom(file', a, Self)
      BY <2>3, EraseType DEF IInv, TypeOK, Erase, IsFrom, Present
    <2>5. TypeOK'
      BY <1>1, <1>2, <1>3, <2>2, <2>4 DEF IInv, TypeOK, IsFrom, Present
    <2> QED
      BY <1>1, <2>2, <2>5 DEF IInv, CacheCoherent, RemoteTracked, Quiet
  <1> QED  BY <1>4, <1>5

LEMMA AgeFailsKeeps == ASSUME IInv, AgeFails PROVE IInv'
  <1>1. PICK deleted : IF deleted = {} THEN UNCHANGED fileVars ELSE WriteFile(Erase(file, deleted))
    BY DEF AgeFails
  <1>2. UNCHANGED <<phase, byName, localServices, byOrigin, heardFrom>>
    BY DEF AgeFails, cacheVars, peerVars
  <1>3. CASE deleted = {}
    BY <1>1, <1>2, <1>3
       DEF fileVars, IInv, TypeOK, CacheCoherent, RemoteTracked, Quiet, Own, IsLocal, IsFrom, Present
  <1>4. CASE deleted # {}
    <2>1. WriteFile(Erase(file, deleted))
      BY <1>1, <1>4
    <2>2. events' \in 0..MaxEvents /\ (phase = "running" <=> events' # 0)
      BY <2>1, WriteFileNotifies DEF IInv
    <2>3. file' = Erase(file, deleted)
      BY <2>1 DEF WriteFile
    <2>4. file' \in Services /\ \A a \in Addr : ~IsFrom(file', a, Self)
      BY <2>3, EraseType DEF IInv, TypeOK, Erase, IsFrom, Present
    <2>5. TypeOK'
      BY <1>2, <2>2, <2>4 DEF IInv, TypeOK, IsFrom, Present
    <2> QED
      BY <1>2, <2>2, <2>5 DEF IInv, CacheCoherent, RemoteTracked, Quiet
  <1> QED  BY <1>3, <1>4

\* The invariant is inductive: one case per action.
LEMMA InvariantStep == IInv /\ [Next]_vars => IInv'
  <1> SUFFICES ASSUME IInv, [Next]_vars PROVE IInv'
    OBVIOUS
  <1>1. ASSUME NEW a \in Addr, NEW sh \in Shape,
               CreateService(a, sh) \/ UpdateService(a, sh) \/ BindService(a, sh)
        PROVE  IInv'
    BY <1>1, CommandsKeep
  <1>2. ASSUME NEW a \in Addr, NEW last \in BOOLEAN, UnbindService(a, last)
        PROVE  IInv'
    <2>1. IsLocal(file, a) /\ file[a].shape \in Shape
      BY <1>2 DEF UnbindService, IsLocal, Present, IInv, TypeOK, Services, Def
    <2> QED  BY <1>2, <2>1, CommandsKeep
  <1>3. ASSUME NEW a \in Addr, RemoveService(a)
        PROVE  IInv'
    <2>1. file[a].shape \in Shape
      BY <1>3 DEF RemoveService, Present, IInv, TypeOK, Services, Def
    <2> QED  BY <1>3, <2>1, CommandsKeep
  <1>4. CASE Start
    BY <1>4 DEF Start, IInv, TypeOK, CacheCoherent, RemoteTracked, Quiet, Phase, fileVars,
                cacheVars, peerVars, IsFrom, Present
  <1>5. CASE Boot
    BY <1>5, BootKeeps
  <1>6. CASE Watch
    BY <1>6, WatchKeeps
  <1>7. CASE AgeOut
    BY <1>7, AgeOutKeeps
  <1>12. CASE AgeFails
    BY <1>12, AgeFailsKeeps
  <1>8. CASE Crash
    BY <1>8, SelfAssumption, EventsAssumption
       DEF Crash, IInv, TypeOK, CacheCoherent, RemoteTracked, Quiet, Phase, Age,
           NoServices, Services, Announcement, NothingHeld, NeverHeard, IsFrom, Present
  <1>9. ASSUME NEW p \in Site, NEW upd \in Announcement, ReceiveUpdate(p, upd)
        PROVE  IInv'
    BY <1>9, ReceiveKeeps
  <1>10. ASSUME NEW p \in Site, GoStale(p)
         PROVE  IInv'
    BY <1>10
       DEF GoStale, IInv, TypeOK, CacheCoherent, RemoteTracked, Quiet, Age, fileVars,
           cacheVars, Own, IsLocal, IsFrom, Present
  <1>11. CASE UNCHANGED vars
    BY <1>11
       DEF vars, IInv, TypeOK, CacheCoherent, RemoteTracked, Quiet, Own, IsLocal, IsFrom, Present
  <1> QED
    BY <1>1, <1>2, <1>3, <1>4, <1>5, <1>6, <1>7, <1>8, <1>9, <1>10, <1>11, <1>12 DEF Next

LEMMA Invariant == Spec => []IInv
  BY InitInvariant, InvariantStep, PTL DEF Spec

-----------------------------------------------------------------------------
\* In every reachable state the variables have their types, and no definition is
\* attributed to this site: the controller never adopts its own announcements.
THEOREM TypeCorrect == Spec => []TypeOK
  BY Invariant, PTL DEF IInv

\* With no notification pending the controller's copies are the file's: the
\* watcher never leaves it with a stale view it does not know of.
THEOREM CopiesAreCurrent == Spec => []CacheCoherent
  BY Invariant, PTL DEF IInv

\* With no notification pending every remote definition is held for its origin,
\* so that withdrawal and ageing can find it.
THEOREM RemoteDefinitionsAreTracked == Spec => []RemoteTracked
  BY Invariant, PTL DEF IInv

\* An edit made from a current copy writes only over p's own definitions and free
\* addresses.
LEMMA EditRespectsOwners ==
    ASSUME NEW defs \in Services, NEW p \in Site, NEW upd \in Announcement, NEW D,
           NEW a \in Addr, NEW q \in Site,
           LET new == Edit(defs, p, upd, Changed(defs, p, upd), D)
           IN  IsFrom(new, a, q),
           Present(defs, a)
    PROVE  IsFrom(defs, a, q)
  BY DEF Edit, Changed, IsFrom, Present

\* An announcement of one peer never displaces a definition of another site, or of
\* this one, unless the controller was deciding from a stale or an empty copy.
THEOREM NoPeerTakesOver == Spec => NoHijack
  <1> DEFINE Step == \A a \in Addr, p \in Site :
                        /\ IsFrom(file', a, p)
                        /\ Present(file, a)
                        /\ ~IsFrom(file, a, p)
                        => phase = "booting" \/ events > 0
  <1>1. ASSUME IInv, Next, NEW a \in Addr, NEW p \in Site,
               IsFrom(file', a, p), Present(file, a), ~IsFrom(file, a, p),
               phase # "booting"
        PROVE  events > 0
    <2> USE <1>1
    <2>1. events \in Nat /\ file \in Services /\ phase \in Phase
      BY DEF IInv, TypeOK
    <2>2. file' # file
      BY DEF IsFrom
    <2>3. ASSUME NEW sh \in Shape, NEW b \in Addr, file' = [file EXCEPT ![b] = LocalDef(sh)]
          PROVE  FALSE
      BY <2>1, <2>3, LocalDefType, LocalAssumption DEF IsFrom, Present, Services
    <2>4. ASSUME NEW b \in Addr, file' = [file EXCEPT ![b] = NoDef]
          PROVE  FALSE
      BY <2>1, <2>4 DEF IsFrom, Present, Services
    <2>5. ASSUME NEW b \in Addr, NEW sh \in Shape,
                 CreateService(b, sh) \/ UpdateService(b, sh) \/ BindService(b, sh)
          PROVE  FALSE
      <3>1. Present(file, b) => file[b].shape \in Shape
        BY <2>1 DEF Present, Services, Def
      <3> QED
        BY <2>2, <2>3, <2>5, <3>1
           DEF CreateService, UpdateService, BindService, Command, WriteFile,
               Created, Updated, ShapeToBind
    <2>6. ASSUME NEW b \in Addr, NEW last \in BOOLEAN, UnbindService(b, last)
          PROVE  FALSE
      BY <2>2, <2>4, <2>6 DEF UnbindService, Unbound, Command, WriteFile
    <2>7. ASSUME NEW b \in Addr, RemoveService(b)
          PROVE  FALSE
      BY <2>4, <2>7 DEF RemoveService, Removed, Command, WriteFile
    <2>8. CASE Start \/ Boot \/ Watch \/ Crash
      BY <2>2, <2>8 DEF Start, Boot, Watch, Crash, fileVars
    <2>9. ASSUME NEW q \in Site, GoStale(q)
          PROVE  FALSE
      BY <2>2, <2>9 DEF GoStale, fileVars
    <2>10. CASE AgeOut
      <3>1. file' = Erase(file, AgedServices)
        BY <2>2, <2>10 DEF AgeOut, WriteFile, fileVars
      <3> QED  BY <3>1 DEF Erase, IsFrom, Present
    <2>12. CASE AgeFails
      <3>1. PICK deleted : file' = Erase(file, deleted)
        BY <2>2, <2>12 DEF AgeFails, WriteFile, fileVars
      <3> QED  BY <3>1 DEF Erase, IsFrom, Present
    <2>11. ASSUME NEW q \in Site, NEW upd \in Announcement, ReceiveUpdate(q, upd)
           PROVE  events > 0
      <3> SUFFICES ASSUME events = 0 PROVE FALSE
        BY <2>1
      <3>1. byName = file
        <4>1. Quiet
          BY <2>1, <2>11 DEF ReceiveUpdate, Up, Quiet, Phase
        <4> QED  BY <4>1 DEF IInv, CacheCoherent
      <3>2. file' = Edit(file, q, upd, Changed(byName, q, upd), Withdrawn(byOrigin, q, upd))
        BY <2>2, <2>11 DEF ReceiveUpdate, WriteFile, fileVars
      <3> QED  BY <2>1, <3>1, <3>2, EditRespectsOwners
    <2> QED
      BY <2>5, <2>6, <2>7, <2>8, <2>9, <2>10, <2>11, <2>12 DEF Next
  <1>2. IInv /\ [Next]_vars => [Step]_vars
    BY <1>1
  <1>3. Spec => [][Step]_vars
    BY <1>2, Invariant, PTL DEF Spec
  <1> QED  BY <1>3 DEF NoHijack

-----------------------------------------------------------------------------
(* The refinement of WatchedCache.                                         *)

LEMMA WriteIsChange ==
    ASSUME TypeOK, NEW defs \in Services, WriteFile(defs), UNCHANGED <<phase, byName>>
    PROVE  Watched!Change
  <1>1. phase = "running" => events' \in Nat \ {0}
    BY WriteFileNotifies
  <1>2. phase # "running" => events' = 0
    BY DEF WriteFile, TypeOK
  <1> QED
    BY <1>1, <1>2 DEF Watched!Change, WriteFile

\* A step of the site changes the watched value, opens, refreshes or closes the
\* copy, or leaves all of it as it is.
LEMMA WatchedStep ==
    ASSUME IInv, IInv', [Next]_vars
    PROVE  [Watched!Next]_Watched!vars
  <1> DEFINE Idle == UNCHANGED <<file, events, phase, byName>>
  <1>1. TypeOK /\ file' \in Services
    BY DEF IInv, TypeOK
  <1>2. Idle => UNCHANGED Watched!vars
    BY DEF Watched!vars
  <1>3. ASSUME NEW defs, file' = defs, WriteFile(defs), UNCHANGED <<phase, byName>>
        PROVE  Watched!Next
    BY <1>1, <1>3, WriteIsChange DEF Watched!Next
  <1>4. ASSUME NEW defs, Command(defs)
        PROVE  Watched!Next
    BY <1>3, <1>4 DEF Command, WriteFile, cacheVars
  <1>5. /\ \A a \in Addr, sh \in Shape :
              CreateService(a, sh) \/ UpdateService(a, sh) \/ BindService(a, sh)
                => Watched!Next
        /\ \A a \in Addr, last \in BOOLEAN : UnbindService(a, last) => Watched!Next
        /\ \A a \in Addr : RemoveService(a) => Watched!Next
    BY <1>4
       DEF CreateService, UpdateService, BindService, UnbindService, RemoveService
  <1>6. CASE Start
    BY <1>6, <1>1 DEF Start, fileVars, cacheVars, Watched!vars
  <1>7. CASE Boot
    <2>1. Watched!Open
      BY <1>7 DEF Boot, DefinitionsUpdated, fileVars, IInv, TypeOK,
                   Watched!Open, Watched!Follow
    <2> QED  BY <2>1 DEF Watched!Next
  <1>8. CASE Watch
    <2>1. Watched!Refresh
      BY <1>8 DEF Watch, DefinitionsUpdated, IInv, TypeOK, Watched!Refresh,
                   Watched!Follow
    <2> QED  BY <2>1 DEF Watched!Next
  <1>9. CASE Crash
    <2>1. Watched!Close
      BY <1>9 DEF Crash, Watched!Close, NoServices, Services
    <2> QED  BY <2>1 DEF Watched!Next
  <1>10. CASE AgeOut
    BY <1>2, <1>3, <1>10 DEF AgeOut, fileVars, cacheVars, WriteFile
  <1>14. CASE AgeFails
    <2>1. UNCHANGED <<phase, byName>> /\ (UNCHANGED fileVars \/ \E defs : WriteFile(defs))
      BY <1>14 DEF AgeFails, cacheVars
    <2> QED  BY <1>2, <1>3, <2>1 DEF fileVars, WriteFile
  <1>11. ASSUME NEW p \in Site, NEW upd \in Announcement, ReceiveUpdate(p, upd)
         PROVE  [Watched!Next]_Watched!vars
    BY <1>2, <1>3, <1>11 DEF ReceiveUpdate, fileVars, cacheVars, WriteFile
  <1>12. ASSUME NEW p \in Site, GoStale(p)
         PROVE  Idle
    BY <1>12 DEF GoStale, fileVars, cacheVars
  <1>13. CASE UNCHANGED vars
    BY <1>2, <1>13 DEF vars
  <1> QED
    BY <1>2, <1>5, <1>6, <1>7, <1>8, <1>9, <1>10, <1>11, <1>12, <1>13,
       <1>14 DEF Next

\* The controller's copy of the file implements the abstract watched value.
THEOREM ImplementsWatchedCache == Spec => WatchedSpec
  <1>1. Init => Watched!Init
    BY InitInvariant DEF Init, IInv, TypeOK, Watched!Init
  <1>2. IInv /\ IInv' /\ [Next]_vars => [Watched!Next]_Watched!vars
    BY WatchedStep
  <1> QED
    BY <1>1, <1>2, Invariant, PTL DEF Spec, WatchedSpec, Watched!Spec

-----------------------------------------------------------------------------
(* SiteClaims: what a site is promised about its own definitions, for any  *)
(* number of peers.                                                        *)

\* An address that is not contested is held for one origin at most.
OneClaim ==
    \A a \in Addr \ contested, p, q \in Site :
        a \in byOrigin[p] /\ a \in byOrigin[q] => p = q

\* A definition made at this site whose address is not contested is held for none,
\* once the controller has read the file as it is.
Unclaimed ==
    Quiet => \A a \in Addr \ contested, p \in Site :
                 IsLocal(file, a) => a \notin byOrigin[p]

\* A controller that is down holds nothing.
NothingKept == phase = "down" => byOrigin = NothingHeld

ClaimsInv == IInv /\ OneClaim /\ Unclaimed /\ NothingKept

-----------------------------------------------------------------------------
\* What a step does that neither starts nor stops the controller nor reads the file.
Gentle ==
    /\ phase' = phase
    /\ \A p \in Site : byOrigin'[p] \subseteq byOrigin[p]
    /\ phase = "down" => byOrigin' = byOrigin
    /\ Quiet' => Quiet /\ file' = file

\* Commands and handlers that write the file leave a notification.
LEMMA WriteIsGentle ==
    ASSUME TypeOK, NEW defs, WriteFile(defs), phase' = phase,
           \A p \in Site : byOrigin'[p] \subseteq byOrigin[p],
           phase = "down" => byOrigin' = byOrigin
    PROVE  Gentle
  BY WriteFileNotifies DEF Gentle, Quiet

LEMMA CommandIsGentle ==
    ASSUME TypeOK, NEW defs, Command(defs)
    PROVE  Gentle
  BY WriteIsGentle DEF Command, peerVars

\* One case per action.
LEMMA Steps ==
    ASSUME IInv, [Next]_vars
    PROVE  Gentle \/ Start \/ Boot \/ Watch \/ Crash
  <1> USE DEF IInv
  <1>1. ASSUME NEW a \in Addr, NEW sh \in Shape,
               CreateService(a, sh) \/ UpdateService(a, sh) \/ BindService(a, sh)
        PROVE  Gentle
    BY <1>1, CommandIsGentle DEF CreateService, UpdateService, BindService
  <1>2. ASSUME NEW a \in Addr, NEW last \in BOOLEAN, UnbindService(a, last)
        PROVE  Gentle
    BY <1>2, CommandIsGentle DEF UnbindService
  <1>3. ASSUME NEW a \in Addr, RemoveService(a)
        PROVE  Gentle
    BY <1>3, CommandIsGentle DEF RemoveService
  <1>4. ASSUME NEW p \in Site, NEW upd \in Announcement, ReceiveUpdate(p, upd)
        PROVE  Gentle
    <2>1. \A q \in Site : byOrigin'[q] \subseteq byOrigin[q]
      BY <1>4 DEF ReceiveUpdate, TypeOK
    <2>2. phase' = phase /\ phase # "down"
      BY <1>4 DEF ReceiveUpdate, Up
    <2>3. CASE UNCHANGED fileVars
      BY <2>1, <2>2, <2>3 DEF Gentle, Quiet, fileVars
    <2>4. CASE ~UNCHANGED fileVars
      BY <1>4, <2>1, <2>2, <2>4, WriteIsGentle DEF ReceiveUpdate
    <2> QED BY <2>3, <2>4
  <1>5. CASE AgeOut
    <2>1. \A q \in Site : byOrigin'[q] \subseteq byOrigin[q]
      BY <1>5 DEF AgeOut
    <2>2. phase' = phase /\ phase # "down"
      BY <1>5 DEF AgeOut, Up
    <2>3. CASE UNCHANGED fileVars
      BY <2>1, <2>2, <2>3 DEF Gentle, Quiet, fileVars
    <2>4. CASE ~UNCHANGED fileVars
      BY <1>5, <2>1, <2>2, <2>4, WriteIsGentle DEF AgeOut
    <2> QED BY <2>3, <2>4
  <1>8. CASE AgeFails
    <2>1. UNCHANGED <<phase, byOrigin>> /\ phase # "down"
      BY <1>8 DEF AgeFails, Up, peerVars
    <2>2. CASE UNCHANGED fileVars
      BY <2>1, <2>2 DEF Gentle, Quiet, fileVars
    <2>3. CASE ~UNCHANGED fileVars
      BY <1>8, <2>1, <2>3, WriteIsGentle DEF AgeFails
    <2> QED BY <2>2, <2>3
  <1>6. ASSUME NEW p \in Site, GoStale(p)
        PROVE  Gentle
    BY <1>6 DEF GoStale, Gentle, Quiet, fileVars
  <1>7. CASE UNCHANGED vars
    BY <1>7 DEF vars, Gentle, Quiet
  <1> QED
    BY <1>1, <1>2, <1>3, <1>4, <1>5, <1>6, <1>7, <1>8 DEF Next

-----------------------------------------------------------------------------
\* The holders are one again after a step by the definition of contested.
LEMMA NextOneClaim ==
    ASSUME TypeOK', [ClaimsNext]_claimVars, phase' # "down", OneClaim
    PROVE  OneClaim'
  <1>1. CASE ClaimsNext
    BY <1>1 DEF ClaimsNext, OneClaim, Disputed, Holders
  <1>2. CASE UNCHANGED claimVars
    BY <1>2 DEF claimVars, vars, OneClaim
  <1> QED BY <1>1, <1>2

\* Reading the file takes the only claim from an address that is local.
LEMMA ReadUnclaims ==
    ASSUME IInv, OneClaim, NEW pick \in Parings(byOrigin, file), DefinitionsUpdated(pick),
           NEW a \in Addr \ contested, NEW p \in Site, IsLocal(file, a)
    PROVE  a \notin byOrigin'[p]
  <1>1. ~IsFrom(file, a, p)
    BY LocalAssumption DEF IsLocal, IsFrom
  <1>2. byOrigin'[p] =
            (byOrigin[p] \cup Remote(file, p)) \ {b \in Addr : IsLocal(file, b) /\ pick[b] = p}
    BY DEF DefinitionsUpdated, Absorb
  <1>3. a \in byOrigin'[p] => a \in byOrigin[p] /\ pick[a] # p
    BY <1>1, <1>2 DEF Remote
  <1>4. a \in byOrigin[p] => pick[a] \in Site /\ a \in byOrigin[pick[a]]
    BY DEF Parings, Holders
  <1> QED BY <1>3, <1>4 DEF OneClaim

LEMMA InitClaimsInv == ClaimsInit => ClaimsInv
  <1> SUFFICES ASSUME ClaimsInit PROVE ClaimsInv
    OBVIOUS
  <1>1. IInv
    BY InitInvariant DEF ClaimsInit
  <1> QED
    BY <1>1 DEF ClaimsInit, Init, ClaimsInv, OneClaim, Unclaimed, NothingKept, Quiet,
                NothingHeld

LEMMA NextClaimsInv == ClaimsInv /\ [ClaimsNext]_claimVars => ClaimsInv'
  <1> SUFFICES ASSUME ClaimsInv, [ClaimsNext]_claimVars PROVE ClaimsInv'
    OBVIOUS
  <1>1. [Next]_vars
    BY DEF ClaimsNext, claimVars
  <1>2. IInv'
    BY <1>1, InvariantStep DEF ClaimsInv
  <1>3. phase' # "down" => contested \subseteq contested'
    BY DEF ClaimsNext, claimVars
  <1>4. CASE Gentle
    <2>1. NothingKept'
      BY <1>4 DEF Gentle, ClaimsInv, NothingKept
    <2>2. OneClaim'
      <3>1. CASE phase' = "down"
        BY <2>1, <3>1 DEF NothingKept, NothingHeld, OneClaim
      <3>2. CASE phase' # "down"
        BY <1>2, <3>2, NextOneClaim DEF IInv, ClaimsInv
      <3> QED BY <3>1, <3>2
    <2>3. Unclaimed'
      BY <1>3, <1>4 DEF Gentle, ClaimsInv, Unclaimed, Quiet
    <2> QED BY <1>2, <2>1, <2>2, <2>3 DEF ClaimsInv
  <1>5. CASE Start
    <2>1. phase' = "booting" /\ UNCHANGED byOrigin
      BY <1>5 DEF Start, peerVars
    <2>2. OneClaim'
      BY <1>2, <2>1, NextOneClaim DEF IInv, ClaimsInv
    <2> QED BY <1>2, <2>1, <2>2 DEF ClaimsInv, Unclaimed, NothingKept, Quiet
  <1>6. CASE Boot \/ Watch
    <2>1. PICK pick \in Parings(byOrigin, file) : DefinitionsUpdated(pick)
      BY <1>6 DEF Boot, Watch
    <2>2. phase' = "running" /\ UNCHANGED file
      BY <1>6 DEF Boot, Watch, fileVars
    <2>3. OneClaim'
      BY <1>2, <2>2, NextOneClaim DEF IInv, ClaimsInv
    <2>4. Unclaimed'
      BY <1>3, <2>1, <2>2, ReadUnclaims DEF ClaimsInv, Unclaimed
    <2> QED BY <1>2, <2>2, <2>3, <2>4 DEF ClaimsInv, NothingKept
  <1>7. CASE Crash
    <2>1. phase' = "down" /\ byOrigin' = NothingHeld
      BY <1>7 DEF Crash
    <2> QED
      BY <1>2, <2>1 DEF ClaimsInv, OneClaim, Unclaimed, NothingKept, Quiet, NothingHeld
  <1> QED
    BY <1>1, <1>4, <1>5, <1>6, <1>7, Steps DEF ClaimsInv

LEMMA SpecClaimsInv == ClaimsSpec => []ClaimsInv
  BY InitClaimsInv, NextClaimsInv, PTL DEF ClaimsSpec

-----------------------------------------------------------------------------
\* Ageing spares the definitions made at this site whose addresses are not
\* contested, however many peers fall silent at once.
THEOREM AgeingSparesOwn == ClaimsSpec => AgeingSparesUncontested
<1> DEFINE Step == Quiet /\ (AgeOut \/ AgeFails) => SparesUncontested
<1>1. ASSUME ClaimsInv, Quiet, AgeOut \/ AgeFails PROVE SparesUncontested
  <2> SUFFICES ASSUME NEW a \in Addr \ contested, IsLocal(file, a)
               PROVE  file'[a] = file[a]
    BY DEF SparesUncontested
  <2>1. a \notin AgedServices
    BY <1>1 DEF AgedServices, Aged, ClaimsInv, Unclaimed
  <2>2. CASE AgeOut
    BY <2>1, <2>2 DEF AgeOut, WriteFile, Erase, fileVars
  <2>3. CASE AgeFails
    <3>1. PICK erased \in SUBSET Aged :
              \/ file' = file
              \/ file' = Erase(file, UNION {byOrigin[p] : p \in erased})
      BY <2>3 DEF AgeFails, WriteFile, fileVars
    <3>2. a \notin UNION {byOrigin[p] : p \in erased}
      BY <2>1 DEF AgedServices
    <3> QED BY <3>1, <3>2 DEF Erase
  <2> QED BY <1>1, <2>2, <2>3
<1>2. ClaimsInv /\ [ClaimsNext]_claimVars => [Step]_claimVars
  BY <1>1
<1>3. ClaimsSpec => [][Step]_claimVars
  BY <1>2, SpecClaimsInv, PTL DEF ClaimsSpec
<1> QED BY <1>3 DEF AgeingSparesUncontested

\* No announcement touches them either.
THEOREM AnnouncementsSpareOwn == ClaimsSpec => UpdateSparesUncontested
<1> DEFINE Received == \E p \in Site, upd \in Announcement : ReceiveUpdate(p, upd)
           Step == Quiet /\ Received => SparesUncontested
<1>1. ASSUME ClaimsInv, Quiet, NEW p \in Site, NEW upd \in Announcement,
             ReceiveUpdate(p, upd)
      PROVE  SparesUncontested
  <2> SUFFICES ASSUME NEW a \in Addr \ contested, IsLocal(file, a)
               PROVE  file'[a] = file[a]
    BY DEF SparesUncontested
  <2>1. byName = file
    BY <1>1 DEF ClaimsInv, IInv, CacheCoherent
  <2>2. a \notin Changed(byName, p, upd)
    BY <2>1, LocalAssumption DEF Changed, IsLocal, IsFrom
  <2>3. a \notin Withdrawn(byOrigin, p, upd)
    BY <1>1 DEF Withdrawn, ClaimsInv, Unclaimed
  <2> QED BY <1>1, <2>2, <2>3 DEF ReceiveUpdate, WriteFile, Edit, fileVars
<1>2. ClaimsInv /\ [ClaimsNext]_claimVars => [Step]_claimVars
  BY <1>1
<1>3. ClaimsSpec => [][Step]_claimVars
  BY <1>2, SpecClaimsInv, PTL DEF ClaimsSpec
<1> QED BY <1>3 DEF UpdateSparesUncontested
=============================================================================
