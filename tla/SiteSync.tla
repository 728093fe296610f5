------------------------------- MODULE SiteSync -------------------------------
(***************************************************************************)
(* One site: the service definitions file, the commands that edit it, and  *)
(* the service controller that keeps in-memory copies of it, publishes its *)
(* local part and edits it on behalf of the peers.                         *)
(*                                                                         *)
(* Every handler is one step here; what is concurrent is the file watcher: *)
(* a write of the file leaves notifications pending, and until they are    *)
(* handled the controller decides from a stale copy.  ServiceFile breaks   *)
(* the handlers into their reads and writes.                               *)
(*                                                                         *)
(* Peers are the environment: they may announce anything at any time.      *)
(***************************************************************************)
EXTENDS SyncRules, Naturals

CONSTANTS
    Self,       \* this site's own origin
    MaxEvents   \* bound on the pending notifications of the file watcher

ASSUME SelfAssumption == Self \in Site
ASSUME EventsAssumption == MaxEvents \in Nat \ {0}

VARIABLES
    file,           \* /etc/messaging/services/skupper-services
    events,         \* write notifications the watcher has not received yet
    phase,          \* of the controller process: down, booting (the file was
                    \* not read yet) or running
    byName,         \* the controller's copy of the file
    localServices,  \* the local part of it, which the sender announces
    byOrigin,       \* for each origin, the addresses it is held to offer.  An
                    \* absent origin and an origin with an empty map behave
                    \* alike in these handlers, both are the empty set
    heardFrom       \* age of the last announcement: none, fresh, or stale when
                    \* it is 60 seconds old or more

fileVars == <<file, events>>
cacheVars == <<byName, localServices>>
peerVars == <<byOrigin, heardFrom>>
vars == <<file, events, phase, byName, localServices, byOrigin, heardFrom>>

Peers == Site \ {Self}
Age == {"none", "fresh", "stale"}
Phase == {"down", "booting", "running"}
Up == phase # "down"

NeverHeard == [p \in Site |-> "none"]
NothingHeld == [p \in Site |-> {}]

\* router_create.go writes an empty set of definitions before the controller
\* is started.
Init ==
    /\ file = NoServices
    /\ events = 0
    /\ phase = "down"
    /\ byName = NoServices
    /\ localServices = NoServices
    /\ byOrigin = NothingHeld
    /\ heardFrom = NeverHeard

\* A write of the file truncates it and writes it: one or two notifications,
\* and fsnotify drops one that equals the last one it has not delivered.
Notifications(n) == {m \in 1..MaxEvents : m >= n /\ m <= n + 2}

\* The watch exists only once the controller has added it.
WriteFile(defs) ==
    /\ file' = defs
    /\ IF phase = "running" THEN events' \in Notifications(events)
                            ELSE UNCHANGED events

-----------------------------------------------------------------------------
(* The commands of skupper-docker, each a read and a write of the file.    *)

Command(defs) ==
    /\ WriteFile(defs)
    /\ UNCHANGED <<phase, cacheVars, peerVars>>

CreateService(a, sh) == Command(Created(file, a, sh))

\* Its "Service not found" never happens, because ServiceInterfaceInspect
\* reports no error for an absent service.
UpdateService(a, sh) == Command(Updated(file, a, sh))

BindService(a, sh) == Command(Updated(file, a, ShapeToBind(file, a, sh)))

\* Only local definitions have targets.
UnbindService(a, deleteIfNoTargets) ==
    /\ IsLocal(file, a)
    /\ Command(Unbound(file, a, deleteIfNoTargets))

RemoveService(a) ==
    /\ Present(file, a)
    /\ Command(Removed(file, a))

-----------------------------------------------------------------------------
(* The controller.                                                         *)

Start ==
    /\ phase = "down"
    /\ phase' = "booting"
    /\ UNCHANGED <<fileVars, cacheVars, peerVars>>

\* A variant with a mistake: a file without definitions changes nothing.
DefinitionsUpdatedUnlessEmpty(pick) ==
    IF file = NoServices
      THEN UNCHANGED <<localServices, byName, byOrigin>>
      ELSE /\ localServices' = Own(file)
           /\ byName' = file
           /\ byOrigin' = Absorb(byOrigin, file, pick)

\* serviceSyncDefinitionsUpdated: all the copies follow the file.
DefinitionsUpdated(pick) ==
    /\ localServices' = Own(file)
    /\ byName' = file
    /\ byOrigin' = Absorb(byOrigin, file, pick)

\* runServiceDefsWatcher up to its loop: add the watch, read the file, and give
\* every origin found in it 60 seconds to be heard from.
Boot ==
    /\ phase = "booting"
    /\ phase' = "running"
    /\ \E pick \in Parings(byOrigin, file) : DefinitionsUpdated(pick)
    /\ heardFrom' = [p \in Site |->
            IF p # Self /\ (byOrigin'[p] # {} \/ heardFrom[p] # "none")
              THEN "fresh" ELSE heardFrom[p]]
    /\ UNCHANGED fileVars

\* A variant with a mistake: the notification is taken and the file is not read.
WatchIgnoring ==
    /\ phase = "running"
    /\ events > 0
    /\ events' = events - 1
    /\ UNCHANGED <<file, phase, cacheVars, peerVars>>

\* One write notification is handled: the file is read as it is now.
Watch ==
    /\ phase = "running"
    /\ events > 0
    /\ events' = events - 1
    /\ \E pick \in Parings(byOrigin, file) : DefinitionsUpdated(pick)
    /\ UNCHANGED <<file, phase, heardFrom>>

\* A variant with a mistake: the site takes announcements of its own.
OriginOfAnyone(p) == TRUE

\* The site's own announcements come back from the multicast address.
FromPeer(p) == p # Self

\* An announcement arrives.  The cache, not the file, decides what is written,
\* and the cache is left to the watcher.
ReceiveUpdate(p, upd) ==
    LET changed == Changed(byName, p, upd)
        deleted == Withdrawn(byOrigin, p, upd)
    IN  /\ Up
        /\ FromPeer(p)
        /\ heardFrom' = [heardFrom EXCEPT ![p] = "fresh"]
        /\ byOrigin' = [byOrigin EXCEPT ![p] = @ \ deleted]
        /\ IF changed = {} /\ deleted = {}
             THEN UNCHANGED fileVars
             ELSE WriteFile(Edit(file, p, upd, changed, deleted))
        /\ UNCHANGED <<phase, cacheVars>>

\* 60 seconds pass since the last announcement of p.
GoStale(p) ==
    /\ heardFrom[p] = "fresh"
    /\ heardFrom' = [heardFrom EXCEPT ![p] = "stale"]
    /\ UNCHANGED <<fileVars, phase, cacheVars, byOrigin>>

\* The ageing tick of syncSender: all that byOrigin holds for the origins that
\* were not heard from goes, from the file and from memory.
Aged == {p \in Site : heardFrom[p] = "stale"}
AgedServices == UNION {byOrigin[p] : p \in Aged}

AgeOut ==
    /\ Up
    /\ Aged # {}
    /\ IF AgedServices = {} THEN UNCHANGED fileVars
                            ELSE WriteFile(Erase(file, AgedServices))
    /\ heardFrom' = [p \in Site |-> IF p \in Aged THEN "none" ELSE heardFrom[p]]
    /\ byOrigin' = [p \in Site |-> IF p \in Aged THEN {} ELSE byOrigin[p]]
    /\ UNCHANGED <<phase, cacheVars>>

\* The definitions are erased origin by origin.  Where that fails, the sender ends at
\* once: those erased before are gone from the file, and nothing is forgotten.
AgeFails ==
    \E erased \in SUBSET Aged :
        LET deleted == UNION {byOrigin[p] : p \in erased} IN
        /\ Up
        /\ \E p \in Aged \ erased : byOrigin[p] # {}
        /\ IF deleted = {} THEN UNCHANGED fileVars ELSE WriteFile(Erase(file, deleted))
        /\ UNCHANGED <<phase, cacheVars, peerVars>>

\* The controller's container stops or is restarted: only the file is left.
Crash ==
    /\ Up
    /\ phase' = "down"
    /\ events' = 0
    /\ byName' = NoServices
    /\ localServices' = NoServices
    /\ byOrigin' = NothingHeld
    /\ heardFrom' = NeverHeard
    /\ UNCHANGED file

-----------------------------------------------------------------------------
Next ==
    \/ \E a \in Addr, sh \in Shape :
            CreateService(a, sh) \/ UpdateService(a, sh) \/ BindService(a, sh)
    \/ \E a \in Addr, deleteIfNoTargets \in BOOLEAN :
            UnbindService(a, deleteIfNoTargets)
    \/ \E a \in Addr : RemoveService(a)
    \/ Start \/ Boot \/ Watch \/ AgeOut \/ AgeFails \/ Crash
    \/ \E p \in Site, upd \in Announcement : ReceiveUpdate(p, upd)
    \/ \E p \in Site : GoStale(p)

Spec == Init /\ [][Next]_vars

-----------------------------------------------------------------------------
(* Properties.                                                             *)

\* Values of the right kind; in particular nothing is ever filed under this
\* site's own origin, although its announcements come back to it from the
\* multicast address (runServiceSync drops them).
TypeOK ==
    /\ file \in Services
    /\ \A a \in Addr : ~IsFrom(file, a, Self)
    /\ events \in 0..MaxEvents
    /\ phase \in Phase
    /\ byName \in Services
    /\ localServices \in Announcement
    /\ byOrigin \in [Site -> SUBSET Addr]
    /\ byOrigin[Self] = {}
    /\ heardFrom \in [Site -> Age]
    /\ phase # "running" => events = 0

\* The watcher has read the file and has no notification left to handle.
Quiet == phase = "running" /\ events = 0

\* When no notification is pending, the controller's copies are the file's: it
\* decides on, and announces, what the file says.
CacheCoherent ==
    Quiet => byName = file /\ localServices = Own(file)

\* When no notification is pending, every remote definition in the file is held
\* for its origin, so that a withdrawal or the ageing of that origin finds it.
RemoteTracked ==
    Quiet => \A a \in Addr, p \in Site : IsFrom(file, a, p) => a \in byOrigin[p]

\* A definition passes from its owner to another peer only while the controller
\* decides from a stale copy of the file, or before it has read it at all: an
\* announcement does not displace what another site, or this one, offers.
NoHijack ==
    [][\A a \in Addr, p \in Site :
            /\ IsFrom(file', a, p)
            /\ Present(file, a)
            /\ ~IsFrom(file, a, p)
            => phase = "booting" \/ events > 0]_vars

\* The controller's copy of the file as a watched value.
Watched ==
    INSTANCE WatchedCache WITH
        Value <- Services,
        disk <- file,
        open <- phase = "running",
        copy <- byName,
        pending <- events > 0

\* Whatever commands, peers and crashes do, the copy of the file behaves as the
\* abstract specification of a watched value says.
WatchedSpec == Watched!Spec

\* Ageing removes no definition made at this site ("aged out service definitions
\* from origin ...", service_sync.go).
AgeingSparesLocal ==
    [][Quiet /\ AgeOut => Own(file') = Own(file)]_vars
=============================================================================
