--------------------------- MODULE ServiceFileProofs ---------------------------
(***************************************************************************)
(* Proofs about ServiceFile, for any number of concurrent commands, any    *)
(* sets of addresses, sites and shapes, and any bounds.                    *)
(***************************************************************************)
EXTENDS ServiceFile, TLAPS

-----------------------------------------------------------------------------
(* The operators of SyncRules stay within the types.                       *)

LEMMA EditType ==
    ASSUME NEW defs \in Services, NEW p \in Site, NEW upd \in Announcement, NEW D
    PROVE  Edit(defs, p, upd, {a \in Addr : upd[a] # NoDef}, D) \in Services
  BY DEF Edit, Services, Def, Origin, Announcement

LEMMA EraseType ==
    ASSUME NEW defs \in Services, NEW D
    PROVE  Erase(defs, D) \in Services
  BY DEF Erase, Services

LEMMA OwnType ==
    ASSUME NEW defs \in Services
    PROVE  Own(defs) \in Announcement
  BY DEF Own, Services, Announcement, IsLocal, Present, Def

LEMMA CommandTypes ==
    ASSUME NEW defs \in Services, NEW a \in Addr, NEW sh \in Shape, NEW last \in BOOLEAN
    PROVE  /\ Created(defs, a, sh) \in Services
           /\ Updated(defs, a, sh) \in Services
           /\ ShapeToBind(defs, a, sh) \in Shape
           /\ Unbound(defs, a, last) \in Services
           /\ Removed(defs, a) \in Services
  BY DEF Created, Updated, ShapeToBind, Unbound, Removed, LocalDef, Services, Def, Origin,
         Present

LEMMA AbsorbType ==
    ASSUME NEW byO \in [Site -> SUBSET Addr], NEW defs, NEW pick
    PROVE  Absorb(byO, defs, pick) \in [Site -> SUBSET Addr]
  BY DEF Absorb, Remote

-----------------------------------------------------------------------------
(* The inductive invariant.                                                *)

\* The three goroutines start and end together, sender after sync has connected.
Lifecycle ==
    /\ pc["watcher"] = "off" => pc["sync"] = "off" /\ events = 0
    /\ pc["sync"] \in {"off", "dial"} => pc["sender"] = "off"
    /\ ~Watching => events = 0

IInv == TypeOK /\ Lifecycle /\ NoMissedChange

LEMMA ActorFacts ==
    /\ "sync" \in Actor /\ "sender" \in Actor /\ "watcher" \in Actor
    /\ "sync" \in Writer /\ "sender" \in Writer
    /\ \A c \in Cli : c \in Actor /\ c \in Writer
                       /\ c # "sync" /\ c # "sender" /\ c # "watcher"
    /\ \A w \in Writer : w \in Actor /\ w # "watcher"
                       /\ (w \in Cli \/ w = "sync" \/ w = "sender")
  BY CliAssumption DEF Actor, Controller, Writer

LEMMA NotifyType ==
    ASSUME events \in 0..MaxEvents, Notify
    PROVE  /\ events' \in 0..MaxEvents
           /\ Watching => events' # 0
           /\ ~Watching => events' = events
  BY EventsAssumption DEF Notify

LEMMA InitInvariant == Init => IInv
  <1> SUFFICES ASSUME Init PROVE IInv
    OBVIOUS
  <1> USE DEF Init
  <1>1. NoServices \in Services /\ NoServices \in Announcement /\ NoRequest.peer = Self
        /\ NoRequest \in [peer : Site, changed : Announcement, deleted : SUBSET Addr]
    BY SelfAssumption DEF NoServices, Services, Announcement, NoRequest
  <1>2. TypeOK
    <2>1. pc \in [Actor -> Label] /\ \A w \in Controller : pc[w] = "off"
      BY CliAssumption DEF Actor, Controller, Label
    <2>2. \A c \in Cli : pc[c] = "idle"
      BY ActorFacts
    <2>3. pc["sync"] = "off" /\ pc["sender"] = "off" /\ pc["watcher"] = "off"
      BY <2>1 DEF Controller
    <2>4. snap \in [Actor -> Services] /\ heardFrom \in [Site -> Age]
          /\ byOrigin \in [Site -> SUBSET Addr]
      BY <1>1 DEF Age
    <2>5. events \in 0..MaxEvents /\ faults \in 0..MaxFaults
      BY EventsAssumption, FaultsAssumption
    <2> QED
      BY <1>1, <2>1, <2>2, <2>3, <2>4, <2>5 DEF TypeOK
  <1>3. pc["watcher"] = "off" /\ pc["sync"] = "off" /\ pc["sender"] = "off"
    BY ActorFacts, CliAssumption
  <1>4. Lifecycle /\ NoMissedChange
    BY <1>3 DEF Lifecycle, NoMissedChange, Watching
  <1> QED  BY <1>2, <1>4 DEF IInv

LEMMA NothingTypes ==
    /\ NoServices \in Services /\ NoServices \in Announcement
    /\ NoRequest \in [peer : Site, changed : Announcement, deleted : SUBSET Addr]
  BY SelfAssumption DEF NoServices, Services, Announcement, NoRequest

\* A step that leaves the file, the notifications and the watcher alone preserves what
\* the invariant says of them.
LEMMA QuietStep ==
    ASSUME IInv, UNCHANGED <<file, events, byName, localServices>>,
           pc' \in [Actor -> Label],
           snap'["watcher"] = snap["watcher"], pc'["watcher"] = pc["watcher"]
    PROVE  NoMissedChange'
  BY DEF IInv, NoMissedChange, Watching, Readable, Own, IsLocal, Present

\* ... and of a step that moves only one writer, with the file and what the watcher
\* keeps left alone.
LEMMA WriterMoves ==
    ASSUME IInv, NEW w \in Writer, NEW label \in Label, Goto(w, label),
           UNCHANGED <<file, events, byName, localServices>>,
           snap'["watcher"] = snap["watcher"]
    PROVE  /\ NoMissedChange'
           /\ pc' \in [Actor -> Label] /\ pc'[w] = label
           /\ \A v \in Actor : v # w => pc'[v] = pc[v]
  <1>1. pc \in [Actor -> Label] /\ w \in Actor /\ w # "watcher" /\ "watcher" \in Actor
    BY ActorFacts DEF IInv, TypeOK
  <1>2. /\ pc' \in [Actor -> Label] /\ pc'[w] = label
        /\ \A v \in Actor : v # w => pc'[v] = pc[v]
    BY <1>1 DEF Goto
  <1> QED  BY <1>1, <1>2, QuietStep

\* A read-modify-write step: only the reader's own content and label change.
LEMMA ReadAndEditKeeps ==
    ASSUME IInv, NEW w \in Writer, NEW defs \in Services, ReadAndEdit(w, defs),
           pc[w] \in {"idle", "inspected", "read", "erase"}
    PROVE  IInv'
  <1>1. w \in Actor /\ w # "watcher" /\ TypeOK
    BY ActorFacts DEF IInv
  <1>2. /\ UNCHANGED <<file, events, others, memory>> /\ Goto(w, "truncate")
        /\ snap' = [snap EXCEPT ![w] = defs]
    BY DEF ReadAndEdit
  <1>3. snap' \in [Actor -> Services] /\ snap'["watcher"] = snap["watcher"]
    BY <1>1, <1>2, ActorFacts DEF TypeOK
  <1>4. /\ NoMissedChange'
        /\ pc' \in [Actor -> Label] /\ pc'[w] = "truncate"
        /\ \A v \in Actor : v # w => pc'[v] = pc[v]
    BY <1>2, <1>3, WriterMoves DEF Label, others, memory
  <1>5. w = "sync" \/ w = "sender" \/ w \in Cli
    BY ActorFacts
  <1>6. /\ pc'["sync"] \in {"off", "dial", "idle", "read", "truncate", "write", "prune", "dead"}
        /\ pc'["sender"] \in {"off", "idle", "ageing", "erase", "truncate", "write", "dead"}
        /\ pc'["watcher"] = pc["watcher"]
        /\ \A c \in Cli : pc'[c] \in {"idle", "inspected", "truncate", "write"}
    BY <1>1, <1>4, <1>5, ActorFacts DEF TypeOK
  <1>7. TypeOK'
    BY <1>1, <1>2, <1>3, <1>4, <1>6 DEF TypeOK, others, senderVars, memory
  <1>8. Lifecycle'
    BY <1>1, <1>2, <1>4, <1>5, <1>6, ActorFacts DEF IInv, TypeOK, Lifecycle, Watching
  <1> QED  BY <1>4, <1>7, <1>8 DEF IInv

\* Every write of the file leaves a notification if the watch exists.
LEMMA TruncateKeeps ==
    ASSUME IInv, NEW w \in Writer, Truncate(w)
    PROVE  IInv'
  <1>1. w \in Actor /\ w # "watcher" /\ TypeOK /\ (w = "sync" \/ w = "sender" \/ w \in Cli)
    BY ActorFacts DEF IInv
  <1>2. /\ file' = Truncated /\ pc[w] = "truncate" /\ Goto(w, "write")
        /\ UNCHANGED <<snap, others, memory>>
    BY DEF Truncate
  <1>3. /\ events' \in 0..MaxEvents
        /\ ~Watching => events' = events
    BY NotifyType DEF Truncate, IInv, TypeOK
  <1>4. /\ pc' \in [Actor -> Label] /\ pc'[w] = "write"
        /\ \A v \in Actor : v # w => pc'[v] = pc[v]
    BY <1>1, <1>2 DEF TypeOK, Goto, Label
  <1>5. /\ pc'["sync"] \in {"off", "dial", "idle", "read", "truncate", "write", "prune", "dead"}
        /\ pc'["sender"] \in {"off", "idle", "ageing", "erase", "truncate", "write", "dead"}
        /\ pc'["watcher"] = pc["watcher"]
        /\ \A c \in Cli : pc'[c] \in {"idle", "inspected", "truncate", "write"}
    BY <1>1, <1>4, ActorFacts DEF TypeOK
  <1>6. TypeOK'
    BY <1>1, <1>2, <1>3, <1>4, <1>5 DEF TypeOK, others, senderVars, memory
  <1>7. Lifecycle'
    BY <1>1, <1>2, <1>3, <1>4, <1>5, ActorFacts DEF IInv, TypeOK, Lifecycle, Watching
  <1>8. NoMissedChange'
    BY <1>2, UnreadableAssumption DEF NoMissedChange, Readable
  <1> QED  BY <1>6, <1>7, <1>8 DEF IInv

\* ... and so does every end of a write that has changed the file, whether the writer
\* is told of an error or not.
LEMMA WriteEnds ==
    ASSUME NEW w \in Writer, Write(w) \/ WriteFails(w), IInv
    PROVE  /\ pc[w] \in {"truncate", "write"}
           /\ Goto(w, AfterWrite(w)) \/ Goto(w, AfterFailure(w))
           /\ Forget(w)
           /\ UNCHANGED <<request, senderVars, armed, memory>>
           /\ faults' \in 0..MaxFaults
           /\ \/ UNCHANGED <<file, events>>
              \/ file' \in Services \cup {Corrupt} /\ Notify
  <1>1. w \in Actor /\ TypeOK
    BY ActorFacts DEF IInv
  <1>2. snap[w] \in Services
    BY <1>1 DEF TypeOK
  <1>3. Written(w) \subseteq Services \cup {Corrupt}
    BY <1>2 DEF Written
  <1>4. CASE Write(w)
    BY <1>1, <1>3, <1>4 DEF Write, others, TypeOK
  <1>5. CASE WriteFails(w)
    BY <1>1, <1>3, <1>5, FaultsAssumption DEF WriteFails, TypeOK
  <1> QED  BY <1>4, <1>5

LEMMA WriteKeeps ==
    ASSUME IInv, NEW w \in Writer, Write(w) \/ WriteFails(w)
    PROVE  IInv'
  <1>1. w \in Actor /\ w # "watcher" /\ TypeOK /\ (w = "sync" \/ w = "sender" \/ w \in Cli)
    BY ActorFacts DEF IInv
  <1>2. PICK label \in {AfterWrite(w), AfterFailure(w)} : Goto(w, label)
    BY WriteEnds
  <1>3. /\ w = "sync" => label = "prune"
        /\ w = "sender" => label \in {"ageing", "dead"}
        /\ w \in Cli => label = "idle"
    BY <1>1, <1>2, ActorFacts DEF AfterWrite, AfterFailure
  <1>4. /\ pc' \in [Actor -> Label] /\ pc'[w] = label
        /\ \A v \in Actor : v # w => pc'[v] = pc[v]
    BY <1>1, <1>2, <1>3 DEF TypeOK, Goto, Label
  <1>5. /\ pc'["sync"] \in {"off", "dial", "idle", "read", "truncate", "write", "prune", "dead"}
        /\ pc'["sender"] \in {"off", "idle", "ageing", "erase", "truncate", "write", "dead"}
        /\ pc'["watcher"] = pc["watcher"]
        /\ \A c \in Cli : pc'[c] \in {"idle", "inspected", "truncate", "write"}
    BY <1>1, <1>3, <1>4, ActorFacts DEF TypeOK
  <1>6. snap' \in [Actor -> Services] /\ snap'["watcher"] = snap["watcher"]
    BY <1>1, ActorFacts, WriteEnds, NothingTypes DEF Forget, TypeOK
  <1>7. /\ events' \in 0..MaxEvents
        /\ ~Watching => events' = events
        /\ file' \in Services \cup {Truncated, Corrupt}
    BY <1>1, NotifyType, WriteEnds DEF TypeOK
  <1>8. TypeOK'
    BY <1>1, <1>4, <1>5, <1>6, <1>7, WriteEnds DEF TypeOK, senderVars, memory
  <1>9. pc[w] \in {"truncate", "write"}
    BY WriteEnds
  <1>10. Lifecycle'
    BY <1>1, <1>3, <1>4, <1>5, <1>7, <1>9, ActorFacts DEF IInv, TypeOK, Lifecycle, Watching
  <1>11. CASE UNCHANGED <<file, events>>
    <2>1. UNCHANGED <<byName, localServices>>
      BY WriteEnds DEF memory
    <2>2. NoMissedChange'
      BY <1>4, <1>5, <1>6, <1>11, <2>1, QuietStep
    <2> QED  BY <1>8, <1>10, <2>2 DEF IInv
  <1>12. CASE file' \in Services \cup {Corrupt} /\ Notify
    <2>1. Watching => events' # 0
      BY <1>1, <1>12, NotifyType DEF TypeOK
    <2>2. NoMissedChange'
      BY <1>5, <2>1 DEF NoMissedChange, Watching
    <2> QED  BY <1>8, <1>10, <2>2 DEF IInv
  <1> QED  BY <1>11, <1>12, WriteEnds

LEMMA CommandKeeps ==
    ASSUME IInv, NEW c \in Cli, Command(c)
    PROVE  IInv'
  <1>1. c \in Writer /\ c \in Actor /\ c # "watcher" /\ c # "sync" /\ c # "sender" /\ TypeOK
    BY ActorFacts DEF IInv
  <1>2. ASSUME NEW a \in Addr, NEW sh \in Shape, CreateService(c, a, sh)
        PROVE  IInv'
    <2>1. Created(file, a, sh) \in Services
      BY <1>2, CommandTypes DEF CreateService, ReadAndEdit, Readable
    <2> QED  BY <1>1, <1>2, <2>1, ReadAndEditKeeps DEF CreateService
  <1>3. ASSUME NEW a \in Addr, BindService(c, a)
        PROVE  IInv'
    <2>1. snap[c][a].shape \in Shape
      BY <1>1, <1>3 DEF BindService, Present, TypeOK, Services, Def
    <2>2. Updated(file, a, snap[c][a].shape) \in Services
      BY <1>3, <2>1, CommandTypes DEF BindService, ReadAndEdit, Readable
    <2> QED  BY <1>1, <1>3, <2>2, ReadAndEditKeeps DEF BindService
  <1>4. ASSUME NEW a \in Addr, RemoveService(c, a)
        PROVE  IInv'
    <2>1. Removed(file, a) \in Services
      BY <1>4, CommandTypes DEF RemoveService, Readable, Removed, Services
    <2> QED  BY <1>1, <1>4, <2>1, ReadAndEditKeeps DEF RemoveService
  <1>5. ASSUME NEW a \in Addr, NEW last \in BOOLEAN, UnbindService(c, a, last)
        PROVE  IInv'
    <2>1. Unbound(file, a, last) \in Services
      BY <1>5 DEF UnbindService, Readable, Unbound, Services
    <2> QED  BY <1>1, <1>5, <2>1, ReadAndEditKeeps DEF UnbindService
  <1>6. ASSUME NEW label \in {"idle", "inspected"}, Goto(c, label),
               pc[c] \in {"idle", "inspected"},
               UNCHANGED <<file, events, others, memory>>,
               snap' \in [Actor -> Services], snap'["watcher"] = snap["watcher"]
        PROVE  IInv'
    <2>1. /\ NoMissedChange'
          /\ pc' \in [Actor -> Label] /\ pc'[c] = label
          /\ \A v \in Actor : v # c => pc'[v] = pc[v]
      BY <1>1, <1>6, WriterMoves DEF Label, others, memory
    <2>2. /\ pc'["sync"] = pc["sync"] /\ pc'["sender"] = pc["sender"]
          /\ pc'["watcher"] = pc["watcher"]
          /\ \A d \in Cli : pc'[d] \in {"idle", "inspected", "truncate", "write"}
      BY <1>1, <1>6, <2>1, ActorFacts DEF TypeOK
    <2>3. TypeOK'
      BY <1>1, <1>6, <2>1, <2>2 DEF TypeOK, others, senderVars, memory
    <2>4. Lifecycle'
      BY <1>6, <2>2 DEF IInv, Lifecycle, Watching
    <2> QED  BY <2>1, <2>3, <2>4 DEF IInv
  <1>7. ASSUME NEW a \in Addr, NEW sh \in Shape, InspectService(c, a, sh)
        PROVE  IInv'
    <2>1. file \in Services /\ NoServices \in Services
      BY <1>7 DEF InspectService, Readable, NoServices, Services
    <2>2. Updated(NoServices, a, ShapeToBind(file, a, sh)) \in Services
      BY <2>1, CommandTypes
    <2>3. snap' \in [Actor -> Services] /\ snap'["watcher"] = snap["watcher"]
      BY <1>1, <1>7, <2>2, ActorFacts DEF InspectService, TypeOK
    <2> QED  BY <1>6, <1>7, <2>3 DEF InspectService
  <1>8. ASSUME BindFails(c)
        PROVE  IInv'
    <2>1. snap' \in [Actor -> Services] /\ snap'["watcher"] = snap["watcher"]
      BY <1>1, <1>8, ActorFacts, NothingTypes DEF BindFails, Forget, TypeOK
    <2> QED  BY <1>6, <1>8, <2>1 DEF BindFails
  <1> QED  BY <1>2, <1>3, <1>4, <1>5, <1>7, <1>8 DEF Command

\* What the steps of sync and sender that leave the file alone have in common.
LEMMA GoroutineMoves ==
    ASSUME IInv, NEW w \in {"sync", "sender"}, NEW label,
           Goto(w, label), pc[w] # "write",
           UNCHANGED <<file, events, snap, armed, faults, byName, localServices>>,
           w = "sync" => label \in {"idle", "read", "prune", "dead"} /\ pc[w] # "off",
           w = "sender" => label \in {"idle", "ageing", "erase", "dead"} /\ pc[w] # "off",
           request' \in [peer : Site, changed : Announcement, deleted : SUBSET Addr],
           toAge' \subseteq Site /\ aged' \subseteq Site /\ doomed' \subseteq Addr,
           byOrigin' \in [Site -> SUBSET Addr],
           heardFrom' \in [Site -> Age]
    PROVE  IInv'
  <1>1. w \in Writer /\ w \in Actor /\ w # "watcher" /\ w \notin Cli /\ TypeOK
        /\ label \in Label
    BY ActorFacts DEF IInv, Label
  <1>2. /\ NoMissedChange'
        /\ pc' \in [Actor -> Label] /\ pc'[w] = label
        /\ \A v \in Actor : v # w => pc'[v] = pc[v]
    BY <1>1, WriterMoves
  <1>3. /\ pc'["sync"] \in {"off", "dial", "idle", "read", "truncate", "write", "prune", "dead"}
        /\ pc'["sender"] \in {"off", "idle", "ageing", "erase", "truncate", "write", "dead"}
        /\ pc'["watcher"] = pc["watcher"]
        /\ \A c \in Cli : pc'[c] \in {"idle", "inspected", "truncate", "write"}
    BY <1>1, <1>2, ActorFacts DEF TypeOK
  <1>4. TypeOK'
    BY <1>1, <1>2, <1>3 DEF TypeOK
  <1>5. Lifecycle'
    BY <1>1, <1>2, <1>3, ActorFacts DEF IInv, Lifecycle, Watching
  <1> QED  BY <1>2, <1>4, <1>5 DEF IInv

LEMMA SyncKeeps ==
    ASSUME IInv, SyncStep \/ SyncReturns
    PROVE  IInv'
  <1>1. TypeOK /\ "sync" \in Writer
    BY ActorFacts DEF IInv
  <1>2. CASE SyncReads
    <2>1. Edit(file, request.peer, request.changed,
                {a \in Addr : request.changed[a] # NoDef}, request.deleted) \in Services
      BY <1>1, <1>2, EditType DEF SyncReads, ReadAndEdit, Readable, TypeOK
    <2> QED  BY <1>1, <1>2, <2>1, ReadAndEditKeeps DEF SyncReads
  <1>3. CASE SyncReadFails
    BY <1>1, <1>3, GoroutineMoves DEF SyncReadFails, others, senderVars, memory, TypeOK
  <1>4. CASE SyncPrunes
    <2>1. NoRequest \in [peer : Site, changed : Announcement, deleted : SUBSET Addr]
      BY SelfAssumption DEF NoRequest, NoServices, Announcement
    <2>2. byOrigin' \in [Site -> SUBSET Addr]
      BY <1>1, <1>4 DEF SyncPrunes, TypeOK
    <2> QED
      BY <1>1, <1>4, <2>1, <2>2, GoroutineMoves DEF SyncPrunes, senderVars, TypeOK
  <1>5. CASE SyncReturns
    BY <1>1, <1>5, GoroutineMoves DEF SyncReturns, others, senderVars, memory, TypeOK
  <1> QED  BY <1>2, <1>3, <1>4, <1>5 DEF SyncStep

LEMMA ReceiveKeeps ==
    ASSUME IInv, NEW p \in Site, NEW upd \in Announcement, ReceiveUpdate(p, upd)
    PROVE  IInv'
  <1> DEFINE changed == Changed(byName, p, upd)
             deleted == Withdrawn(byOrigin, p, upd)
  <1>1. TypeOK
    BY DEF IInv
  <1>2. heardFrom' \in [Site -> Age]
    BY <1>1 DEF ReceiveUpdate, TypeOK, Age
  <1>3. /\ pc["sync"] = "idle"
        /\ UNCHANGED <<file, events, snap, toAge, aged, doomed, armed, faults,
                       byName, localServices, byOrigin>>
    BY DEF ReceiveUpdate, senderVars
  <1>4. CASE changed = {} /\ deleted = {}
    <2>1. UNCHANGED <<request, pc>>
      BY <1>4 DEF ReceiveUpdate
    <2>2. Goto("sync", "idle")
      BY <1>1, <1>3, <2>1 DEF Goto, TypeOK
    <2> QED  BY <1>1, <1>2, <1>3, <2>1, <2>2, GoroutineMoves DEF TypeOK
  <1>5. CASE ~(changed = {} /\ deleted = {})
    <2>1. request' \in [peer : Site, changed : Announcement, deleted : SUBSET Addr]
      BY <1>1, <1>5 DEF ReceiveUpdate, Announcement, Withdrawn, TypeOK
    <2>2. Goto("sync", "read")
      BY <1>5 DEF ReceiveUpdate
    <2> QED  BY <1>1, <1>2, <1>3, <2>1, <2>2, GoroutineMoves DEF TypeOK
  <1> QED  BY <1>4, <1>5

LEMMA SenderKeeps ==
    ASSUME IInv, SenderStep \/ AgeTick
    PROVE  IInv'
  <1>1. TypeOK /\ "sender" \in Writer
    BY ActorFacts DEF IInv
  <1>2. ASSUME NEW p \in Site, AgeNext(p)
        PROVE  IInv'
    <2>1. /\ pc["sender"] = "ageing"
          /\ UNCHANGED <<file, events, snap, request, armed, faults, memory>>
      BY <1>2 DEF AgeNext
    <2>2. toAge' \subseteq Site /\ aged' \subseteq Site /\ doomed' \subseteq Addr
      BY <1>1, <1>2 DEF AgeNext, TypeOK
    <2>3. \E label \in {"ageing", "erase"} : Goto("sender", label)
      <3>1. UNCHANGED pc => Goto("sender", "ageing")
        BY <1>1, <2>1 DEF Goto, TypeOK
      <3> QED  BY <1>2, <3>1 DEF AgeNext
    <2> QED  BY <1>1, <2>1, <2>2, <2>3, GoroutineMoves DEF TypeOK, memory
  <1>3. CASE SenderReads
    <2>1. Erase(file, doomed) \in Services
      BY <1>3, EraseType DEF SenderReads, ReadAndEdit, Readable
    <2> QED  BY <1>1, <1>3, <2>1, ReadAndEditKeeps DEF SenderReads
  <1>4. CASE SenderReadFails
    BY <1>1, <1>4, GoroutineMoves DEF SenderReadFails, others, senderVars, memory, TypeOK
  <1>5. CASE Reap
    <2>1. heardFrom' \in [Site -> Age] /\ byOrigin' \in [Site -> SUBSET Addr]
      BY <1>1, <1>5 DEF Reap, TypeOK, Age
    <2> QED  BY <1>1, <1>5, <2>1, GoroutineMoves DEF Reap, TypeOK
  <1>6. CASE AgeTick
    BY <1>1, <1>6, GoroutineMoves DEF AgeTick, memory, TypeOK
  <1> QED  BY <1>2, <1>3, <1>4, <1>5, <1>6 DEF SenderStep

\* What the steps of the watcher have in common: no writer moves.
LEMMA WatcherMoves ==
    ASSUME IInv, NEW label, Goto("watcher", label),
           label \in {"read", "merge", "publish", "arm", "idle", "dead"},
           pc["watcher"] # "off",
           UNCHANGED <<file, request, toAge, aged, doomed, faults>>,
           events' \in 0..MaxEvents, ~Watching => events' = 0,
           label = "dead" => ~Watching,
           armed' \in BOOLEAN,
           snap' \in [Actor -> Services], byName' \in Services,
           localServices' \in Announcement,
           byOrigin' \in [Site -> SUBSET Addr], heardFrom' \in [Site -> Age]
    PROVE  /\ TypeOK' /\ Lifecycle'
           /\ pc'["watcher"] = label
  <1>1. TypeOK
    BY DEF IInv
  <1>2. /\ pc' \in [Actor -> Label] /\ pc'["watcher"] = label
        /\ \A w \in Writer : pc'[w] = pc[w]
    BY <1>1, ActorFacts DEF Goto, Label, TypeOK
  <1>3. pc'["sync"] = pc["sync"] /\ pc'["sender"] = pc["sender"]
        /\ \A c \in Cli : pc'[c] = pc[c]
    BY <1>2, ActorFacts
  <1>4. TypeOK'
    BY <1>1, <1>2, <1>3 DEF TypeOK
  <1>5. Lifecycle'
    BY <1>2, <1>3 DEF IInv, Lifecycle, Watching
  <1> QED  BY <1>2, <1>4, <1>5

LEMMA WatcherKeeps ==
    ASSUME IInv, WatcherStep
    PROVE  IInv'
  <1>1. TypeOK /\ Lifecycle /\ NoMissedChange /\ "watcher" \in Actor
    BY ActorFacts DEF IInv
  <1>2. CASE AddWatch
    <2>1. PICK label \in {"read", "dead"} : Goto("watcher", label)
      BY <1>2 DEF AddWatch
    <2>2. pc["watcher"] = "add" /\ ~Watching /\ events = 0
          /\ UNCHANGED <<file, events, snap, others, memory>>
      BY <1>1, <1>2 DEF AddWatch, Watching, Lifecycle
    <2>3. TypeOK' /\ Lifecycle' /\ pc'["watcher"] = label
      BY <1>1, <2>1, <2>2, WatcherMoves DEF TypeOK, others, senderVars, memory
    <2> QED  BY <2>3 DEF IInv, NoMissedChange, Watching
  <1>3. CASE TakeEvent
    <2>1. pc["watcher"] = "idle" /\ Goto("watcher", "read")
          /\ UNCHANGED <<file, snap, others, memory>>
          /\ events' \in 0..MaxEvents /\ Watching
      BY <1>1, <1>3, EventsAssumption DEF TakeEvent, Watching, TypeOK
    <2>2. TypeOK' /\ Lifecycle' /\ pc'["watcher"] = "read"
      BY <1>1, <2>1, WatcherMoves DEF TypeOK, others, senderVars, memory
    <2> QED  BY <2>2 DEF IInv, NoMissedChange
  <1>4. CASE WatcherReads
    <2>1. pc["watcher"] = "read" /\ Watching /\ UNCHANGED <<file, events, others, memory>>
      BY <1>4 DEF WatcherReads, Watching
    <2>2. CASE Readable
      <3>1. Goto("watcher", "merge") /\ snap' = [snap EXCEPT !["watcher"] = file]
        BY <1>4, <2>2 DEF WatcherReads
      <3>2. snap' \in [Actor -> Services] /\ snap'["watcher"] = file
        BY <1>1, <2>2, <3>1 DEF TypeOK, Readable
      <3>3. TypeOK' /\ Lifecycle' /\ pc'["watcher"] = "merge"
        BY <1>1, <2>1, <3>1, <3>2, WatcherMoves DEF TypeOK, others, senderVars, memory
      <3> QED  BY <2>1, <3>2, <3>3 DEF IInv, NoMissedChange
    <2>3. CASE ~Readable
      <3>1. Goto("watcher", AfterPass) /\ UNCHANGED snap
        BY <1>4, <2>3 DEF WatcherReads
      <3>2. TypeOK' /\ Lifecycle'
        BY <1>1, <2>1, <3>1, WatcherMoves
           DEF TypeOK, others, senderVars, memory, AfterPass
      <3> QED  BY <2>1, <2>3, <3>2 DEF IInv, NoMissedChange, Readable
    <2> QED  BY <2>2, <2>3
  <1>5. CASE Merge
    <2>1. pc["watcher"] = "merge" /\ Goto("watcher", "publish") /\ Watching
          /\ UNCHANGED <<file, events, snap, others, byName, localServices, heardFrom>>
      BY <1>5 DEF Merge, Watching
    <2>2. byOrigin' \in [Site -> SUBSET Addr]
      BY <1>1, <1>5, AbsorbType DEF Merge, TypeOK
    <2>3. TypeOK' /\ Lifecycle' /\ pc'["watcher"] = "publish"
      BY <1>1, <2>1, <2>2, WatcherMoves DEF TypeOK, others, senderVars
    <2> QED  BY <1>1, <2>1, <2>3 DEF IInv, NoMissedChange, Readable
  <1>6. CASE Publish
    <2>1. pc["watcher"] = "publish" /\ Goto("watcher", AfterPass) /\ Watching
          /\ UNCHANGED <<file, events, snap, others, byOrigin, heardFrom>>
          /\ byName' = snap["watcher"] /\ localServices' = Own(snap["watcher"])
      BY <1>6 DEF Publish, Watching
    <2>2. snap["watcher"] \in Services /\ Own(snap["watcher"]) \in Announcement
      BY <1>1, OwnType DEF TypeOK
    <2>3. TypeOK' /\ Lifecycle' /\ pc'["watcher"] \in {"arm", "idle"}
      BY <1>1, <2>1, <2>2, WatcherMoves DEF TypeOK, others, senderVars, AfterPass
    <2>4. NoMissedChange'
      BY <1>1, <2>1, <2>3 DEF NoMissedChange, Readable, Own, IsLocal, Present
    <2> QED  BY <2>3, <2>4 DEF IInv
  <1>7. CASE Arm
    <2>1. pc["watcher"] = "arm" /\ Goto("watcher", "idle") /\ Watching /\ armed' = TRUE
          /\ UNCHANGED <<file, events, snap, request, senderVars, faults,
                         byName, localServices, byOrigin>>
      BY <1>7 DEF Arm, Watching
    <2>2. heardFrom' \in [Site -> Age]
      BY <1>1, <1>7 DEF Arm, TypeOK, Age
    <2>3. TypeOK' /\ Lifecycle' /\ pc'["watcher"] = "idle"
      BY <1>1, <2>1, <2>2, WatcherMoves DEF TypeOK, senderVars
    <2> QED
      BY <1>1, <2>1, <2>3 DEF IInv, NoMissedChange, Readable, Own, IsLocal, Present
  <1> QED  BY <1>2, <1>3, <1>4, <1>5, <1>6, <1>7 DEF WatcherStep

LEMMA LifecycleKeeps ==
    ASSUME IInv, Start \/ Connect \/ Crash \/ \E c \in Cli : Kill(c)
    PROVE  IInv'
  <1>1. TypeOK /\ Lifecycle /\ NoMissedChange
    BY DEF IInv
  <1>2. CASE Start
    <2>1. /\ pc["watcher"] = "off" /\ pc["sync"] = "off" /\ pc["sender"] = "off" /\ events = 0
          /\ UNCHANGED <<file, events, snap, others, memory>>
      BY <1>1, <1>2 DEF Start, Up, Lifecycle
    <2>2. /\ pc' \in [Actor -> Label] /\ pc'["sync"] = "dial" /\ pc'["watcher"] = "add"
          /\ pc'["sender"] = "off" /\ \A c \in Cli : pc'[c] = pc[c]
      BY <1>1, <1>2, <2>1, ActorFacts DEF Start, TypeOK, Label
    <2>3. TypeOK'
      BY <1>1, <2>1, <2>2 DEF TypeOK, others, senderVars, memory
    <2>4. Lifecycle' /\ NoMissedChange'
      BY <2>1, <2>2 DEF Lifecycle, NoMissedChange, Watching
    <2> QED  BY <2>3, <2>4 DEF IInv
  <1>3. CASE Connect
    <2>1. /\ pc["sync"] = "dial" /\ pc["sender"] = "off" /\ pc["watcher"] # "off"
          /\ UNCHANGED <<file, events, snap, others, memory>>
      BY <1>1, <1>3 DEF Connect, Lifecycle
    <2>2. /\ pc' \in [Actor -> Label] /\ pc'["sync"] = "idle" /\ pc'["sender"] = "idle"
          /\ pc'["watcher"] = pc["watcher"] /\ \A c \in Cli : pc'[c] = pc[c]
      BY <1>1, <1>3, ActorFacts DEF Connect, TypeOK, Label
    <2>3. TypeOK'
      BY <1>1, <2>1, <2>2 DEF TypeOK, others, senderVars, memory
    <2>4. Lifecycle'
      BY <1>1, <2>1, <2>2 DEF Lifecycle, Watching
    <2>5. NoMissedChange'
      BY <2>1, <2>2, QuietStep DEF others, memory
    <2> QED  BY <2>3, <2>4, <2>5 DEF IInv
  <1>4. CASE Crash
    <2>1. /\ pc' \in [Actor -> Label] /\ pc'["sync"] = "off" /\ pc'["watcher"] = "off"
          /\ pc'["sender"] = "off" /\ \A c \in Cli : pc'[c] = pc[c]
      BY <1>1, <1>4, ActorFacts DEF Crash, TypeOK, Label, Controller
    <2>2. /\ events' = 0 /\ UNCHANGED file /\ faults' = faults + 1
          /\ faults' \in 0..MaxFaults /\ faults' # 0
      BY <1>1, <1>4, FaultsAssumption DEF Crash, TypeOK
    <2>3. /\ NoServices \in Services /\ NoServices \in Announcement
          /\ NoRequest \in [peer : Site, changed : Announcement, deleted : SUBSET Addr]
      BY SelfAssumption DEF NoServices, Services, Announcement, NoRequest
    <2>4. snap' \in [Actor -> Services] /\ heardFrom' \in [Site -> Age]
          /\ byOrigin' \in [Site -> SUBSET Addr] /\ byName' \in Services
          /\ localServices' \in Announcement /\ armed' \in BOOLEAN
          /\ toAge' = {} /\ aged' = {} /\ doomed' = {} /\ request' = NoRequest
      BY <1>1, <1>4, <2>3 DEF Crash, TypeOK, Age
    <2>5. TypeOK'
      BY <1>1, <2>1, <2>2, <2>3, <2>4, EventsAssumption DEF TypeOK
    <2>6. Lifecycle' /\ NoMissedChange'
      BY <2>1, <2>2 DEF Lifecycle, NoMissedChange, Watching
    <2> QED  BY <2>5, <2>6 DEF IInv
  <1>5. ASSUME NEW c \in Cli, Kill(c)
        PROVE  IInv'
    <2>1. /\ pc' \in [Actor -> Label] /\ pc'["sync"] = pc["sync"]
          /\ pc'["watcher"] = pc["watcher"] /\ pc'["sender"] = pc["sender"]
          /\ snap' \in [Actor -> Services] /\ snap'["watcher"] = snap["watcher"]
          /\ \A d \in Cli : pc'[d] \in {"idle", "inspected", "truncate", "write"}
      BY <1>1, <1>5, ActorFacts, NothingTypes DEF Kill, Forget, Goto, TypeOK, Label
    <2>2. /\ UNCHANGED <<file, events, request, senderVars, armed, memory>>
          /\ faults' = faults + 1 /\ faults' \in 0..MaxFaults /\ faults' # 0
      BY <1>1, <1>5, FaultsAssumption DEF Kill, TypeOK
    <2>3. TypeOK'
      BY <1>1, <2>1, <2>2 DEF TypeOK, senderVars, memory
    <2>4. Lifecycle'
      BY <1>1, <2>1, <2>2 DEF Lifecycle, Watching
    <2>5. NoMissedChange'
      BY <1>1, <2>1, <2>2
         DEF NoMissedChange, Watching, Readable, memory, Own, IsLocal, Present
    <2> QED  BY <2>3, <2>4, <2>5 DEF IInv
  <1> QED  BY <1>2, <1>3, <1>4, <1>5

\* The invariant is inductive.
LEMMA InvariantStep == IInv /\ [Next]_vars => IInv'
  <1> SUFFICES ASSUME IInv, [Next]_vars PROVE IInv'
    OBVIOUS
  <1>1. CASE Start \/ Connect \/ Crash \/ \E c \in Cli : Kill(c)
    BY <1>1, LifecycleKeeps
  <1>2. CASE SyncReturns \/ SyncStep
    BY <1>2, SyncKeeps
  <1>3. CASE SenderStep \/ AgeTick
    BY <1>3, SenderKeeps
  <1>4. CASE WatcherStep
    BY <1>4, WatcherKeeps
  <1>5. ASSUME NEW p \in Site, NEW upd \in Announcement, ReceiveUpdate(p, upd)
        PROVE  IInv'
    BY <1>5, ReceiveKeeps
  <1>6. ASSUME NEW p \in Site, GoStale(p)
        PROVE  IInv'
    <2>1. TypeOK'
      BY <1>6 DEF GoStale, IInv, TypeOK, Age, others, senderVars
    <2>2. Lifecycle'
      BY <1>6 DEF GoStale, IInv, Lifecycle, Watching, others
    <2>3. NoMissedChange'
      BY <1>6
         DEF GoStale, IInv, NoMissedChange, Watching, Readable, Own, IsLocal, Present
    <2> QED  BY <2>1, <2>2, <2>3 DEF IInv
  <1>7. ASSUME NEW c \in Cli, Command(c)
        PROVE  IInv'
    BY <1>7, CommandKeeps
  <1>8. ASSUME NEW w \in Writer, WriteStep(w) \/ WriteFails(w)
        PROVE  IInv'
    BY <1>8, TruncateKeeps, WriteKeeps DEF WriteStep
  <1>9. CASE UNCHANGED vars
    BY <1>9 DEF vars, IInv, TypeOK, Lifecycle, NoMissedChange, Watching,
                Readable, Own, IsLocal, Present
  <1> QED
    BY <1>1, <1>2, <1>3, <1>4, <1>5, <1>6, <1>7, <1>8, <1>9 DEF Next

LEMMA Invariant == Spec => []IInv
  BY InitInvariant, InvariantStep, PTL DEF Spec

-----------------------------------------------------------------------------
\* In every reachable state the variables have their types and every actor is at a
\* label of its own.
THEOREM TypeCorrect == Spec => []TypeOK
  BY Invariant, PTL DEF IInv

\* However truncations, writes, reads and notifications interleave, the watcher of
\* the definitions file ends up with what the file holds, or still has a
\* notification to handle.
THEOREM NoChangeIsMissed == Spec => []NoMissedChange
  BY Invariant, PTL DEF IInv

\* Whoever runs, and whatever fails: a file that cannot be read, and that no writer has
\* begun to replace, is left as it is.
THEOREM UnreadableIsLeft == Spec => UnreadableStays
  <1>1. ASSUME IInv, [Next]_vars, Wedged
        PROVE  UNCHANGED file /\ Wedged'
    <2>1. /\ \A w \in Writer : pc[w] \notin {"truncate", "write"} /\ w \in Actor /\ w # "watcher"
          /\ ~Readable /\ pc \in [Actor -> Label]
      BY <1>1, ActorFacts DEF Wedged, IInv, TypeOK
    <2>2. ASSUME UNCHANGED file,
                 \A w \in Writer : pc'[w] \in {"truncate", "write"} => pc'[w] = pc[w]
          PROVE  UNCHANGED file /\ Wedged'
      BY <2>1, <2>2 DEF Wedged, Readable
    <2>3. ASSUME NEW v \in Actor, NEW label, Goto(v, label), label \notin {"truncate", "write"},
                 UNCHANGED file
          PROVE  UNCHANGED file /\ Wedged'
      BY <2>1, <2>2, <2>3 DEF Goto
    <2>4. CASE Start \/ Connect \/ Crash \/ UNCHANGED vars
      BY <2>1, <2>2, <2>4 DEF Start, Connect, Crash, vars
    <2>5. CASE SyncReturns \/ SyncStep
      BY <2>1, <2>3, <2>5, ActorFacts
         DEF SyncReturns, SyncStep, SyncReads, SyncReadFails, SyncPrunes, ReadAndEdit
    <2>6. CASE SenderReads \/ SenderReadFails \/ Reap \/ AgeTick
      BY <2>1, <2>3, <2>6, ActorFacts
         DEF SenderReads, SenderReadFails, Reap, AgeTick, ReadAndEdit
    <2>7. CASE WatcherStep
      <3>1. UNCHANGED file /\ \E label : Goto("watcher", label)
        BY <2>7
           DEF WatcherStep, AddWatch, TakeEvent, WatcherReads, Merge, Publish, Arm
      <3> QED  BY <2>1, <2>2, <3>1 DEF Goto
    <2>8. ASSUME NEW p \in Site, AgeNext(p)
          PROVE  UNCHANGED file /\ Wedged'
      BY <2>2, <2>3, <2>8, ActorFacts DEF AgeNext
    <2>9. ASSUME NEW p \in Site, NEW upd \in Announcement, ReceiveUpdate(p, upd)
          PROVE  UNCHANGED file /\ Wedged'
      BY <2>2, <2>3, <2>9, ActorFacts DEF ReceiveUpdate
    <2>10. ASSUME NEW p \in Site, GoStale(p)
           PROVE  UNCHANGED file /\ Wedged'
      BY <2>2, <2>10 DEF GoStale
    <2>11. ASSUME NEW c \in Cli, Command(c) \/ Kill(c)
           PROVE  UNCHANGED file /\ Wedged'
      BY <2>1, <2>3, <2>11, ActorFacts
         DEF Command, Kill, CreateService, InspectService, BindService, BindFails,
             UnbindService, RemoveService, ReadAndEdit
    <2>12. ASSUME NEW w \in Writer, WriteStep(w) \/ WriteFails(w)
           PROVE  FALSE
      BY <2>1, <2>12 DEF WriteStep, Truncate, Write, WriteFails
    <2> QED
      BY <1>1, <2>4, <2>5, <2>6, <2>7, <2>8, <2>9, <2>10, <2>11, <2>12 DEF Next, SenderStep
  <1> QED  BY <1>1, Invariant, PTL DEF Spec, UnreadableStays

-----------------------------------------------------------------------------
(* The refinement of WatchedCache.                                         *)

Pending == Watching /\ \/ events > 0
                       \/ pc["watcher"] \in {"read", "merge", "publish"}
                       \/ ~Readable

\* What the abstract specification does not see.
Unseen == UNCHANGED <<file, events, byName>> /\ pc'["watcher"] = pc["watcher"]

LEMMA UnseenIsStutter == ASSUME Unseen PROVE UNCHANGED Watched!vars
  BY DEF Unseen, Watched!vars, Watching, Readable

LEMMA WriteIsChange ==
    ASSUME IInv, IInv', NEW w \in Writer,
           Truncate(w) \/ ((Write(w) \/ WriteFails(w)) /\ Notify)
    PROVE  Watched!Change
  <1>1. /\ TypeOK /\ file' \in Services \cup {Truncated, Corrupt} /\ events' \in 0..MaxEvents
        /\ w # "watcher" /\ w \in Actor /\ "watcher" \in Actor
    BY ActorFacts DEF IInv, TypeOK
  <1>2. /\ Notify /\ UNCHANGED byName /\ \E label : Goto(w, label)
    BY WriteEnds DEF Truncate, memory
  <1>3. pc'["watcher"] = pc["watcher"]
    BY <1>1, <1>2 DEF Goto, TypeOK
  <1>4. Watching' = Watching
    BY <1>3 DEF Watching
  <1>5. Watching => events' > 0
    BY <1>1, <1>2, NotifyType DEF TypeOK
  <1>6. Pending' <=> Watching
    BY <1>4, <1>5 DEF Pending
  <1>7. Pending' \in BOOLEAN /\ Watching \in BOOLEAN
    BY DEF Pending, Watching
  <1>8. Pending' = Watching
    BY <1>6, <1>7, Zenon
  <1> QED
    BY <1>1, <1>2, <1>4, <1>8 DEF Watched!Change, Pending

LEMMA WatcherIsFollow ==
    ASSUME IInv, IInv', WatcherStep
    PROVE  [Watched!Next]_Watched!vars
  <1>1. /\ TypeOK /\ NoMissedChange /\ Lifecycle /\ "watcher" \in Actor
        /\ byName' \in Services /\ pc \in [Actor -> Label]
    BY ActorFacts DEF IInv, TypeOK
  <1>2. CASE AddWatch
    <2>1. PICK label \in {"read", "dead"} : Goto("watcher", label)
      BY <1>2 DEF AddWatch
    <2>2. pc["watcher"] = "add" /\ pc'["watcher"] = label /\ UNCHANGED <<file, events, byName>>
      BY <1>1, <1>2, <2>1 DEF AddWatch, Goto, memory
    <2>3. CASE label = "read"
      <3>1. Watched!Open
        BY <1>1, <2>2, <2>3 DEF Watched!Open, Watched!Follow, Watching
      <3> QED  BY <3>1 DEF Watched!Next
    <2>4. CASE label = "dead"
      BY <2>2, <2>4 DEF Watched!vars, Watching
    <2> QED  BY <2>3, <2>4
  <1>3. CASE TakeEvent \/ WatcherReads \/ Merge \/ Arm
    <2>1. UNCHANGED <<file, byName>>
      BY <1>3 DEF TakeEvent, WatcherReads, Merge, Arm, memory
    <2>2. Watching /\ Watching'
      BY <1>1, <1>3
         DEF TakeEvent, WatcherReads, Merge, Arm, Watching, Goto, AfterPass
    <2>3. Pending' = Pending
      BY <1>1, <1>3, <2>1, <2>2
         DEF TakeEvent, WatcherReads, Merge, Arm, Pending, Readable, Goto, AfterPass, TypeOK
    <2> QED  BY <2>1, <2>2, <2>3 DEF Watched!vars, Pending
  <1>4. CASE Publish
    <2>1. /\ pc["watcher"] = "publish" /\ pc'["watcher"] \in {"arm", "idle"}
          /\ UNCHANGED <<file, events>> /\ byName' = snap["watcher"]
      BY <1>1, <1>4 DEF Publish, Goto, AfterPass
    <2>2. Watching /\ Watching' /\ Pending
      BY <2>1 DEF Watching, Pending
    <2>3. ~Pending' => byName' = file
      BY <1>1, <2>1, <2>2 DEF Pending, NoMissedChange, Readable, TypeOK
    <2>4. Watched!Refresh
      BY <1>1, <2>1, <2>2, <2>3 DEF Watched!Refresh, Watched!Follow, Pending
    <2> QED  BY <2>4 DEF Watched!Next
  <1> QED  BY <1>2, <1>3, <1>4 DEF WatcherStep

LEMMA WatchedStep ==
    ASSUME IInv, IInv', [Next]_vars
    PROVE  [Watched!Next]_Watched!vars
  <1>1. /\ TypeOK /\ Lifecycle /\ byName' \in Services
        /\ "watcher" \in Actor /\ "sync" \in Actor /\ "sender" \in Actor
        /\ \A c \in Cli : c # "watcher" /\ c \in Actor
    BY ActorFacts DEF IInv, TypeOK
  <1>2. CASE Start
    <2>1. pc["watcher"] = "off" /\ pc'["watcher"] = "add" /\ UNCHANGED <<file, byName>>
      BY <1>1, <1>2 DEF Start, Up, memory, TypeOK
    <2> QED  BY <2>1 DEF Watched!vars, Watching
  <1>3. CASE Crash
    <2>1. pc'["watcher"] = "off" /\ UNCHANGED file
      BY <1>1, <1>3 DEF Crash, Controller
    <2>2. Watched!Close
      BY <1>1, <2>1 DEF Watched!Close, Watching
    <2> QED  BY <2>2 DEF Watched!Next
  <1>4. CASE WatcherStep
    BY <1>4, WatcherIsFollow
  <1>6. ASSUME NEW w \in Actor, w # "watcher", NEW label, Goto(w, label),
               UNCHANGED <<file, events, byName>>
        PROVE  Unseen
    BY <1>1, <1>6 DEF Unseen, Goto, TypeOK
  <1>5. ASSUME NEW w \in Writer, WriteStep(w) \/ WriteFails(w)
        PROVE  Unseen \/ Watched!Next
    <2>1. CASE Truncate(w) \/ ((Write(w) \/ WriteFails(w)) /\ Notify)
      BY <2>1, WriteIsChange DEF Watched!Next
    <2>2. CASE (Write(w) \/ WriteFails(w)) /\ UNCHANGED <<file, events>>
      <3>1. w \in Actor /\ w # "watcher"
        BY ActorFacts
      <3> QED  BY <1>6, <2>2, <3>1, WriteEnds DEF memory
    <2> QED  BY <1>5, <2>1, <2>2, WriteEnds DEF WriteStep
  <1>7. ASSUME Connect
        PROVE  Unseen
    BY <1>1, <1>7 DEF Unseen, Connect, memory, TypeOK
  <1>8. ASSUME SyncReturns \/ SyncStep
        PROVE  Unseen
    BY <1>1, <1>6, <1>8
       DEF SyncReturns, SyncStep, SyncReads, SyncReadFails, SyncPrunes, ReadAndEdit, memory
  <1>9. ASSUME SenderReads \/ SenderReadFails \/ Reap \/ AgeTick
        PROVE  Unseen
    BY <1>1, <1>6, <1>9
       DEF SenderReads, SenderReadFails, Reap, AgeTick, ReadAndEdit, memory
  <1>10. ASSUME NEW p \in Site, AgeNext(p)
         PROVE  Unseen
    <2>1. UNCHANGED pc \/ Goto("sender", "erase")
      BY <1>10 DEF AgeNext
    <2>2. UNCHANGED <<file, events, byName>>
      BY <1>10 DEF AgeNext, memory
    <2> QED  BY <1>1, <1>6, <2>1, <2>2 DEF Unseen
  <1>11. ASSUME NEW p \in Site, NEW upd \in Announcement, ReceiveUpdate(p, upd)
         PROVE  Unseen
    <2>1. UNCHANGED pc \/ Goto("sync", "read")
      BY <1>11 DEF ReceiveUpdate
    <2>2. UNCHANGED <<file, events, byName>>
      BY <1>11 DEF ReceiveUpdate
    <2> QED  BY <1>1, <1>6, <2>1, <2>2 DEF Unseen
  <1>12. ASSUME NEW p \in Site, GoStale(p)
         PROVE  Unseen
    BY <1>12 DEF GoStale, Unseen
  <1>13. ASSUME NEW c \in Cli, Command(c) \/ Kill(c)
         PROVE  Unseen
    BY <1>1, <1>6, <1>13
       DEF Command, Kill, CreateService, InspectService, BindService, BindFails,
           UnbindService, RemoveService, ReadAndEdit, memory
  <1>14. ASSUME UNCHANGED vars
         PROVE  Unseen
    BY <1>14 DEF vars, Unseen
  <1> QED
    BY <1>2, <1>3, <1>4, <1>5, <1>7, <1>8, <1>9, <1>10, <1>11, <1>12, <1>13, <1>14,
       UnseenIsStutter DEF Next, SenderStep

\* The goroutines around the file, through torn writes and failed reads, implement the
\* abstract watched value that SiteSync implements with single steps.
THEOREM ImplementsWatchedCache == Spec => WatchedSpec
  <1>1. Init => Watched!Init
    <2> SUFFICES ASSUME Init PROVE Watched!Init
      OBVIOUS
    <2>1. IInv
      BY InitInvariant
    <2>2. ~Watching
      BY ActorFacts, CliAssumption DEF Init, Watching
    <2> QED  BY <2>1, <2>2 DEF IInv, TypeOK, Watched!Init
  <1>2. IInv /\ IInv' /\ [Next]_vars => [Watched!Next]_Watched!vars
    BY WatchedStep
  <1> QED
    BY <1>1, <1>2, Invariant, PTL DEF Spec, WatchedSpec, Watched!Spec
=============================================================================
