------------------------------ MODULE ServiceFile ------------------------------
(***************************************************************************)
(* The goroutines of the service controller and the commands of            *)
(* skupper-docker around the service definitions file, at the grain of     *)
(* their reads and writes.  Nothing locks the file, and nothing locks the  *)
(* controller's maps: each of them reads the file, edits what it has read, *)
(* truncates the file and writes it (ioutil.WriteFile), and any of the     *)
(* others may run between two of these.                                    *)
(*                                                                         *)
(*   sync     runServiceSync: receives the peers' announcements            *)
(*   sender   syncSender: ages the peers that fell silent                  *)
(*   watcher  runServiceDefsWatcher: follows the file                      *)
(*   commands of the user, as processes of their own                       *)
(*                                                                         *)
(* SiteSync has the same handlers as single steps.                         *)
(***************************************************************************)
EXTENDS SyncRules, Naturals

CONSTANTS
    Self,        \* this site's own origin
    MaxEvents,   \* bound on the pending notifications of the file watcher
    Cli,         \* the commands that may run at the same time
    Truncated,   \* the file has been truncated and not been written yet
    Corrupt,     \* the file does not parse: part of a content, or what is left of
                 \* a longer one after a shorter one was written over it
    MaxFaults    \* bound on processes that are killed and on writes that fail

ASSUME SelfAssumption == Self \in Site
ASSUME EventsAssumption == MaxEvents \in Nat \ {0}
ASSUME UnreadableAssumption ==
    Truncated \notin Services /\ Corrupt \notin Services /\ Truncated # Corrupt
ASSUME FaultsAssumption == MaxFaults \in Nat
ASSUME CliAssumption == Cli \cap {"sync", "sender", "watcher"} = {}

VARIABLES
    file,           \* /etc/messaging/services/skupper-services
    events,         \* write notifications the watcher has not received yet
    pc,             \* where each goroutine and each command is
    snap,           \* what each of them last read from the file, edited
    request,        \* what sync is applying: the peer, the definitions to write
                    \* and those to delete
    toAge,          \* origins the ageing tick of sender has still to look at
    aged,           \* origins it found silent
    doomed,         \* definitions of the last of them, to be erased
    armed,          \* the watcher has finished its first pass
    faults,         \* processes killed and writes failed so far
    byName, localServices, byOrigin, heardFrom   \* as in SiteSync

memory == <<byName, localServices, byOrigin, heardFrom>>
senderVars == <<toAge, aged, doomed>>
others == <<request, senderVars, armed, faults>>
vars == <<file, events, pc, snap, request, toAge, aged, doomed, armed, faults,
          byName, localServices, byOrigin, heardFrom>>

Controller == {"sync", "sender", "watcher"}
Actor == Controller \cup Cli
Writer == Actor \ {"watcher"}
Age == {"none", "fresh", "stale"}
Readable == file \in Services
NoRequest == [peer |-> Self, changed |-> NoServices, deleted |-> {}]

\* The controller process runs.
Up == pc["watcher"] # "off"

Label == {"off", "add", "dial", "idle", "inspected", "read", "ageing", "erase",
          "truncate", "write", "prune", "merge", "publish", "arm", "dead"}

Goto(w, label) == pc' = [pc EXCEPT ![w] = label]

\* What an actor has read is of no more use to it.
Forget(w) == snap' = [snap EXCEPT ![w] = NoServices]

Init ==
    /\ file = NoServices
    /\ events = 0
    /\ pc = [w \in Actor |-> IF w \in Cli THEN "idle" ELSE "off"]
    /\ snap = [w \in Actor |-> NoServices]
    /\ request = NoRequest
    /\ toAge = {}
    /\ aged = {}
    /\ doomed = {}
    /\ armed = FALSE
    /\ faults = 0
    /\ byName = NoServices
    /\ localServices = NoServices
    /\ byOrigin = [p \in Site |-> {}]
    /\ heardFrom = [p \in Site |-> "none"]

-----------------------------------------------------------------------------
(* ioutil.WriteFile, by any of the writers.                                *)

\* A variant with a mistake: the watch is added after the first pass.
WatchingAfterFirstPass == armed /\ pc["watcher"] \notin {"off", "add", "dead"}

\* The watch exists from the moment the watcher has added it until the process
\* ends.
Watching == pc["watcher"] \notin {"off", "add", "dead"}

\* One more notification, or none if it equals the last undelivered one.
Notify ==
    events' \in IF Watching THEN {n \in 1..MaxEvents : n \in {events, events + 1}}
                            ELSE {events}

\* Opening the file truncates it, and what another writer has under way.
Truncate(w) ==
    /\ pc[w] = "truncate"
    /\ file' = Truncated
    /\ Notify
    /\ Goto(w, "write")
    /\ UNCHANGED <<snap, others, memory>>

\* The content is written from the start of the file.  Where another writer has
\* written since the file was truncated, the longer of the two shows.
Written(w) ==
    IF file \in {Truncated, snap[w]} THEN {snap[w]} ELSE {snap[w], Corrupt}

\* Where a writer goes after its write.
AfterWrite(w) ==
    CASE w = "sync" -> "prune"
      [] w = "sender" -> "ageing"
      [] OTHER -> "idle"

Write(w) ==
    /\ pc[w] = "write"
    /\ file' \in Written(w)
    /\ Notify
    /\ Forget(w)
    /\ Goto(w, AfterWrite(w))
    /\ UNCHANGED <<others, memory>>

\* ... and after an error: sync logs it and goes on, sender returns, and a command
\* reports it.
AfterFailure(w) ==
    CASE w = "sync" -> "prune"
      [] w = "sender" -> "dead"
      [] OTHER -> "idle"

\* ioutil.WriteFile returns an error.  If it comes from the open the file is as it
\* was; if it comes later the file has been truncated, and nothing, a part or all
\* of the content has been written to it.
WriteFails(w) ==
    /\ pc[w] \in {"truncate", "write"}
    /\ faults < MaxFaults
    /\ faults' = faults + 1
    /\ \/ UNCHANGED <<file, events>>
       \/ /\ pc[w] = "write"
          /\ file' \in Written(w) \cup {Corrupt}
          /\ Notify
    /\ Forget(w)
    /\ Goto(w, AfterFailure(w))
    /\ UNCHANGED <<request, senderVars, armed, memory>>

\* ioutil.ReadFile and json.Unmarshal, then the edit of what was read.
ReadAndEdit(w, defs) ==
    /\ Readable
    /\ snap' = [snap EXCEPT ![w] = defs]
    /\ Goto(w, "truncate")
    /\ UNCHANGED <<file, events, others, memory>>

-----------------------------------------------------------------------------
(* The commands.  One that cannot parse the file reports it and is done.   *)

CreateService(c, a, sh) == pc[c] = "idle" /\ ReadAndEdit(c, Created(file, a, sh))

\* expose and bind look the definition up before ServiceInterfaceBind reads the
\* file again: the shape they write is the one they saw first.
InspectService(c, a, sh) ==
    /\ pc[c] = "idle"
    /\ Readable
    /\ snap' = [snap EXCEPT ![c] = Updated(NoServices, a, ShapeToBind(file, a, sh))]
    /\ Goto(c, "inspected")
    /\ UNCHANGED <<file, events, others, memory>>

BindService(c, a) ==
    /\ pc[c] = "inspected"
    /\ Present(snap[c], a)
    /\ ReadAndEdit(c, Updated(file, a, snap[c][a].shape))

BindFails(c) ==
    /\ pc[c] = "inspected"
    /\ ~Readable
    /\ Forget(c)
    /\ Goto(c, "idle")
    /\ UNCHANGED <<file, events, others, memory>>

UnbindService(c, a, deleteIfNoTargets) ==
    /\ pc[c] = "idle"
    /\ Readable
    /\ IsLocal(file, a)
    /\ ReadAndEdit(c, Unbound(file, a, deleteIfNoTargets))

RemoveService(c, a) ==
    /\ pc[c] = "idle"
    /\ Readable
    /\ Present(file, a)
    /\ ReadAndEdit(c, Removed(file, a))

Command(c) ==
    \/ \E a \in Addr, sh \in Shape : CreateService(c, a, sh) \/ InspectService(c, a, sh)
    \/ \E a \in Addr : BindService(c, a) \/ RemoveService(c, a)
    \/ \E a \in Addr, deleteIfNoTargets \in BOOLEAN : UnbindService(c, a, deleteIfNoTargets)
    \/ BindFails(c)

-----------------------------------------------------------------------------
(* sync: runServiceSync and ensureServiceInterfaceDefinitions.             *)

\* Run starts both goroutines; sender is started once sync has connected.
Start ==
    /\ ~Up
    /\ pc' = [pc EXCEPT !["sync"] = "dial", !["watcher"] = "add"]
    /\ UNCHANGED <<file, events, snap, others, memory>>

Connect ==
    /\ pc["sync"] = "dial"
    /\ pc' = [pc EXCEPT !["sync"] = "idle", !["sender"] = "idle"]
    /\ UNCHANGED <<file, events, snap, others, memory>>

\* Dialling and receiving fail for good: runServiceSync returns, and nothing
\* calls it again.  sender, once started, goes on.
SyncReturns ==
    /\ pc["sync"] \in {"dial", "idle"}
    /\ Goto("sync", "dead")
    /\ UNCHANGED <<file, events, snap, others, memory>>

\* An announcement is compared with the maps as they are now.
ReceiveUpdate(p, upd) ==
    LET changed == Changed(byName, p, upd)
        deleted == Withdrawn(byOrigin, p, upd)
    IN  /\ pc["sync"] = "idle"
        /\ p # Self
        /\ heardFrom' = [heardFrom EXCEPT ![p] = "fresh"]
        /\ IF changed = {} /\ deleted = {}
             THEN UNCHANGED <<request, pc>>
             ELSE /\ request' = [peer |-> p, deleted |-> deleted,
                         changed |-> [a \in Addr |-> IF a \in changed THEN upd[a] ELSE NoDef]]
                  /\ Goto("sync", "read")
        /\ UNCHANGED <<file, events, snap, senderVars, armed, faults,
                        byName, localServices, byOrigin>>

SyncReads ==
    /\ pc["sync"] = "read"
    /\ ReadAndEdit("sync",
           Edit(file, request.peer, request.changed,
                {a \in Addr : request.changed[a] # NoDef}, request.deleted))

\* A variant with a mistake: a file that cannot be read is taken for an empty one.
SyncStartsAfresh ==
    /\ pc["sync"] = "read"
    /\ ~Readable
    /\ snap' = [snap EXCEPT !["sync"] =
            Edit(NoServices, request.peer, request.changed,
                 {a \in Addr : request.changed[a] # NoDef}, request.deleted)]
    /\ Goto("sync", "truncate")
    /\ UNCHANGED <<file, events, others, memory>>

\* The failure is logged, and the bookkeeping goes on as if it had not been one.
SyncReadFails ==
    /\ pc["sync"] = "read"
    /\ ~Readable
    /\ Goto("sync", "prune")
    /\ UNCHANGED <<file, events, snap, others, memory>>

SyncPrunes ==
    /\ pc["sync"] = "prune"
    /\ byOrigin' = [byOrigin EXCEPT ![request.peer] = @ \ request.deleted]
    /\ request' = NoRequest
    /\ Goto("sync", "idle")
    /\ UNCHANGED <<file, events, snap, senderVars, armed, faults,
                    byName, localServices, heardFrom>>

-----------------------------------------------------------------------------
(* sender: the ageing tick of syncSender.                                  *)

GoStale(p) ==
    /\ heardFrom[p] = "fresh"
    /\ heardFrom' = [heardFrom EXCEPT ![p] = "stale"]
    /\ UNCHANGED <<file, events, pc, snap, others, byName, localServices, byOrigin>>

\* A tick that finds no silent origin does nothing and is left out.
AgeTick ==
    /\ pc["sender"] = "idle"
    /\ toAge' = {p \in Site : heardFrom[p] = "stale"}
    /\ toAge' # {}
    /\ Goto("sender", "ageing")
    /\ UNCHANGED <<file, events, snap, request, aged, doomed, armed, faults, memory>>

\* The next origin of the range over byOrigin; it may have been heard since.
AgeNext(p) ==
    /\ pc["sender"] = "ageing"
    /\ p \in toAge
    /\ toAge' = toAge \ {p}
    /\ IF heardFrom[p] = "stale"
         THEN /\ aged' = aged \cup {p}
              /\ doomed' = byOrigin[p]
              /\ IF byOrigin[p] = {} THEN UNCHANGED pc ELSE Goto("sender", "erase")
         ELSE UNCHANGED <<aged, doomed, pc>>
    /\ UNCHANGED <<file, events, snap, request, armed, faults, memory>>

SenderReads ==
    /\ pc["sender"] = "erase"
    /\ ReadAndEdit("sender", Erase(file, doomed))

\* syncSender returns: no more ageing, and no more announcements either.
SenderReadFails ==
    /\ pc["sender"] = "erase"
    /\ ~Readable
    /\ Goto("sender", "dead")
    /\ UNCHANGED <<file, events, snap, others, memory>>

\* The aged origins are forgotten, whatever has been heard or filed meanwhile.
Reap ==
    /\ pc["sender"] = "ageing"
    /\ toAge = {}
    /\ heardFrom' = [p \in Site |-> IF p \in aged THEN "none" ELSE heardFrom[p]]
    /\ byOrigin' = [p \in Site |-> IF p \in aged THEN {} ELSE byOrigin[p]]
    /\ aged' = {}
    /\ doomed' = {}
    /\ Goto("sender", "idle")
    /\ UNCHANGED <<file, events, snap, request, toAge, armed, faults, byName, localServices>>

-----------------------------------------------------------------------------
(* watcher: runServiceDefsWatcher and processServiceDefs.                  *)

AddWatch ==
    /\ pc["watcher"] = "add"
    /\ \E next \in {"read", "dead"} : Goto("watcher", next)
    /\ UNCHANGED <<file, events, snap, others, memory>>

\* A variant with a mistake: the channel of notifications is read when it is empty.
TakeAnyEvent ==
    /\ pc["watcher"] = "idle"
    /\ events' = events - 1
    /\ Goto("watcher", "read")
    /\ UNCHANGED <<file, snap, others, memory>>

TakeEvent ==
    /\ pc["watcher"] = "idle"
    /\ events > 0
    /\ events' = events - 1
    /\ Goto("watcher", "read")
    /\ UNCHANGED <<file, snap, others, memory>>

\* Where the watcher goes when a pass is over.
AfterPass == IF armed THEN "idle" ELSE "arm"

\* A file that does not parse ends the pass.
WatcherReads ==
    /\ pc["watcher"] = "read"
    /\ IF Readable
         THEN snap' = [snap EXCEPT !["watcher"] = file] /\ Goto("watcher", "merge")
         ELSE UNCHANGED snap /\ Goto("watcher", AfterPass)
    /\ UNCHANGED <<file, events, others, memory>>

Merge ==
    /\ pc["watcher"] = "merge"
    /\ \E pick \in Parings(byOrigin, snap["watcher"]) :
            byOrigin' = Absorb(byOrigin, snap["watcher"], pick)
    /\ Goto("watcher", "publish")
    /\ UNCHANGED <<file, events, snap, others, byName, localServices, heardFrom>>

\* A variant with a mistake: a file without definitions leaves the copies as they are.
PublishUnlessEmpty ==
    /\ pc["watcher"] = "publish"
    /\ IF snap["watcher"] = NoServices
         THEN UNCHANGED <<localServices, byName>>
         ELSE localServices' = Own(snap["watcher"]) /\ byName' = snap["watcher"]
    /\ Goto("watcher", AfterPass)
    /\ UNCHANGED <<file, events, snap, others, byOrigin, heardFrom>>

Publish ==
    /\ pc["watcher"] = "publish"
    /\ localServices' = Own(snap["watcher"])
    /\ byName' = snap["watcher"]
    /\ Goto("watcher", AfterPass)
    /\ UNCHANGED <<file, events, snap, others, byOrigin, heardFrom>>

\* Every origin known after the first pass has 60 seconds to be heard from.
Arm ==
    /\ pc["watcher"] = "arm"
    /\ heardFrom' = [p \in Site |->
            IF p # Self /\ (byOrigin[p] # {} \/ heardFrom[p] # "none")
              THEN "fresh" ELSE heardFrom[p]]
    /\ armed' = TRUE
    /\ Goto("watcher", "idle")
    /\ UNCHANGED <<file, events, snap, request, senderVars, faults,
                    byName, localServices, byOrigin>>

-----------------------------------------------------------------------------
\* The controller's process ends, at any point: it is stopped, sender cannot
\* attach its link (log.Fatal), or the Go runtime finds two goroutines in one of
\* the maps, which nothing guards.
Crash ==
    /\ Up
    /\ faults < MaxFaults
    /\ faults' = faults + 1
    /\ pc' = [w \in Actor |-> IF w \in Controller THEN "off" ELSE pc[w]]
    /\ snap' = [w \in Actor |-> IF w \in Controller THEN NoServices ELSE snap[w]]
    /\ events' = 0
    /\ request' = NoRequest
    /\ toAge' = {} /\ aged' = {} /\ doomed' = {}
    /\ armed' = FALSE
    /\ byName' = NoServices
    /\ localServices' = NoServices
    /\ byOrigin' = [p \in Site |-> {}]
    /\ heardFrom' = [p \in Site |-> "none"]
    /\ UNCHANGED file

\* A command is interrupted.
Kill(c) ==
    /\ pc[c] # "idle"
    /\ faults < MaxFaults
    /\ faults' = faults + 1
    /\ Forget(c)
    /\ Goto(c, "idle")
    /\ UNCHANGED <<file, events, request, senderVars, armed, memory>>

WatcherStep == AddWatch \/ TakeEvent \/ WatcherReads \/ Merge \/ Publish \/ Arm
SyncStep == SyncReads \/ SyncReadFails \/ SyncPrunes
SenderStep == (\E p \in Site : AgeNext(p)) \/ SenderReads \/ SenderReadFails \/ Reap
WriteStep(w) == Truncate(w) \/ Write(w)

Next ==
    \/ Start \/ Connect \/ SyncReturns \/ Crash
    \/ WatcherStep \/ SyncStep \/ SenderStep \/ AgeTick
    \/ \E p \in Site, upd \in Announcement : ReceiveUpdate(p, upd)
    \/ \E p \in Site : GoStale(p)
    \/ \E c \in Cli : Command(c) \/ Kill(c)
    \/ \E w \in Writer : WriteStep(w) \/ WriteFails(w)

Spec == Init /\ [][Next]_vars

\* The goroutines run, and a write once begun ends, unless the process is killed.
Fairness ==
    /\ WF_vars(WatcherStep)
    /\ WF_vars(SyncStep)
    /\ WF_vars(SenderStep)
    /\ \A w \in Writer : WF_vars(WriteStep(w))

FairSpec == Spec /\ Fairness

-----------------------------------------------------------------------------
(* Properties.                                                             *)

\* Values of the right kind, and each actor is at one of its own labels.
TypeOK ==
    /\ file \in Services \cup {Truncated, Corrupt}
    /\ events \in 0..MaxEvents
    /\ pc \in [Actor -> Label]
    /\ pc["sync"] \in {"off", "dial", "idle", "read", "truncate", "write", "prune", "dead"}
    /\ pc["sender"] \in {"off", "idle", "ageing", "erase", "truncate", "write", "dead"}
    /\ pc["watcher"] \in {"off", "add", "read", "merge", "publish", "arm", "idle", "dead"}
    /\ \A c \in Cli : pc[c] \in {"idle", "inspected", "truncate", "write"}
    /\ snap \in [Actor -> Services]
    /\ request \in [peer : Site, changed : Announcement, deleted : SUBSET Addr]
    /\ toAge \subseteq Site /\ aged \subseteq Site /\ doomed \subseteq Addr
    /\ armed \in BOOLEAN
    /\ faults \in 0..MaxFaults
    /\ byName \in Services /\ localServices \in Announcement
    /\ byOrigin \in [Site -> SUBSET Addr]
    /\ heardFrom \in [Site -> Age]

\* With no notification pending and the file readable, the watcher is about to read
\* it, has just read what it holds, or keeps copies equal to it: whatever the order
\* of truncations, writes, reads and notifications, no write goes unnoticed.
NoMissedChange ==
    Watching /\ events = 0 /\ Readable =>
        \/ pc["watcher"] = "read"
        \/ pc["watcher"] \in {"merge", "publish"} /\ snap["watcher"] = file
        \/ /\ pc["watcher"] \in {"arm", "idle"}
           /\ byName = file
           /\ localServices = Own(file)

\* The file cannot be read and nobody is about to write it: a writer was killed or
\* has failed after its truncation, or two have written over one another.
Wedged == ~Readable /\ \A w \in Writer : pc[w] \notin {"truncate", "write"}

\* Nobody takes a file that cannot be read for one without definitions: neither the
\* peers' announcements, nor ageing, nor any command writes it anew, so that what is
\* left of it is not wiped, and that it stays unreadable until someone repairs it.
UnreadableStays == [][Wedged => UNCHANGED file /\ Wedged']_vars

\* The controller's copy of the file as a watched value.
Watched ==
    INSTANCE WatchedCache WITH
        Value <- Services \cup {Truncated, Corrupt},
        disk <- file,
        open <- Watching,
        copy <- byName,
        pending <- Watching /\ \/ events > 0
                               \/ pc["watcher"] \in {"read", "merge", "publish"}
                               \/ ~Readable

\* Step by step, and through torn writes and failed reads, the copy of the file
\* behaves as the abstract specification of a watched value says.
WatchedSpec == Watched!Spec

\* When the file is left alone, the controller's copy becomes equal to it and stays
\* so, unless the controller is down or the file cannot be read.
CopySettles ==
    <>[][UNCHANGED file /\ UNCHANGED faults]_vars
        => <>[](Watching /\ Readable => byName = file)

\* "receives peer updates" (controller.go): a controller that stays up is ready to
\* receive again and again.
KeepsReceiving == <>[](Up /\ pc["sync"] # "dial") => []<>(pc["sync"] = "idle")
=============================================================================
