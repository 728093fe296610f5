------------------------------ MODULE SyncNetwork ------------------------------
(***************************************************************************)
(* Several sites, each as in SiteSync, that announce their definitions to  *)
(* one another over the multicast address of the router network.           *)
(*                                                                         *)
(* An announcement carries all local definitions of its sender and is      *)
(* repeated every 5 seconds, so that between two sites only the latest one *)
(* under way matters: a newer one replaces it.  It is lost where the       *)
(* network does not connect the two sites when it is sent, or the other    *)
(* one does not receive, and may be delivered any time later.              *)
(*                                                                         *)
(* The goroutines that receive and send end for good at the first error:   *)
(* runServiceSync returns when it cannot dial or receive, and syncSender   *)
(* when it cannot erase what has aged.  Only a new controller begins anew. *)
(***************************************************************************)
EXTENDS SyncRules, Naturals

CONSTANTS
    MaxEvents,    \* as in SiteSync
    NoMail,       \* no announcement under way
    MaxCommands,  \* bound on the commands the users give
    MaxCuts,      \* bound on the connections that fail
    MaxCrashes,   \* bound on the controllers that stop
    MaxReturns    \* bound on the goroutines that end before their controller

ASSUME EventsAssumption == MaxEvents \in Nat \ {0}
ASSUME NoMailAssumption == NoMail \notin Announcement
ASSUME BoundsAssumption ==
    MaxCommands \in Nat /\ MaxCuts \in Nat /\ MaxCrashes \in Nat /\ MaxReturns \in Nat

VARIABLES
    file, events, phase, byName, localServices, byOrigin, heardFrom,
                 \* the variables of SiteSync, for every site
    sync,        \* what is left of each site's receiving and sending, see Sync
    mail,        \* mail[t][s], the announcement of s under way to t
    link,        \* pairs of sites the router network connects
    commands,    \* commands given
    cuts,        \* connections failed so far
    crashes,     \* controllers stopped so far
    returns,     \* goroutines ended so far
    offered      \* history: the definitions each site has had in its file as its own

siteVars == <<file, events, phase, byName, localServices, byOrigin, heardFrom>>
copies == <<byName, localServices, byOrigin>>
process == <<phase, sync>>
netVars == <<mail, link>>
budgets == <<commands, cuts, crashes, returns>>
vars == <<file, events, phase, byName, localServices, byOrigin, heardFrom, sync,
          mail, link, commands, cuts, crashes, returns, offered>>

\* One site's state, as SiteSync has it.
At(s) == INSTANCE SiteSync WITH
    Self <- s,
    file <- file[s],
    events <- events[s],
    phase <- phase[s],
    byName <- byName[s],
    localServices <- localServices[s],
    byOrigin <- byOrigin[s],
    heardFrom <- heardFrom[s]

Pairs == {pair \in Site \X Site : pair[1] # pair[2]}
Connected(s, t) == <<s, t>> \in link

\* dial: the connection to the router is not there yet.  on: announcements are received
\* and sent, and origins age.  ageing: runServiceSync has returned and closed the
\* connection, so that what syncSender sends is lost, but it still ages.  receiving:
\* syncSender has returned.  ended: neither is left.
Sync == {"dial", "on", "ageing", "receiving", "ended"}
Receives(s) == sync[s] \in {"on", "receiving"}
Sends(s) == sync[s] = "on"
Ages(s) == sync[s] \in {"on", "ageing"}

Init ==
    /\ file = [s \in Site |-> NoServices]
    /\ events = [s \in Site |-> 0]
    /\ phase = [s \in Site |-> "down"]
    /\ byName = [s \in Site |-> NoServices]
    /\ localServices = [s \in Site |-> NoServices]
    /\ byOrigin = [s \in Site |-> [p \in Site |-> {}]]
    /\ heardFrom = [s \in Site |-> [p \in Site |-> "none"]]
    /\ sync = [s \in Site |-> "dial"]
    /\ mail = [t \in Site |-> [s \in Site |-> NoMail]]
    /\ link = Pairs
    /\ commands = 0
    /\ cuts = 0
    /\ crashes = 0
    /\ returns = 0
    /\ offered = [s \in Site |-> {}]

OwnOf(defs) == {<<a, defs[a].shape>> : a \in {b \in Addr : IsLocal(defs, b)}}

\* A variant with a mistake: a write is notified to a controller that has no watch.
WriteFileNotifyingAlways(s, defs) ==
    /\ file' = [file EXCEPT ![s] = defs]
    /\ offered' = [offered EXCEPT ![s] = @ \cup OwnOf(defs)]
    /\ \E n \in At(s)!Notifications(events[s]) : events' = [events EXCEPT ![s] = n]

WriteFile(s, defs) ==
    /\ file' = [file EXCEPT ![s] = defs]
    /\ offered' = [offered EXCEPT ![s] = @ \cup OwnOf(defs)]
    /\ IF phase[s] = "running"
         THEN \E n \in At(s)!Notifications(events[s]) : events' = [events EXCEPT ![s] = n]
         ELSE UNCHANGED events

LeaveFile == UNCHANGED <<file, events, offered>>

-----------------------------------------------------------------------------
(* The steps of a site, as in SiteSync.                                    *)

\* One command of the user: create or update, bind, unbind or unexpose, delete.
Command(s) ==
    /\ commands < MaxCommands
    /\ commands' = commands + 1
    /\ \E a \in Addr, sh \in Shape :
        \/ WriteFile(s, Created(file[s], a, sh))
        \/ WriteFile(s, Updated(file[s], a, sh))
        \/ WriteFile(s, Updated(file[s], a, ShapeToBind(file[s], a, sh)))
        \/ /\ IsLocal(file[s], a)
           /\ \E last \in BOOLEAN : WriteFile(s, Unbound(file[s], a, last))
        \/ /\ Present(file[s], a)
           /\ WriteFile(s, Removed(file[s], a))
    /\ UNCHANGED <<process, copies, heardFrom, netVars, cuts, crashes, returns>>

Start(s) ==
    /\ phase[s] = "down"
    /\ phase' = [phase EXCEPT ![s] = "booting"]
    /\ UNCHANGED <<sync, copies, heardFrom, netVars, budgets>>
    /\ LeaveFile

DefinitionsUpdated(s, pick) ==
    /\ localServices' = [localServices EXCEPT ![s] = Own(file[s])]
    /\ byName' = [byName EXCEPT ![s] = file[s]]
    /\ byOrigin' = [byOrigin EXCEPT ![s] = Absorb(@, file[s], pick)]

\* A variant with a mistake: the origins found in the file get no timer.
BootWithoutTimers(s) ==
    /\ phase[s] = "booting"
    /\ phase' = [phase EXCEPT ![s] = "running"]
    /\ \E pick \in Parings(byOrigin[s], file[s]) : DefinitionsUpdated(s, pick)
    /\ UNCHANGED <<sync, heardFrom, netVars, budgets>>
    /\ LeaveFile

Boot(s) ==
    /\ phase[s] = "booting"
    /\ phase' = [phase EXCEPT ![s] = "running"]
    /\ \E pick \in Parings(byOrigin[s], file[s]) : DefinitionsUpdated(s, pick)
    /\ heardFrom' = [heardFrom EXCEPT ![s] = [p \in Site |->
            IF p # s /\ (byOrigin'[s][p] # {} \/ @[p] # "none") THEN "fresh" ELSE @[p]]]
    /\ UNCHANGED <<sync, netVars, budgets>>
    /\ LeaveFile

Watch(s) ==
    /\ phase[s] = "running"
    /\ events[s] > 0
    /\ events' = [events EXCEPT ![s] = @ - 1]
    /\ \E pick \in Parings(byOrigin[s], file[s]) : DefinitionsUpdated(s, pick)
    /\ UNCHANGED <<file, offered, process, heardFrom, netVars, budgets>>

\* runServiceSync connects to the router, and starts syncSender.
Dial(s) ==
    /\ phase[s] # "down"
    /\ sync[s] = "dial"
    /\ sync' = [sync EXCEPT ![s] = "on"]
    /\ UNCHANGED <<phase, copies, heardFrom, netVars, budgets>>
    /\ LeaveFile

Return ==
    /\ returns < MaxReturns
    /\ returns' = returns + 1
    /\ UNCHANGED <<commands, cuts, crashes>>

\* runServiceSync cannot connect, or cannot receive: it returns, which closes the
\* connection, and nothing calls it again.
ReceiverReturns(s) ==
    /\ phase[s] # "down"
    /\ Return
    /\ \/ sync[s] = "on" /\ sync' = [sync EXCEPT ![s] = "ageing"]
       \/ sync[s] \in {"dial", "receiving"} /\ sync' = [sync EXCEPT ![s] = "ended"]
    /\ mail' = [mail EXCEPT ![s] = [p \in Site |-> NoMail]]
    /\ UNCHANGED <<phase, copies, heardFrom, link>>
    /\ LeaveFile

\* The sending tick: what the watcher last published goes to every site that receives
\* and that the network connects.
Announce(s) ==
    /\ Sends(s)
    /\ mail' = [t \in Site |-> IF Connected(s, t) /\ Receives(t)
                               THEN [mail[t] EXCEPT ![s] = localServices[s]] ELSE mail[t]]
    /\ UNCHANGED <<process, copies, heardFrom, link, budgets>>
    /\ LeaveFile

\* The announcement of s reaches t, whose controller applies it.
Deliver(t, s) ==
    LET upd == mail[t][s]
        changed == Changed(byName[t], s, upd)
        deleted == Withdrawn(byOrigin[t], s, upd)
    IN  /\ Receives(t)
        /\ upd # NoMail
        /\ mail' = [mail EXCEPT ![t][s] = NoMail]
        /\ heardFrom' = [heardFrom EXCEPT ![t][s] = "fresh"]
        /\ byOrigin' = [byOrigin EXCEPT ![t][s] = @ \ deleted]
        /\ IF changed = {} /\ deleted = {}
             THEN LeaveFile
             ELSE WriteFile(t, Edit(file[t], s, upd, changed, deleted))
        /\ UNCHANGED <<process, byName, localServices, link, budgets>>

\* 60 seconds without an announcement.  A site that sends sends twelve of them, so the
\* two are disconnected or one of them has stopped sending or receiving; and the
\* watcher has long handled what it was notified of.
GoStale(t, s) ==
    /\ heardFrom[t][s] = "fresh"
    /\ ~Connected(s, t) \/ ~Sends(s) \/ ~Receives(t)
    /\ events[t] = 0
    /\ heardFrom' = [heardFrom EXCEPT ![t][s] = "stale"]
    /\ UNCHANGED <<process, copies, netVars, budgets>>
    /\ LeaveFile

AgedAt(t) == {p \in Site : heardFrom[t][p] = "stale"}

AgeOut(t) ==
    LET agedOrigins == AgedAt(t)
        deleted == UNION {byOrigin[t][p] : p \in agedOrigins}
    IN  /\ Ages(t)
        /\ agedOrigins # {}
        /\ IF deleted = {} THEN LeaveFile ELSE WriteFile(t, Erase(file[t], deleted))
        /\ heardFrom' = [heardFrom EXCEPT ![t] =
                [p \in Site |-> IF p \in agedOrigins THEN "none" ELSE @[p]]]
        /\ byOrigin' = [byOrigin EXCEPT ![t] =
                [p \in Site |-> IF p \in agedOrigins THEN {} ELSE @[p]]]
        /\ UNCHANGED <<process, byName, localServices, netVars, budgets>>

\* The definitions of an aged origin cannot be erased, after those of others: syncSender
\* returns, and has forgotten nothing.
AgeFails(t) ==
    \E erased \in SUBSET AgedAt(t) :
        LET deleted == UNION {byOrigin[t][p] : p \in erased} IN
        /\ Ages(t)
        /\ Return
        /\ \E p \in AgedAt(t) \ erased : byOrigin[t][p] # {}
        /\ IF deleted = {} THEN LeaveFile ELSE WriteFile(t, Erase(file[t], deleted))
        /\ sync' = [sync EXCEPT ![t] = IF @ = "on" THEN "receiving" ELSE "ended"]
        /\ UNCHANGED <<phase, copies, heardFrom, netVars>>

\* The controller stops; what is under way to it is lost with its link.
Crash(s) ==
    /\ phase[s] # "down"
    /\ crashes < MaxCrashes
    /\ crashes' = crashes + 1
    /\ phase' = [phase EXCEPT ![s] = "down"]
    /\ sync' = [sync EXCEPT ![s] = "dial"]
    /\ events' = [events EXCEPT ![s] = 0]
    /\ byName' = [byName EXCEPT ![s] = NoServices]
    /\ localServices' = [localServices EXCEPT ![s] = NoServices]
    /\ byOrigin' = [byOrigin EXCEPT ![s] = [p \in Site |-> {}]]
    /\ heardFrom' = [heardFrom EXCEPT ![s] = [p \in Site |-> "none"]]
    /\ mail' = [mail EXCEPT ![s] = [p \in Site |-> NoMail]]
    /\ UNCHANGED <<file, offered, link, commands, cuts, returns>>

-----------------------------------------------------------------------------
(* The router network.                                                     *)

Cut(s, t) ==
    /\ Connected(s, t)
    /\ cuts < MaxCuts
    /\ cuts' = cuts + 1
    /\ link' = link \ {<<s, t>>, <<t, s>>}
    /\ UNCHANGED <<process, copies, heardFrom, mail, commands, crashes, returns>>
    /\ LeaveFile

Heal ==
    /\ link # Pairs
    /\ link' = Pairs
    /\ UNCHANGED <<process, copies, heardFrom, mail, budgets>>
    /\ LeaveFile

Next ==
    \/ Heal
    \/ \E s \in Site :
        \/ Command(s) \/ Start(s) \/ Boot(s) \/ Watch(s) \/ Dial(s) \/ ReceiverReturns(s)
        \/ Announce(s) \/ AgeOut(s) \/ AgeFails(s) \/ Crash(s)
        \/ \E t \in Site : Deliver(s, t) \/ GoStale(s, t) \/ Cut(s, t)

Spec == Init /\ [][Next]_vars

\* The routers retry their connections; goroutines that have not returned go on: the
\* watcher reads what it is notified of, announcements are sent on the ticks and
\* received, and the ticks of ageing come.  Nothing is assumed of commands and
\* failures, nor that a controller is started, or that it connects to its router.
Fairness ==
    /\ WF_vars(Heal)
    /\ \A s \in Site :
        /\ WF_vars(Watch(s)) /\ WF_vars(Announce(s)) /\ WF_vars(AgeOut(s))
        /\ \A t \in Site : WF_vars(Deliver(s, t)) /\ WF_vars(GoStale(s, t))

FairSpec == Spec /\ Fairness

-----------------------------------------------------------------------------
(* Properties.                                                             *)

\* Values of the right kind.
TypeOK ==
    /\ \A s \in Site : At(s)!TypeOK
    /\ mail \in [Site -> [Site -> Announcement \cup {NoMail}]]
    /\ \A s \in Site : mail[s][s] = NoMail
    /\ link \subseteq Pairs
    /\ sync \in [Site -> Sync]
    /\ commands \in 0..MaxCommands /\ cuts \in 0..MaxCuts
    /\ crashes \in 0..MaxCrashes /\ returns \in 0..MaxReturns
    /\ offered \in [Site -> SUBSET (Addr \X Shape)]

\* A definition attributed to a site is one that this site has offered, in that
\* shape: neither relays through third sites, nor restarts, nor late announcements
\* attribute to a site what it never had.
NoFabrication ==
    \A t, p \in Site, a \in Addr :
        IsFrom(file[t], a, p) => <<a, file[t][a].shape>> \in offered[p]

\* Every site of the network, with the others as its environment, is a site of
\* SiteSync.
SiteInit == \A s \in Site : At(s)!Init
SiteStep == \A s \in Site : [At(s)!Next]_(At(s)!vars)
EverySiteIsASite == SiteInit /\ [][SiteStep]_vars

\* A site whose controller has read the file, and both receives and sends.
Serves(s) == phase[s] = "running" /\ Sends(s)

\* What a site that serves should have at address a: its own definition if it has one,
\* else that of a site that serves and offers the address, in its current shape, else
\* none, not even one that a silent site has offered.
Offers(s, a) == IsLocal(file[s], a)
Agrees(t, a) ==
    \/ Offers(t, a)
    \/ \E p \in Site : /\ Serves(p) /\ Offers(p, a)
                       /\ file[t][a] = [shape |-> file[p][a].shape, origin |-> p]
    \/ ~Present(file[t], a) /\ \A p \in Site : ~(Serves(p) /\ Offers(p, a))

=============================================================================
