-------------------------- MODULE SyncNetworkProofs --------------------------
(***************************************************************************)
(* Proofs about SyncNetwork, for any number of sites, addresses and shapes *)
(* and any bounds.                                                         *)
(***************************************************************************)
EXTENDS SyncNetwork, TLAPS

-----------------------------------------------------------------------------
(* The invariant, in the parts that different steps change.                *)

\* What is in the files: a site's own definitions are offered by it, a definition that
\* is attributed to a site is offered by that site, and none to the site itself.
FilesInv ==
    /\ file \in [Site -> Services]
    /\ offered \in [Site -> SUBSET (Addr \X Shape)]
    /\ \A s \in Site, a \in Addr : ~IsFrom(file[s], a, s)
    /\ \A s \in Site, a \in Addr : IsLocal(file[s], a) => <<a, file[s][a].shape>> \in offered[s]
    /\ NoFabrication

WatchInv ==
    /\ phase \in [Site -> {"down", "booting", "running"}]
    /\ events \in [Site -> 0..MaxEvents]
    /\ \A s \in Site : phase[s] # "running" => events[s] = 0

\* A controller that is down neither receives nor sends nor ages.
SyncInv ==
    /\ sync \in [Site -> Sync]
    /\ \A s \in Site : phase[s] = "down" => sync[s] = "dial"

\* All that upd announces is offered by s.
Truthful(upd, s) == \A a \in Addr : upd[a] # NoDef => <<a, upd[a]>> \in offered[s]

CopiesInv ==
    /\ byName \in [Site -> Services]
    /\ localServices \in [Site -> Announcement]
    /\ byOrigin \in [Site -> [Site -> SUBSET Addr]]
    /\ heardFrom \in [Site -> [Site -> {"none", "fresh", "stale"}]]
    /\ \A s \in Site : byOrigin[s][s] = {}
    /\ \A s \in Site : Truthful(localServices[s], s)

MailInv ==
    /\ mail \in [Site -> [Site -> Announcement \cup {NoMail}]]
    /\ \A s \in Site : mail[s][s] = NoMail
    /\ \A s, t \in Site : mail[t][s] # NoMail => Truthful(mail[t][s], s)

BoundsInv ==
    /\ link \subseteq Pairs
    /\ commands \in 0..MaxCommands /\ cuts \in 0..MaxCuts
    /\ crashes \in 0..MaxCrashes /\ returns \in 0..MaxReturns

IInv == FilesInv /\ WatchInv /\ SyncInv /\ CopiesInv /\ MailInv /\ BoundsInv

-----------------------------------------------------------------------------
(* The rules of SyncRules.                                                 *)

\* Definitions that site s may write: of this site itself or offered by others.
Honest(defs, s) ==
    /\ defs \in Services
    /\ \A a \in Addr : ~IsFrom(defs, a, s)
    /\ \A a \in Addr, p \in Site : IsFrom(defs, a, p) => <<a, defs[a].shape>> \in offered[p]

LEMMA FileIsHonest ==
    ASSUME FilesInv, NEW s \in Site
    PROVE  Honest(file[s], s)
  BY DEF FilesInv, NoFabrication, Honest

LEMMA LocalDefType ==
    ASSUME NEW sh \in Shape
    PROVE  LocalDef(sh) \in Def /\ LocalDef(sh).origin = Local /\ LocalDef(sh) # NoDef
  BY NoDefAssumption DEF LocalDef, Def, Origin

\* A command replaces a definition by one of the site's own, or takes it out.
LEMMA CommandIsHonest ==
    ASSUME NEW s \in Site, NEW defs, Honest(defs, s), NEW a \in Addr, NEW sh \in Shape
    PROVE  /\ Honest([defs EXCEPT ![a] = LocalDef(sh)], s)
           /\ Honest([defs EXCEPT ![a] = NoDef], s)
  BY LocalDefType, LocalAssumption DEF Honest, Services, IsFrom, Present

LEMMA EditIsHonest ==
    ASSUME NEW t \in Site, NEW s \in Site, s # t, NEW defs, Honest(defs, t),
           NEW upd \in Announcement, Truthful(upd, s), NEW cache, NEW D
    PROVE  Honest(Edit(defs, s, upd, Changed(cache, s, upd), D), t)
  <1> DEFINE C == Changed(cache, s, upd)
             new == Edit(defs, s, upd, C, D)
  <1>1. C \subseteq Addr /\ \A a \in C : upd[a] # NoDef
    BY DEF Changed
  <1>2. \A a \in C : upd[a] \in Shape /\ <<a, upd[a]>> \in offered[s]
    BY <1>1 DEF Announcement, Truthful
  <1>3. \A a \in Addr : new[a] = IF a \in D THEN NoDef
                                 ELSE IF a \in C THEN [shape |-> upd[a], origin |-> s]
                                 ELSE defs[a]
    BY DEF Edit
  <1>4. \A a \in C : /\ [shape |-> upd[a], origin |-> s] \in Def
                     /\ [shape |-> upd[a], origin |-> s].origin = s
                     /\ [shape |-> upd[a], origin |-> s].shape = upd[a]
    BY <1>2 DEF Def, Origin
  <1>5. new \in Services
    BY <1>4 DEF Edit, Honest, Services
  <1> HIDE DEF C
  <1>6. ASSUME NEW a \in Addr, NEW p \in Site, IsFrom(new, a, p)
        PROVE  p # t /\ <<a, new[a].shape>> \in offered[p]
    <2>1. a \notin D
      BY <1>3, <1>6 DEF IsFrom, Present
    <2>2. CASE a \in C
      BY <1>2, <1>3, <1>4, <1>6, <2>1, <2>2 DEF IsFrom
    <2>3. CASE a \notin C
      BY <1>3, <1>6, <2>1, <2>3 DEF IsFrom, Present, Honest
    <2> QED BY <2>2, <2>3
  <1> QED BY <1>5, <1>6 DEF Honest, C

LEMMA EraseIsHonest ==
    ASSUME NEW s \in Site, NEW defs, Honest(defs, s), NEW D
    PROVE  Honest(Erase(defs, D), s)
  BY DEF Erase, Honest, Services, IsFrom, Present

LEMMA OwnIsTruthful ==
    ASSUME FilesInv, NEW s \in Site
    PROVE  Own(file[s]) \in Announcement /\ Truthful(Own(file[s]), s)
  <1>1. \A a \in Addr : IsLocal(file[s], a) =>
            file[s][a].shape \in Shape /\ <<a, file[s][a].shape>> \in offered[s]
    BY DEF FilesInv, IsLocal, Present, Services, Def
  <1>2. \A a \in Addr : Own(file[s])[a] = IF IsLocal(file[s], a) THEN file[s][a].shape ELSE NoDef
    BY DEF Own
  <1>3. Own(file[s]) \in Announcement
    BY <1>1 DEF Own, Announcement
  <1> QED BY <1>1, <1>2, <1>3 DEF Truthful

LEMMA AbsorbType ==
    ASSUME NEW byO \in [Site -> SUBSET Addr], NEW defs, NEW pick, NEW s \in Site,
           byO[s] = {}, \A a \in Addr : ~IsFrom(defs, a, s)
    PROVE  /\ Absorb(byO, defs, pick) \in [Site -> SUBSET Addr]
           /\ Absorb(byO, defs, pick)[s] = {}
  BY DEF Absorb, Remote

LEMMA NotificationsType ==
    ASSUME NEW s \in Site, NEW n \in 0..MaxEvents, NEW m \in At(s)!Notifications(n)
    PROVE  m \in 0..MaxEvents
  BY EventsAssumption DEF At!Notifications

-----------------------------------------------------------------------------
(* What the steps share.                                                   *)

\* What has been offered stays offered.
Offering == \A s \in Site : offered[s] \subseteq offered'[s]

LEMMA WriteKeeps ==
    ASSUME IInv, NEW s \in Site, NEW defs, Honest(defs, s), WriteFile(s, defs), UNCHANGED phase
    PROVE  FilesInv' /\ WatchInv' /\ Offering
  <1>1. /\ file' = [file EXCEPT ![s] = defs]
        /\ offered' = [offered EXCEPT ![s] = @ \cup OwnOf(defs)]
    BY DEF WriteFile
  <1>2. OwnOf(defs) \subseteq Addr \X Shape
    BY DEF OwnOf, IsLocal, Present, Honest, Services, Def
  <1>3. /\ offered' \in [Site -> SUBSET (Addr \X Shape)] /\ file' \in [Site -> Services]
        /\ Offering
    BY <1>1, <1>2 DEF IInv, FilesInv, Offering, Honest
  <1>4. file'[s] = defs /\ \A t \in Site : t # s => file'[t] = file[t]
    BY <1>1 DEF IInv, FilesInv
  <1>5. \A a \in Addr : IsLocal(defs, a) => <<a, defs[a].shape>> \in offered'[s]
    BY <1>1 DEF OwnOf, IInv, FilesInv
  <1>6. \A t \in Site, a \in Addr :
            /\ ~IsFrom(file'[t], a, t)
            /\ IsLocal(file'[t], a) => <<a, file'[t][a].shape>> \in offered'[t]
    BY <1>3, <1>4, <1>5 DEF IInv, FilesInv, Honest, Offering
  <1>7. \A t, p \in Site, a \in Addr :
            IsFrom(file'[t], a, p) => <<a, file'[t][a].shape>> \in offered'[p]
    BY <1>3, <1>4 DEF IInv, FilesInv, NoFabrication, Honest, Offering
  <1>8. FilesInv'
    BY <1>3, <1>6, <1>7 DEF FilesInv, NoFabrication, IsFrom, IsLocal, Present
  <1>9. WatchInv'
    BY NotificationsType DEF WriteFile, IInv, WatchInv
  <1> QED BY <1>3, <1>8, <1>9

LEMMA LeaveKeeps ==
    ASSUME FilesInv, LeaveFile
    PROVE  FilesInv' /\ Offering
  BY DEF FilesInv, LeaveFile, NoFabrication, IsFrom, IsLocal, Present, Offering

LEMMA SyncKeeps ==
    ASSUME SyncInv, UNCHANGED process
    PROVE  SyncInv'
  BY DEF SyncInv, process

LEMMA CopiesKeep ==
    ASSUME CopiesInv, UNCHANGED <<copies, heardFrom>>, Offering
    PROVE  CopiesInv'
  BY DEF CopiesInv, copies, Truthful, Offering

LEMMA MailKeeps ==
    ASSUME MailInv, UNCHANGED mail, Offering
    PROVE  MailInv'
  BY DEF MailInv, Truthful, Offering

-----------------------------------------------------------------------------
(* The steps, one by one.                                                  *)

\* A site's own steps leave the network and its bounds alone.
LEMMA BoundsKeep ==
    ASSUME BoundsInv, UNCHANGED <<link, budgets>>
    PROVE  BoundsInv'
  BY DEF BoundsInv, budgets

\* Of the bounds, Return spends only the one of the goroutines that end.
LEMMA ReturnKeepsBounds ==
    ASSUME BoundsInv, Return, UNCHANGED link
    PROVE  BoundsInv'
  BY BoundsAssumption DEF BoundsInv, Return

LEMMA CommandKeeps ==
    ASSUME IInv, NEW s \in Site, Command(s)
    PROVE  IInv'
  <1>1. PICK a \in Addr, sh \in Shape :
            \/ WriteFile(s, Created(file[s], a, sh))
            \/ WriteFile(s, Updated(file[s], a, sh))
            \/ WriteFile(s, Updated(file[s], a, ShapeToBind(file[s], a, sh)))
            \/ /\ IsLocal(file[s], a)
               /\ \E last \in BOOLEAN : WriteFile(s, Unbound(file[s], a, last))
            \/ /\ Present(file[s], a)
               /\ WriteFile(s, Removed(file[s], a))
    BY DEF Command
  <1>2. Honest(file[s], s)
    BY FileIsHonest DEF IInv
  <1>3. Present(file[s], a) => file[s][a].shape \in Shape
    BY DEF IInv, FilesInv, Services, Def, Present
  <1>4. PICK defs : WriteFile(s, defs) /\ Honest(defs, s)
    <2>1. \A x \in Shape : Honest(Updated(file[s], a, x), s)
      BY <1>2, CommandIsHonest DEF Updated
    <2>2. Honest(Removed(file[s], a), s)
      BY <1>2, CommandIsHonest DEF Removed
    <2>3. Honest(Created(file[s], a, sh), s)
      BY <1>2, CommandIsHonest DEF Created
    <2>4. ShapeToBind(file[s], a, sh) \in Shape
      BY <1>3 DEF ShapeToBind
    <2>5. \A last \in BOOLEAN : Honest(Unbound(file[s], a, last), s)
      BY <1>2, CommandIsHonest DEF Unbound
    <2> QED BY <1>1, <2>1, <2>2, <2>3, <2>4, <2>5
  <1>5. /\ UNCHANGED <<phase, process, copies, heardFrom, mail, link, cuts, crashes, returns>>
        /\ commands' = commands + 1 /\ commands < MaxCommands
    BY DEF Command, netVars, process
  <1>6. BoundsInv'
    BY <1>5, BoundsAssumption DEF IInv, BoundsInv
  <1> QED BY <1>4, <1>5, <1>6, WriteKeeps, SyncKeeps, CopiesKeep, MailKeeps DEF IInv

LEMMA StartKeeps ==
    ASSUME IInv, NEW s \in Site, Start(s)
    PROVE  IInv'
  <1>1. WatchInv' /\ SyncInv'
    BY DEF Start, LeaveFile, IInv, WatchInv, SyncInv
  <1> QED
    BY <1>1, LeaveKeeps, CopiesKeep, MailKeeps, BoundsKeep DEF IInv, Start, netVars

LEMMA DefinitionsUpdatedKeeps ==
    ASSUME IInv, NEW s \in Site, NEW pick, DefinitionsUpdated(s, pick), UNCHANGED offered
    PROVE  /\ byName' \in [Site -> Services]
           /\ localServices' \in [Site -> Announcement]
           /\ byOrigin' \in [Site -> [Site -> SUBSET Addr]]
           /\ \A t \in Site : byOrigin'[t][t] = {}
           /\ \A t \in Site : Truthful(localServices[t], t)'
  <1>1. file[s] \in Services /\ \A a \in Addr : ~IsFrom(file[s], a, s)
    BY DEF IInv, FilesInv
  <1>2. /\ Absorb(byOrigin[s], file[s], pick) \in [Site -> SUBSET Addr]
        /\ Absorb(byOrigin[s], file[s], pick)[s] = {}
    BY <1>1, AbsorbType DEF IInv, CopiesInv
  <1>3. Own(file[s]) \in Announcement /\ Truthful(Own(file[s]), s)
    BY OwnIsTruthful DEF IInv
  <1>4. byName' \in [Site -> Services]
    BY <1>1 DEF DefinitionsUpdated, IInv, CopiesInv
  <1>5. byOrigin' \in [Site -> [Site -> SUBSET Addr]] /\ \A t \in Site : byOrigin'[t][t] = {}
    BY <1>2 DEF DefinitionsUpdated, IInv, CopiesInv
  <1>6. /\ localServices' \in [Site -> Announcement]
        /\ localServices'[s] = Own(file[s])
        /\ \A t \in Site : t # s => localServices'[t] = localServices[t]
    BY <1>3 DEF DefinitionsUpdated, IInv, CopiesInv
  <1>7. \A t \in Site : Truthful(localServices[t], t)'
    BY <1>3, <1>6 DEF IInv, CopiesInv, Truthful
  <1> QED BY <1>4, <1>5, <1>6, <1>7

LEMMA BootKeeps ==
    ASSUME IInv, NEW s \in Site, Boot(s)
    PROVE  IInv'
  <1>1. PICK pick : DefinitionsUpdated(s, pick)
    BY DEF Boot
  <1>2. LeaveFile /\ UNCHANGED <<mail, link, budgets>>
    BY DEF Boot, netVars
  <1>3. WatchInv' /\ SyncInv'
    BY <1>2 DEF Boot, LeaveFile, IInv, WatchInv, SyncInv
  <1>4. heardFrom' \in [Site -> [Site -> {"none", "fresh", "stale"}]]
    BY DEF Boot, IInv, CopiesInv
  <1>5. CopiesInv'
    BY <1>1, <1>2, <1>4, DefinitionsUpdatedKeeps DEF CopiesInv, LeaveFile
  <1> QED
    BY <1>2, <1>3, <1>5, LeaveKeeps, MailKeeps, BoundsKeep DEF IInv

LEMMA WatchKeeps ==
    ASSUME IInv, NEW s \in Site, Watch(s)
    PROVE  IInv'
  <1>1. PICK pick : DefinitionsUpdated(s, pick)
    BY DEF Watch
  <1>2. UNCHANGED <<file, offered, phase, process, heardFrom, mail, link, budgets>>
    BY DEF Watch, netVars, process
  <1>3. WatchInv'
    BY <1>2, EventsAssumption DEF Watch, IInv, WatchInv
  <1>4. CopiesInv'
    BY <1>1, <1>2, DefinitionsUpdatedKeeps DEF IInv, CopiesInv
  <1>5. FilesInv' /\ Offering
    BY <1>2 DEF IInv, FilesInv, NoFabrication, IsFrom, IsLocal, Present, Offering
  <1> QED BY <1>2, <1>3, <1>4, <1>5, SyncKeeps, MailKeeps, BoundsKeep DEF IInv

LEMMA DialKeeps ==
    ASSUME IInv, NEW s \in Site, Dial(s)
    PROVE  IInv'
  <1>1. WatchInv' /\ SyncInv'
    BY DEF Dial, LeaveFile, IInv, WatchInv, SyncInv, Sync
  <1> QED
    BY <1>1, LeaveKeeps, CopiesKeep, MailKeeps, BoundsKeep DEF IInv, Dial, netVars

LEMMA ReceiverReturnsKeeps ==
    ASSUME IInv, NEW s \in Site, ReceiverReturns(s)
    PROVE  IInv'
  <1>1. WatchInv' /\ SyncInv'
    BY DEF ReceiverReturns, LeaveFile, IInv, WatchInv, SyncInv, Sync
  <1>2. LeaveFile /\ Return /\ UNCHANGED <<copies, heardFrom, link>>
    BY DEF ReceiverReturns
  <1>3. FilesInv' /\ Offering
    BY <1>2, LeaveKeeps DEF IInv
  <1>4. MailInv'
    <2>1. mail' \in [Site -> [Site -> Announcement \cup {NoMail}]]
      BY DEF ReceiverReturns, IInv, MailInv
    <2>2. \A p, q \in Site : mail'[p][q] = mail[p][q] \/ mail'[p][q] = NoMail
      BY DEF ReceiverReturns, IInv, MailInv
    <2> QED BY <1>3, <2>1, <2>2 DEF IInv, MailInv, Truthful, Offering
  <1> QED
    BY <1>1, <1>2, <1>3, <1>4, CopiesKeep, ReturnKeepsBounds DEF IInv

LEMMA AnnounceKeeps ==
    ASSUME IInv, NEW s \in Site, Announce(s)
    PROVE  IInv'
  <1>1. /\ LeaveFile /\ UNCHANGED <<phase, process, copies, heardFrom, link, budgets>>
        /\ ~Connected(s, s)
    BY DEF Announce, Connected, Pairs, IInv, BoundsInv, process
  <1>2. localServices[s] \in Announcement /\ Truthful(localServices[s], s)
    BY DEF IInv, CopiesInv
  <1>3. MailInv'
    <2>1. \A t \in Site : mail'[t] = IF Connected(s, t) /\ Receives(t)
                                     THEN [mail[t] EXCEPT ![s] = localServices[s]] ELSE mail[t]
      BY DEF Announce
    <2>2. mail' \in [Site -> [Site -> Announcement \cup {NoMail}]]
      BY <1>2, <2>1 DEF Announce, IInv, MailInv
    <2>3. ASSUME NEW t \in Site, NEW p \in Site
          PROVE  \/ mail'[t][p] = mail[t][p]
                 \/ t # s /\ p = s /\ mail'[t][p] = localServices[s]
      <3>1. CASE Connected(s, t) /\ Receives(t)
        <4>1. mail[t] \in [Site -> Announcement \cup {NoMail}] /\ t # s
          BY <1>1, <3>1 DEF IInv, MailInv
        <4>2. mail'[t] = [mail[t] EXCEPT ![s] = localServices[s]]
          BY <2>1, <3>1
        <4> QED BY <4>1, <4>2
      <3>2. CASE ~(Connected(s, t) /\ Receives(t))
        BY <2>1, <3>2
      <3> QED BY <3>1, <3>2
    <2>4. \A t \in Site : mail'[t][t] = NoMail
      BY <2>3 DEF IInv, MailInv
    <2>5. ASSUME NEW t \in Site, NEW p \in Site, mail'[t][p] # NoMail
          PROVE  Truthful(mail'[t][p], p)
      BY <1>2, <2>3, <2>5 DEF IInv, MailInv
    <2>6. ASSUME NEW p \in Site, NEW t \in Site, mail'[t][p] # NoMail
          PROVE  Truthful(mail[t][p], p)'
      BY <1>1, <2>5, <2>6 DEF Truthful, LeaveFile
    <2> QED BY <2>2, <2>4, <2>6 DEF MailInv
  <1>4. WatchInv'
    BY <1>1 DEF LeaveFile, IInv, WatchInv
  <1> QED
    BY <1>1, <1>3, <1>4, LeaveKeeps, SyncKeeps, CopiesKeep, BoundsKeep DEF IInv

LEMMA DeliverKeeps ==
    ASSUME IInv, NEW t \in Site, NEW s \in Site, Deliver(t, s)
    PROVE  IInv'
  <1> DEFINE upd == mail[t][s]
             changed == Changed(byName[t], s, upd)
             deleted == Withdrawn(byOrigin[t], s, upd)
  <1>1. upd \in Announcement /\ Truthful(upd, s) /\ s # t
    BY DEF Deliver, IInv, MailInv
  <1>2. /\ UNCHANGED <<phase, process, byName, localServices, link, budgets>>
        /\ mail' = [mail EXCEPT ![t][s] = NoMail]
        /\ heardFrom' = [heardFrom EXCEPT ![t][s] = "fresh"]
        /\ byOrigin' = [byOrigin EXCEPT ![t][s] = @ \ deleted]
        /\ LeaveFile \/ WriteFile(t, Edit(file[t], s, upd, changed, deleted))
    BY DEF Deliver, process
  <1> HIDE DEF upd, deleted
  <1>3. FilesInv' /\ WatchInv' /\ Offering
    <2>1. CASE LeaveFile
      BY <1>2, <2>1, LeaveKeeps DEF IInv, WatchInv, LeaveFile
    <2>2. CASE WriteFile(t, Edit(file[t], s, upd, changed, deleted))
      BY <1>1, <1>2, <2>2, FileIsHonest, EditIsHonest, WriteKeeps DEF IInv
    <2> QED BY <1>2, <2>1, <2>2
  <1>4. CopiesInv'
    <2>1. /\ heardFrom' \in [Site -> [Site -> {"none", "fresh", "stale"}]]
          /\ byOrigin' \in [Site -> [Site -> SUBSET Addr]]
          /\ \A q \in Site : byOrigin'[q][q] = {}
      BY <1>1, <1>2 DEF IInv, CopiesInv
    <2> QED BY <1>2, <1>3, <2>1 DEF IInv, CopiesInv, Truthful, Offering
  <1>5. MailInv'
    <2>1. mail' \in [Site -> [Site -> Announcement \cup {NoMail}]]
      BY <1>2 DEF IInv, MailInv
    <2>2. \A p, q \in Site : mail'[p][q] = mail[p][q] \/ mail'[p][q] = NoMail
      BY <1>2 DEF IInv, MailInv
    <2> QED BY <1>3, <2>1, <2>2 DEF IInv, MailInv, Truthful, Offering
  <1> QED BY <1>2, <1>3, <1>4, <1>5, SyncKeeps, BoundsKeep DEF IInv

LEMMA GoStaleKeeps ==
    ASSUME IInv, NEW t \in Site, NEW s \in Site, GoStale(t, s)
    PROVE  IInv'
  <1>1. /\ LeaveFile /\ UNCHANGED <<phase, process, copies, mail, link, budgets>>
        /\ heardFrom' = [heardFrom EXCEPT ![t][s] = "stale"]
    BY DEF GoStale, netVars, process
  <1>2. FilesInv' /\ WatchInv' /\ Offering
    BY <1>1, LeaveKeeps DEF IInv, WatchInv, LeaveFile
  <1>3. CopiesInv'
    BY <1>1, <1>2 DEF IInv, CopiesInv, copies, Truthful, Offering
  <1> QED BY <1>1, <1>2, <1>3, SyncKeeps, MailKeeps, BoundsKeep DEF IInv

LEMMA AgeOutKeeps ==
    ASSUME IInv, NEW t \in Site, AgeOut(t)
    PROVE  IInv'
  <1>1. PICK D, aged :
            /\ LeaveFile \/ WriteFile(t, Erase(file[t], D))
            /\ heardFrom' = [heardFrom EXCEPT ![t] =
                    [p \in Site |-> IF p \in aged THEN "none" ELSE @[p]]]
            /\ byOrigin' = [byOrigin EXCEPT ![t] =
                    [p \in Site |-> IF p \in aged THEN {} ELSE @[p]]]
    BY DEF AgeOut
  <1>2. UNCHANGED <<phase, process, byName, localServices, mail, link, budgets>>
    BY DEF AgeOut, netVars, process
  <1>3. FilesInv' /\ WatchInv' /\ Offering
    <2>1. CASE LeaveFile
      BY <1>2, <2>1, LeaveKeeps DEF IInv, WatchInv, LeaveFile
    <2>2. CASE WriteFile(t, Erase(file[t], D))
      BY <1>2, <2>2, FileIsHonest, EraseIsHonest, WriteKeeps DEF IInv
    <2> QED BY <1>1, <2>1, <2>2
  <1>4. CopiesInv'
    <2>1. heardFrom' \in [Site -> [Site -> {"none", "fresh", "stale"}]]
      BY <1>1 DEF IInv, CopiesInv
    <2>2. /\ byOrigin' \in [Site -> [Site -> SUBSET Addr]]
          /\ \A q \in Site : byOrigin'[q][q] = {}
      BY <1>1 DEF IInv, CopiesInv
    <2> QED BY <1>2, <1>3, <2>1, <2>2 DEF IInv, CopiesInv, Truthful, Offering
  <1> QED BY <1>2, <1>3, <1>4, SyncKeeps, MailKeeps, BoundsKeep DEF IInv

LEMMA AgeFailsKeeps ==
    ASSUME IInv, NEW t \in Site, AgeFails(t)
    PROVE  IInv'
  <1>1. PICK D : /\ LeaveFile \/ WriteFile(t, Erase(file[t], D))
                 /\ Return
                 /\ UNCHANGED <<phase, copies, heardFrom, mail, link>>
    BY DEF AgeFails, netVars
  <1>2. SyncInv'
    BY DEF AgeFails, Ages, IInv, SyncInv, Sync
  <1>3. FilesInv' /\ WatchInv' /\ Offering
    <2>1. CASE LeaveFile
      BY <1>1, <2>1, LeaveKeeps DEF IInv, WatchInv, LeaveFile
    <2>2. CASE WriteFile(t, Erase(file[t], D))
      BY <1>1, <2>2, FileIsHonest, EraseIsHonest, WriteKeeps DEF IInv
    <2> QED BY <1>1, <2>1, <2>2
  <1> QED BY <1>1, <1>2, <1>3, CopiesKeep, MailKeeps, ReturnKeepsBounds DEF IInv

LEMMA CrashKeeps ==
    ASSUME IInv, NEW s \in Site, Crash(s)
    PROVE  IInv'
  <1>1. FilesInv' /\ Offering
    BY DEF Crash, IInv, FilesInv, NoFabrication, IsFrom, IsLocal, Present, Offering
  <1>2. WatchInv' /\ SyncInv'
    BY EventsAssumption DEF Crash, IInv, WatchInv, SyncInv, Sync
  <1>3. CopiesInv'
    <2>1. NoServices \in Services /\ NoServices \in Announcement /\ \A a \in Addr : NoServices[a] = NoDef
      BY DEF NoServices, Services, Announcement
    <2>2. byName' \in [Site -> Services] /\ localServices' \in [Site -> Announcement]
      BY <2>1 DEF Crash, IInv, CopiesInv
    <2>3. /\ byOrigin' \in [Site -> [Site -> SUBSET Addr]]
          /\ \A q \in Site : byOrigin'[q][q] = {}
      BY DEF Crash, IInv, CopiesInv
    <2>4. heardFrom' \in [Site -> [Site -> {"none", "fresh", "stale"}]]
      BY DEF Crash, IInv, CopiesInv
    <2>5. \A q \in Site : localServices'[q] = localServices[q] \/ localServices'[q] = NoServices
      BY DEF Crash, IInv, CopiesInv
    <2> QED
      BY <1>1, <2>1, <2>2, <2>3, <2>4, <2>5 DEF IInv, CopiesInv, Truthful, Offering
  <1>4. MailInv'
    <2>1. mail' \in [Site -> [Site -> Announcement \cup {NoMail}]]
      BY DEF Crash, IInv, MailInv
    <2>2. \A p, q \in Site : mail'[p][q] = mail[p][q] \/ mail'[p][q] = NoMail
      BY DEF Crash, IInv, MailInv
    <2> QED BY <1>1, <2>1, <2>2 DEF IInv, MailInv, Truthful, Offering
  <1>5. BoundsInv'
    BY BoundsAssumption DEF Crash, IInv, BoundsInv
  <1> QED BY <1>1, <1>2, <1>3, <1>4, <1>5 DEF IInv

LEMMA NetworkKeeps ==
    ASSUME IInv, Heal \/ \E s, t \in Site : Cut(s, t)
    PROVE  IInv'
  <1>1. /\ LeaveFile /\ UNCHANGED <<phase, process, copies, heardFrom, mail>>
    BY DEF Heal, Cut, process
  <1>2. BoundsInv'
    BY BoundsAssumption DEF Heal, Cut, IInv, BoundsInv, budgets
  <1>3. WatchInv'
    BY <1>1 DEF LeaveFile, IInv, WatchInv
  <1> QED BY <1>1, <1>2, <1>3, LeaveKeeps, SyncKeeps, CopiesKeep, MailKeeps DEF IInv

LEMMA InitIInv == Init => IInv
  <1> SUFFICES ASSUME Init PROVE IInv
    OBVIOUS
  <1>1. NoServices \in Services /\ NoServices \in Announcement /\ \A a \in Addr : NoServices[a] = NoDef
    BY DEF NoServices, Services, Announcement
  <1>2. FilesInv
    BY <1>1 DEF Init, FilesInv, NoFabrication, IsFrom, IsLocal, Present
  <1>3. WatchInv /\ SyncInv
    BY EventsAssumption DEF Init, WatchInv, SyncInv, Sync
  <1>4. CopiesInv
    BY <1>1 DEF Init, CopiesInv, Truthful
  <1>5. MailInv
    BY DEF Init, MailInv
  <1>6. BoundsInv
    BY BoundsAssumption DEF Init, BoundsInv
  <1> QED BY <1>2, <1>3, <1>4, <1>5, <1>6 DEF IInv

LEMMA StutterKeeps == IInv /\ UNCHANGED vars => IInv'
  <1> SUFFICES ASSUME IInv, UNCHANGED vars PROVE IInv'
    OBVIOUS
  <1>1. /\ LeaveFile /\ UNCHANGED <<phase, process, copies, heardFrom, mail, link, budgets>>
    BY DEF vars, LeaveFile, copies, budgets, process
  <1>2. WatchInv'
    BY <1>1 DEF LeaveFile, IInv, WatchInv
  <1> QED BY <1>1, <1>2, LeaveKeeps, SyncKeeps, CopiesKeep, MailKeeps, BoundsKeep DEF IInv

\* The invariant is inductive: one case per action.
LEMMA NextKeeps == IInv /\ [Next]_vars => IInv'
  BY CommandKeeps, StartKeeps, BootKeeps, WatchKeeps, DialKeeps, ReceiverReturnsKeeps,
     AnnounceKeeps, DeliverKeeps, GoStaleKeeps, AgeOutKeeps, AgeFailsKeeps, CrashKeeps,
     NetworkKeeps, StutterKeeps
     DEF Next

LEMMA Invariance == Spec => []IInv
  BY InitIInv, NextKeeps, PTL DEF Spec

\* Every site of the network keeps to the types of SiteSync, and the mail and the bounds
\* to theirs; no site has mail from itself (TypeOK).
THEOREM TypeCorrect == Spec => []TypeOK
  <1>1. IInv => TypeOK
    <2> SUFFICES ASSUME IInv PROVE TypeOK
      OBVIOUS
    <2>1. ASSUME NEW s \in Site PROVE At(s)!TypeOK
      BY DEF IInv, FilesInv, WatchInv, CopiesInv, At!TypeOK, At!Services, At!Def, At!Origin,
             At!IsFrom, At!Present, At!Announcement, At!Phase, At!Age, Services, Def, Origin,
             IsFrom, Present, Announcement
    <2> QED BY <2>1 DEF IInv, FilesInv, SyncInv, MailInv, BoundsInv, TypeOK
  <1> QED BY <1>1, Invariance, PTL

\* However announcements are delayed, lost, relayed or come back after restarts, a site
\* is only ever said to offer what it has offered (NoFabrication).
THEOREM NothingIsFabricated == Spec => []NoFabrication
  BY Invariance, PTL DEF IInv, FilesInv

-----------------------------------------------------------------------------
(* Every site of the network is a site of SiteSync.                        *)

\* Nothing of site d changes.
Still(d) ==
    UNCHANGED <<file[d], events[d], phase[d], byName[d], localServices[d], byOrigin[d],
                heardFrom[d]>>

\* Site s takes a step of SiteSync, and no other site does.
StepAt(s) ==
    /\ [At(s)!Next]_(At(s)!vars)
    /\ \A d \in Site : d # s => Still(d)

LEMMA StepIsEnough ==
    ASSUME NEW s \in Site, StepAt(s)
    PROVE  SiteStep
  BY DEF StepAt, SiteStep, Still, At!vars

LEMMA WriteMaps ==
    ASSUME IInv, NEW s \in Site, NEW defs, WriteFile(s, defs), UNCHANGED phase
    PROVE  /\ At(s)!WriteFile(defs)
           /\ \A d \in Site : d # s => UNCHANGED <<file[d], events[d]>>
  BY DEF WriteFile, At!WriteFile, IInv, FilesInv, WatchInv

LEMMA DefinitionsUpdatedMaps ==
    ASSUME IInv, NEW s \in Site, NEW pick \in Parings(byOrigin[s], file[s]),
           DefinitionsUpdated(s, pick)
    PROVE  /\ pick \in At(s)!Parings(byOrigin[s], file[s]) /\ At(s)!DefinitionsUpdated(pick)
           /\ \A d \in Site : d # s =>
                    UNCHANGED <<byName[d], localServices[d], byOrigin[d]>>
  BY DEF DefinitionsUpdated, At!DefinitionsUpdated, IInv, FilesInv, CopiesInv, Parings, At!Parings,
         Absorb, At!Absorb, Remote, At!Remote, Own, At!Own, IsLocal, At!IsLocal, IsFrom,
         At!IsFrom, Present, At!Present, Holders, At!Holders

LEMMA CommandMaps ==
    ASSUME IInv, NEW s \in Site, Command(s)
    PROVE  StepAt(s)
  <1>1. /\ UNCHANGED <<phase, byName, localServices, byOrigin, heardFrom>>
    BY DEF Command, copies, process
  <1>2. ASSUME NEW defs, WriteFile(s, defs)
        PROVE  /\ At(s)!Command(defs)
               /\ \A d \in Site : d # s => Still(d)
    BY <1>1, <1>2, WriteMaps DEF At!Command, At!cacheVars, At!peerVars, Still
  <1>3. PICK a \in Addr, sh \in Shape :
            \/ WriteFile(s, Created(file[s], a, sh))
            \/ WriteFile(s, Updated(file[s], a, sh))
            \/ WriteFile(s, Updated(file[s], a, ShapeToBind(file[s], a, sh)))
            \/ /\ IsLocal(file[s], a)
               /\ \E last \in BOOLEAN : WriteFile(s, Unbound(file[s], a, last))
            \/ /\ Present(file[s], a)
               /\ WriteFile(s, Removed(file[s], a))
    BY DEF Command
  <1>4. /\ At(s)!Created(file[s], a, sh) = Created(file[s], a, sh)
        /\ \A x : At(s)!Updated(file[s], a, x) = Updated(file[s], a, x)
        /\ At(s)!ShapeToBind(file[s], a, sh) = ShapeToBind(file[s], a, sh)
        /\ \A last \in BOOLEAN : At(s)!Unbound(file[s], a, last) = Unbound(file[s], a, last)
        /\ At(s)!Removed(file[s], a) = Removed(file[s], a)
        /\ At(s)!IsLocal(file[s], a) = IsLocal(file[s], a)
        /\ At(s)!Present(file[s], a) = Present(file[s], a)
    BY DEF Created, At!Created, Updated, At!Updated, ShapeToBind, At!ShapeToBind, Unbound,
           At!Unbound, Removed, At!Removed, LocalDef, At!LocalDef, IsLocal, At!IsLocal, Present,
           At!Present
  <1>5. CASE WriteFile(s, Created(file[s], a, sh))
    <2>1. At(s)!CreateService(a, sh)
      BY <1>2, <1>4, <1>5 DEF At!CreateService, At!Command, At!WriteFile
    <2> QED BY <1>2, <1>5, <2>1 DEF At!Next, StepAt
  <1>6. CASE WriteFile(s, Updated(file[s], a, sh))
    <2>1. At(s)!UpdateService(a, sh)
      BY <1>2, <1>4, <1>6 DEF At!UpdateService, At!Command, At!WriteFile
    <2> QED BY <1>2, <1>6, <2>1 DEF At!Next, StepAt
  <1>7. CASE WriteFile(s, Updated(file[s], a, ShapeToBind(file[s], a, sh)))
    <2>1. At(s)!BindService(a, sh)
      BY <1>2, <1>4, <1>7 DEF At!BindService, At!Command, At!WriteFile
    <2> QED BY <1>2, <1>7, <2>1 DEF At!Next, StepAt
  <1>8. ASSUME IsLocal(file[s], a), NEW last \in BOOLEAN,
               WriteFile(s, Unbound(file[s], a, last))
        PROVE  StepAt(s)
    <2>1. At(s)!UnbindService(a, last)
      BY <1>2, <1>4, <1>8 DEF At!UnbindService, At!Command, At!WriteFile
    <2> QED BY <1>2, <1>8, <2>1 DEF At!Next, StepAt
  <1>9. CASE Present(file[s], a) /\ WriteFile(s, Removed(file[s], a))
    <2>1. At(s)!RemoveService(a)
      BY <1>2, <1>4, <1>9 DEF At!RemoveService, At!Command, At!WriteFile
    <2> QED BY <1>2, <1>9, <2>1 DEF At!Next, StepAt
  <1> QED BY <1>3, <1>5, <1>6, <1>7, <1>8, <1>9

LEMMA StartMaps ==
    ASSUME IInv, NEW s \in Site, Start(s)
    PROVE  StepAt(s)
  <1>1. /\ UNCHANGED <<file, events, byName, localServices, byOrigin, heardFrom>>
        /\ phase[s] = "down" /\ phase' = [phase EXCEPT ![s] = "booting"]
    BY DEF Start, LeaveFile, copies
  <1>2. At(s)!Start
    BY <1>1 DEF At!Start, At!fileVars, At!cacheVars, At!peerVars, IInv, WatchInv
  <1> QED BY <1>1, <1>2 DEF At!Next, StepAt, Still, IInv, WatchInv

LEMMA BootMaps ==
    ASSUME IInv, NEW s \in Site, Boot(s)
    PROVE  StepAt(s)
  <1>1. PICK pick \in Parings(byOrigin[s], file[s]) : DefinitionsUpdated(s, pick)
    BY DEF Boot
  <1>2. /\ UNCHANGED <<file, events>>
        /\ phase[s] = "booting" /\ phase' = [phase EXCEPT ![s] = "running"]
        /\ heardFrom' = [heardFrom EXCEPT ![s] = [p \in Site |->
                IF p # s /\ (byOrigin'[s][p] # {} \/ @[p] # "none") THEN "fresh" ELSE @[p]]]
    BY DEF Boot, LeaveFile
  <1>3. At(s)!Boot
    <2>1. phase'[s] = "running"
      BY <1>2 DEF IInv, WatchInv
    <2>2. heardFrom'[s] = [p \in Site |->
                IF p # s /\ (byOrigin'[s][p] # {} \/ heardFrom[s][p] # "none") THEN "fresh"
                ELSE heardFrom[s][p]]
      BY <1>2 DEF IInv, CopiesInv
    <2> QED BY <1>1, <1>2, <2>1, <2>2, DefinitionsUpdatedMaps DEF At!Boot, At!fileVars
  <1>4. \A d \in Site : d # s => UNCHANGED <<phase[d], heardFrom[d]>>
    BY <1>2 DEF IInv, WatchInv, CopiesInv
  <1>5. \A d \in Site : d # s => Still(d)
    BY <1>1, <1>2, <1>4, DefinitionsUpdatedMaps DEF Still
  <1> QED BY <1>3, <1>5 DEF At!Next, StepAt

LEMMA WatchMaps ==
    ASSUME IInv, NEW s \in Site, Watch(s)
    PROVE  StepAt(s)
  <1>1. PICK pick \in Parings(byOrigin[s], file[s]) : DefinitionsUpdated(s, pick)
    BY DEF Watch
  <1>2. /\ UNCHANGED <<file, phase, heardFrom>>
        /\ phase[s] = "running" /\ events[s] > 0 /\ events' = [events EXCEPT ![s] = @ - 1]
    BY DEF Watch, process
  <1>3. At(s)!Watch
    BY <1>1, <1>2, DefinitionsUpdatedMaps DEF At!Watch, IInv, WatchInv
  <1>4. \A d \in Site : d # s => Still(d)
    BY <1>1, <1>2, DefinitionsUpdatedMaps DEF Still, IInv, WatchInv
  <1> QED BY <1>3, <1>4 DEF At!Next, StepAt

LEMMA DeliverMaps ==
    ASSUME IInv, NEW t \in Site, NEW s \in Site, Deliver(t, s)
    PROVE  StepAt(t)
  <1> DEFINE upd == mail[t][s]
             changed == Changed(byName[t], s, upd)
             deleted == Withdrawn(byOrigin[t], s, upd)
  <1>1. upd \in Announcement /\ s # t
    BY DEF Deliver, IInv, MailInv
  <1>2. /\ phase[t] # "down" /\ UNCHANGED <<phase, byName, localServices>>
        /\ heardFrom' = [heardFrom EXCEPT ![t][s] = "fresh"]
        /\ byOrigin' = [byOrigin EXCEPT ![t][s] = @ \ deleted]
        /\ IF changed = {} /\ deleted = {} THEN LeaveFile
           ELSE WriteFile(t, Edit(file[t], s, upd, changed, deleted))
    BY DEF Deliver, process, Receives, IInv, SyncInv
  <1>3. /\ changed = At(t)!Changed(byName[t], s, upd)
        /\ deleted = At(t)!Withdrawn(byOrigin[t], s, upd)
        /\ Edit(file[t], s, upd, changed, deleted) = At(t)!Edit(file[t], s, upd, changed, deleted)
    BY DEF Changed, At!Changed, Withdrawn, At!Withdrawn, Edit, At!Edit, IsFrom, At!IsFrom, Present,
           At!Present
  <1> HIDE DEF upd, changed, deleted
  <1>4. /\ heardFrom'[t] = [heardFrom[t] EXCEPT ![s] = "fresh"]
        /\ byOrigin'[t] = [byOrigin[t] EXCEPT ![s] = @ \ deleted]
        /\ \A d \in Site : d # t => UNCHANGED <<heardFrom[d], byOrigin[d]>>
    BY <1>2 DEF IInv, CopiesInv
  <1>5. /\ IF changed = {} /\ deleted = {} THEN UNCHANGED <<file[t], events[t]>>
           ELSE At(t)!WriteFile(At(t)!Edit(file[t], s, upd, changed, deleted))
        /\ \A d \in Site : d # t => UNCHANGED <<file[d], events[d]>>
    BY <1>2, <1>3, WriteMaps DEF LeaveFile
  <1>6. At(t)!ReceiveUpdate(s, upd)
    BY <1>1, <1>2, <1>3, <1>4, <1>5
       DEF At!ReceiveUpdate, At!Up, At!FromPeer, At!fileVars, At!cacheVars
  <1>7. upd \in At(t)!Announcement
    BY <1>1 DEF Announcement, At!Announcement
  <1>8. \A d \in Site : d # t => Still(d)
    BY <1>2, <1>4, <1>5 DEF Still
  <1> QED BY <1>6, <1>7, <1>8 DEF At!Next, StepAt

LEMMA GoStaleMaps ==
    ASSUME IInv, NEW t \in Site, NEW s \in Site, GoStale(t, s)
    PROVE  StepAt(t)
  <1>1. /\ UNCHANGED <<file, events, phase, byName, localServices, byOrigin>>
        /\ heardFrom[t][s] = "fresh" /\ heardFrom' = [heardFrom EXCEPT ![t][s] = "stale"]
    BY DEF GoStale, copies, LeaveFile, process
  <1>2. /\ heardFrom'[t] = [heardFrom[t] EXCEPT ![s] = "stale"]
        /\ \A d \in Site : d # t => UNCHANGED heardFrom[d]
    BY <1>1 DEF IInv, CopiesInv
  <1>3. At(t)!GoStale(s)
    BY <1>1, <1>2 DEF At!GoStale, At!fileVars, At!cacheVars
  <1> QED BY <1>1, <1>2, <1>3 DEF At!Next, StepAt, Still

LEMMA AgeOutMaps ==
    ASSUME IInv, NEW t \in Site, AgeOut(t)
    PROVE  StepAt(t)
  <1> DEFINE aged == AgedAt(t)
             deleted == UNION {byOrigin[t][p] : p \in aged}
  <1>1. /\ phase[t] # "down" /\ aged # {} /\ UNCHANGED <<phase, byName, localServices>>
        /\ IF deleted = {} THEN LeaveFile ELSE WriteFile(t, Erase(file[t], deleted))
        /\ heardFrom' = [heardFrom EXCEPT ![t] =
                [p \in Site |-> IF p \in aged THEN "none" ELSE @[p]]]
        /\ byOrigin' = [byOrigin EXCEPT ![t] =
                [p \in Site |-> IF p \in aged THEN {} ELSE @[p]]]
    BY DEF AgeOut, Ages, process, IInv, SyncInv
  <1>2. /\ aged = At(t)!Aged /\ deleted = At(t)!AgedServices
        /\ Erase(file[t], deleted) = At(t)!Erase(file[t], deleted)
    BY DEF AgedAt, At!Aged, At!AgedServices, Erase, At!Erase
  <1> HIDE DEF aged, deleted
  <1>3. /\ heardFrom'[t] = [p \in Site |-> IF p \in aged THEN "none" ELSE heardFrom[t][p]]
        /\ byOrigin'[t] = [p \in Site |-> IF p \in aged THEN {} ELSE byOrigin[t][p]]
        /\ \A d \in Site : d # t => UNCHANGED <<heardFrom[d], byOrigin[d]>>
    BY <1>1 DEF IInv, CopiesInv
  <1>4. /\ IF deleted = {} THEN UNCHANGED <<file[t], events[t]>>
           ELSE At(t)!WriteFile(At(t)!Erase(file[t], deleted))
        /\ \A d \in Site : d # t => UNCHANGED <<file[d], events[d]>>
    BY <1>1, <1>2, WriteMaps DEF LeaveFile
  <1>5. At(t)!AgeOut
    BY <1>1, <1>2, <1>3, <1>4 DEF At!AgeOut, At!Up, At!fileVars, At!cacheVars
  <1>6. \A d \in Site : d # t => Still(d)
    BY <1>1, <1>3, <1>4 DEF Still
  <1> QED BY <1>5, <1>6 DEF At!Next, StepAt

LEMMA AgeFailsMaps ==
    ASSUME IInv, NEW t \in Site, AgeFails(t)
    PROVE  StepAt(t)
  <1>1. PICK erased \in SUBSET AgedAt(t) :
            LET deleted == UNION {byOrigin[t][p] : p \in erased} IN
            /\ \E p \in AgedAt(t) \ erased : byOrigin[t][p] # {}
            /\ IF deleted = {} THEN LeaveFile ELSE WriteFile(t, Erase(file[t], deleted))
    BY DEF AgeFails
  <1>2. /\ phase[t] # "down"
        /\ UNCHANGED <<phase, byName, localServices, byOrigin, heardFrom>>
    BY DEF AgeFails, Ages, copies, IInv, SyncInv
  <1> DEFINE deleted == UNION {byOrigin[t][p] : p \in erased}
  <1>3. AgedAt(t) = At(t)!Aged /\ Erase(file[t], deleted) = At(t)!Erase(file[t], deleted)
    BY DEF AgedAt, At!Aged, Erase, At!Erase
  <1>4. /\ IF deleted = {} THEN UNCHANGED <<file[t], events[t]>>
           ELSE At(t)!WriteFile(At(t)!Erase(file[t], deleted))
        /\ \A d \in Site : d # t => UNCHANGED <<file[d], events[d]>>
    BY <1>1, <1>2, <1>3, WriteMaps DEF LeaveFile
  <1>5. At(t)!AgeFails
    BY <1>1, <1>2, <1>3, <1>4 DEF At!AgeFails, At!Up, At!fileVars, At!cacheVars, At!peerVars
  <1>6. \A d \in Site : d # t => Still(d)
    BY <1>2, <1>4 DEF Still
  <1> QED BY <1>5, <1>6 DEF At!Next, StepAt

LEMMA CrashMaps ==
    ASSUME IInv, NEW s \in Site, Crash(s)
    PROVE  StepAt(s)
  <1>1. At(s)!Crash
    BY DEF Crash, At!Crash, At!Up, IInv, FilesInv, WatchInv, CopiesInv, NoServices, At!NoServices,
           At!NothingHeld, At!NeverHeard
  <1>2. \A d \in Site : d # s => Still(d)
    BY DEF Crash, Still, IInv, FilesInv, WatchInv, CopiesInv
  <1> QED BY <1>1, <1>2 DEF At!Next, StepAt

\* What is not a step of a site: connecting, sending, a receiver that returns, and what
\* happens to the network.
LEMMA OthersMap ==
    ASSUME UNCHANGED siteVars
    PROVE  SiteStep
  BY DEF siteVars, SiteStep, At!vars

\* The sites of the network, each with the others as its environment, implement the
\* specification of one site: what SiteSync is proved to promise holds at every site
\* (EverySiteIsASite).
THEOREM SitesImplementSiteSync == Spec => EverySiteIsASite
  <1>1. Init => SiteInit
    BY DEF Init, SiteInit, At!Init, NoServices, At!NoServices, At!NothingHeld, At!NeverHeard
  <1>2. IInv /\ [Next]_vars => [SiteStep]_vars
    <2> SUFFICES ASSUME IInv, Next PROVE SiteStep
      OBVIOUS
    <2>1. CASE \E s \in Site : \/ Command(s) \/ Start(s) \/ Boot(s) \/ Watch(s) \/ AgeOut(s)
                             \/ AgeFails(s) \/ Crash(s)
                             \/ \E t \in Site : Deliver(s, t) \/ GoStale(s, t)
      BY <2>1, CommandMaps, StartMaps, BootMaps, WatchMaps, AgeOutMaps, AgeFailsMaps, CrashMaps,
         DeliverMaps, GoStaleMaps, StepIsEnough
    <2>2. CASE Heal \/ \E s \in Site : \/ Dial(s) \/ ReceiverReturns(s) \/ Announce(s)
                                     \/ \E t \in Site : Cut(s, t)
      BY <2>2, OthersMap DEF Heal, Dial, ReceiverReturns, Announce, Cut, LeaveFile, copies,
         process, siteVars
    <2> QED BY <2>1, <2>2 DEF Next
  <1> QED BY <1>1, <1>2, Invariance, PTL DEF Spec, EverySiteIsASite
=============================================================================
