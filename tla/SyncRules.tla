------------------------------ MODULE SyncRules ------------------------------
(***************************************************************************)
(* The pure part of the controller's service synchronisation               *)
(* (cmd/service-controller/service_sync.go and controller.go): what a set  *)
(* of service definitions is, how the controller files them by origin, and *)
(* which edits an announcement of a peer makes to the definitions file.    *)
(*                                                                         *)
(* A set of definitions - the Go map[string]types.ServiceInterface - is a  *)
(* total function on the addresses whose value is NoDef where the map has  *)
(* no key.  Port, protocol and headless options together are one Shape:    *)
(* the synchronisation only compares them for equality.  Targets are left  *)
(* out: they stay in the file and are never announced.                     *)
(***************************************************************************)

CONSTANTS
    Addr,    \* service addresses, the keys of every map of definitions
    Site,    \* sites of the network; a site is the origin of what it announces
    Shape,   \* protocol, port and headless options of a definition
    Local,   \* the origin of a definition made at this site: "" or "annotation"
    NoDef    \* absence of a definition

Origin == Site \cup {Local}
Def == [shape : Shape, origin : Origin]

ASSUME LocalAssumption == Local \notin Site
ASSUME NoDefAssumption == NoDef \notin Def /\ NoDef \notin Shape

Services == [Addr -> Def \cup {NoDef}]
NoServices == [a \in Addr |-> NoDef]

\* What a site announces: its own definitions, without an origin.  The receiver
\* takes the origin from the message's properties.
Announcement == [Addr -> Shape \cup {NoDef}]

Present(defs, a) == defs[a] # NoDef
IsLocal(defs, a) == Present(defs, a) /\ defs[a].origin = Local
IsFrom(defs, a, p) == Present(defs, a) /\ defs[a].origin = p

-----------------------------------------------------------------------------
(* serviceSyncDefinitionsUpdated: the file has been read again.            *)

\* A variant with a mistake: what was learnt from peers is announced as well.
OwnAndRelayed(defs) == [a \in Addr |-> IF Present(defs, a) THEN defs[a].shape ELSE NoDef]

\* latest, which becomes localServices and is what the site announces.
Own(defs) == [a \in Addr |-> IF IsLocal(defs, a) THEN defs[a].shape ELSE NoDef]

\* The addresses the file attributes to p.
Remote(defs, p) == {a \in Addr : IsFrom(defs, a, p)}

\* The origins that byOrigin holds address a for.
Holders(byO, a) == {p \in Site : a \in byO[p]}

\* pareByOrigin ranges over a Go map and stops at the first origin that holds
\* the address: which one is arbitrary.  A paring chooses it for each address.
Parings(byO, defs) ==
    {pick \in [Addr -> Site] :
        \A a \in Addr : IsLocal(defs, a) /\ Holders(byO, a) # {}
                            => pick[a] \in Holders(byO, a)}

\* Variants of Absorb with a mistake, which the properties are to notice: one never
\* pares, one pares remote addresses too.
AbsorbWithoutParing(byO, defs, pick) == [p \in Site |-> byO[p] \cup Remote(defs, p)]
AbsorbParingAll(byO, defs, pick) ==
    [p \in Site |-> (byO[p] \cup Remote(defs, p)) \ {a \in Addr : pick[a] = p}]

\* byOrigin after the file has been read: every remote definition is filed
\* under its origin, nothing is taken out that the file no longer has, and
\* each local address is taken from one of the origins that hold it.
Absorb(byO, defs, pick) ==
    [p \in Site |->
        (byO[p] \cup Remote(defs, p)) \ {a \in Addr : IsLocal(defs, a) /\ pick[a] = p}]

-----------------------------------------------------------------------------
(* ensureServiceInterfaceDefinitions: an announcement upd came from p.     *)

\* A variant with a mistake: any difference is written, whoever owns the definition.
ChangedByAnyone(cache, p, upd) ==
    {a \in Addr : upd[a] # NoDef /\ (~Present(cache, a) \/ upd[a] # cache[a].shape)}

\* The announced definitions to write: those the cache has no entry for, and
\* those it has under the same origin with another shape.
Changed(cache, p, upd) ==
    {a \in Addr :
        /\ upd[a] # NoDef
        /\ \/ ~Present(cache, a)
           \/ IsFrom(cache, a, p) /\ upd[a] # cache[a].shape}


\* What byOrigin holds for p and the announcement no longer lists.
Withdrawn(byO, p, upd) == {a \in byO[p] : upd[a] = NoDef}

\* updateSkupperServices: the definitions read from the file, edited.
Edit(defs, p, upd, changed, deleted) ==
    [a \in Addr |->
        IF a \in deleted THEN NoDef
        ELSE IF a \in changed THEN [shape |-> upd[a], origin |-> p]
        ELSE defs[a]]

Erase(defs, deleted) == [a \in Addr |-> IF a \in deleted THEN NoDef ELSE defs[a]]

-----------------------------------------------------------------------------
(* What the commands of skupper-docker make of the file they have read.    *)

LocalDef(sh) == [shape |-> sh, origin |-> Local]

\* skupper service create: updateServiceInterface keeps an existing definition,
\* and writes the file either way.
Created(defs, a, sh) ==
    IF Present(defs, a) THEN defs ELSE [defs EXCEPT ![a] = LocalDef(sh)]

\* ServiceInterfaceUpdate and ServiceInterfaceBind overwrite, and make the
\* definition local whatever its origin was.
Updated(defs, a, sh) == [defs EXCEPT ![a] = LocalDef(sh)]

\* skupper service bind keeps the shape of the definition it found; skupper
\* expose makes a definition where there is none.
ShapeToBind(defs, a, sh) == IF Present(defs, a) THEN defs[a].shape ELSE sh

\* skupper unexpose and skupper service unbind, of a target of a definition that
\* has one: unexpose deletes the definition with its last target.
Unbound(defs, a, deleteIfNoTargets) ==
    IF deleteIfNoTargets THEN [defs EXCEPT ![a] = NoDef] ELSE defs

\* skupper service delete, of a definition of any origin.
Removed(defs, a) == [defs EXCEPT ![a] = NoDef]
=============================================================================
