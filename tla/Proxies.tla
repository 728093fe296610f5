-------------------------------- MODULE Proxies --------------------------------
(***************************************************************************)
(* The controller's proxy containers: what a pass of the file watcher      *)
(* (processServiceDefs) makes of the service definitions it has read.  It  *)
(* brings the bindings in line with the definitions, and then, one Docker  *)
(* call after the other, the containers in line with the bindings.         *)
(*                                                                         *)
(* A call may fail, and a call that fails for a timeout may have been      *)
(* carried out; the controller may stop between any two calls; the file    *)
(* and the user's own containers change meanwhile.                         *)
(*                                                                         *)
(* All services have the protocol tcp.  A proxy's router configuration is  *)
(* the port it listens on and its egress connectors, and their order: the  *)
(* controller compares the text of two configurations.                     *)
(***************************************************************************)
EXTENDS Naturals, FiniteSets

CONSTANTS
    Addr,         \* service addresses; a proxy is named after its address
    Name,         \* names of the targets, of containers and of host services
    Ip,           \* what a host service's name is mapped to in its proxy
    InContainer,  \* in the place of an Ip, for a target that is a container
    Port,         \* ports; a target's port is 0 when it is its service's
    None,         \* absence: of a definition, a target, a container
    User,         \* a container that is not a proxy
    MaxChanges,   \* bound on the changes of the definitions
    MaxMoves,     \* bound on the containers that users start and remove
    MaxFaults     \* bound on the failing calls and stops of the controller

ASSUME PortAssumption == Port \subseteq Nat \ {0}
ASSUME NoneAssumption == None \notin Addr \cup Nat \cup {User}
ASSUME KindAssumption == InContainer \notin Ip
ASSUME BoundsAssumption == MaxChanges \in Nat /\ MaxMoves \in Nat /\ MaxFaults \in Nat

Target == [host : Name, at : Ip \cup {InContainer}]
TargetPort == Port \cup {0}

\* A definition, and what the controller binds for it.  Only a definition of this
\* site has targets.
Def == [local : BOOLEAN, port : Port, targets : [Target -> TargetPort \cup {None}]]
NoTargets == [t \in Target |-> None]
Defs == {d \in Def : ~d.local => d.targets = NoTargets}

TargetsOf(b) == {t \in Target : b.targets[t] # None}

VARIABLES
    file,       \* the service definitions
    pending,    \* a change of the file was not read yet
    bindings,   \* the controller's bindings, for every address
    containers, \* Docker's containers by name: proxies, and the users'
    attached,   \* names of users' containers attached to the skupper network
    newcomers,  \* history: users' containers started since the pass began
    phase,      \* of the controller: down, idle, or in a pass: ensure, prune
    todo,       \* addresses, then proxies, the pass has still to look at
    call,       \* the Docker call to make next, for cur
    cur,
    want,       \* the container to create
    clean,      \* no call of the last pass has failed
    changes, moves, faults

passVars == <<phase, todo, call, cur, want>>
dockerVars == <<containers, attached>>
budgets == <<changes, moves, faults>>
vars == <<file, pending, bindings, containers, attached, newcomers,
          phase, todo, call, cur, want, clean, changes, moves, faults>>

-----------------------------------------------------------------------------
(* From a definition to a container.                                       *)

\* getTargetPort.
PortOf(d, t) == IF d.targets[t] = 0 THEN d.port ELSE d.targets[t]

\* A variant with a mistake: a target that is already bound keeps its port.
UpdatedKeepingPorts(b, d) ==
    [d EXCEPT !.targets = [t \in Target |->
        IF d.targets[t] = None THEN None
        ELSE IF b.targets[t] # None THEN b.targets[t] ELSE PortOf(d, t)]]

\* updateServiceBindings, of an address that has bindings: they take every field
\* of the definition, the ports of the targets spelt out.
Updated(b, d) ==
    [d EXCEPT !.targets = [t \in Target |->
        IF d.targets[t] = None THEN None ELSE PortOf(d, t)]]

\* The bindings after the file has been read; a new address takes its definition
\* as it is.
Bound(binds, defs) ==
    [a \in Addr |->
        IF defs[a] = None \/ binds[a] = None THEN defs[a] ELSE Updated(binds[a], defs[a])]

\* The router configuration of a proxy.  A connector is named after its host, so
\* that of two targets with one host a single one gets its connector: which one,
\* and in which order the connectors are written, is the order of a Go map.
Hosts(b) == {t.host : t \in TargetsOf(b)}
Connectors(b) ==
    {e \in [Hosts(b) -> Port] :
        \A h \in Hosts(b) : \E t \in TargetsOf(b) : t.host = h /\ e[h] = PortOf(b, t)}
Orders(S) ==
    {o \in [S -> 1..Cardinality(S)] : \A h, k \in S : o[h] = o[k] => h = k}
Configs(b) ==
    {[port |-> b.port, egress |-> e, order |-> o] :
        e \in Connectors(b), o \in Orders(Hosts(b))}

\* The entries of the proxy's hosts file.
ExtraHosts(b) == {<<t.host, t.at>> : t \in {u \in TargetsOf(b) : u.at # InContainer}}

\* NewProxyContainer: created, and not started.
Proxy(b, config) == [config |-> config, hosts |-> ExtraHosts(b), running |-> FALSE]

Names == Addr \cup Name
Proxies == [config : UNION {Configs(b) : b \in Defs}, hosts : SUBSET (Name \X Ip), running : BOOLEAN]

ASSUME AbsenceAssumption == None \notin Defs /\ {None, User} \cap Proxies = {}

IsProxy(c) == c \notin {None, User}

\* getProxies: the containers with the proxies' label, whatever their state.
Listed(conts) == {a \in Addr : IsProxy(conts[a])}

\* The containers of a proxy's targets.
Wanted(b) == {t.host : t \in {u \in TargetsOf(b) : u.at = InContainer}}

-----------------------------------------------------------------------------
Init ==
    /\ file = [a \in Addr |-> None]
    /\ pending = FALSE
    /\ bindings = [a \in Addr |-> None]
    /\ containers = [n \in Addr \cup Name |-> None]
    /\ attached = {}
    /\ newcomers = {}
    /\ phase = "down"
    /\ todo = {}
    /\ call = "none"
    /\ cur = None
    /\ want = None
    /\ clean = TRUE
    /\ changes = 0 /\ moves = 0 /\ faults = 0

\* A command or an announcement changes a definition.
Change(a, d) ==
    /\ changes < MaxChanges
    /\ changes' = changes + 1
    /\ file' = [file EXCEPT ![a] = d]
    /\ pending' = TRUE
    /\ UNCHANGED <<bindings, dockerVars, newcomers, passVars, clean, moves, faults>>

\* A user starts a container, under any free name, or removes one.
UserStarts(n) ==
    /\ moves < MaxMoves
    /\ containers[n] = None
    /\ moves' = moves + 1
    /\ containers' = [containers EXCEPT ![n] = User]
    /\ newcomers' = newcomers \cup {n}
    /\ UNCHANGED <<file, pending, bindings, attached, passVars, clean, changes, faults>>

UserRemoves(n) ==
    /\ moves < MaxMoves
    /\ containers[n] = User
    /\ moves' = moves + 1
    /\ containers' = [containers EXCEPT ![n] = None]
    /\ attached' = attached \ {n}
    /\ newcomers' = newcomers \ {n}
    /\ UNCHANGED <<file, pending, bindings, passVars, clean, changes, faults>>

-----------------------------------------------------------------------------
(* A pass of the watcher.                                                  *)

\* A started controller reads the file before it waits for changes of it.
Start ==
    /\ phase = "down"
    /\ phase' = "idle"
    /\ pending' = TRUE
    /\ UNCHANGED <<file, bindings, dockerVars, newcomers, todo, call, cur, want, clean, budgets>>

ReadDefinitions ==
    /\ phase = "idle"
    /\ pending
    /\ pending' = FALSE
    /\ bindings' = Bound(bindings, file)
    /\ phase' = "ensure"
    /\ todo' = {a \in Addr : file[a] # None}
    /\ clean' = TRUE
    /\ newcomers' = {}
    /\ UNCHANGED <<file, dockerVars, call, cur, want, budgets>>

Fault ==
    /\ faults < MaxFaults
    /\ faults' = faults + 1

\* A variant with a mistake: the call is still to be made.
DoneKeepingCall ==
    /\ todo' = todo \ {cur}
    /\ cur' = None
    /\ want' = None
    /\ UNCHANGED <<phase, call>>

\* The address or the proxy in hand is dealt with.
Done ==
    /\ todo' = todo \ {cur}
    /\ call' = "none"
    /\ cur' = None
    /\ want' = None
    /\ UNCHANGED phase

\* A variant with a mistake: the pass does not go on to the next one.
GiveUpAndRetry ==
    /\ clean' = FALSE
    /\ call' = "none"
    /\ cur' = None
    /\ want' = None
    /\ UNCHANGED <<phase, todo>>

\* An error is logged, and ends the work on the one in hand.
GiveUp == Done /\ clean' = FALSE

GoOnWith(next) == call' = next /\ UNCHANGED <<phase, todo, cur, want>>

Leave == UNCHANGED <<file, pending, bindings, newcomers, changes, moves>>

\* A variant with a mistake: targets are attached when the proxy is made, never later.
ToAttachAtFirst(a) ==
    IF a \in Listed(containers) THEN {}
    ELSE {h \in Wanted(bindings[a]) : containers[h] = User} \ attached

\* Targets of a service of this site that are running and not attached yet.
ToAttach(a) == {h \in Wanted(bindings[a]) : containers[h] = User} \ attached

\* ensureProxyFor, up to its first call that changes a proxy.
Decide(a, exists) ==
    \E config \in Configs(bindings[a]) :
        IF exists /\ containers[a].config = config
          THEN /\ todo' = todo \ {a}
               /\ UNCHANGED <<phase, call, cur, want>>
          ELSE /\ call' = IF exists THEN "stop" ELSE "create"
               /\ cur' = a
               /\ want' = Proxy(bindings[a], config)
               /\ UNCHANGED <<phase, todo>>

Ensuring(a) == phase = "ensure" /\ call = "none" /\ a \in todo

Ensure(a) ==
    /\ Ensuring(a)
    /\ attached' = attached \cup ToAttach(a)
    /\ Decide(a, a \in Listed(containers))
    /\ UNCHANGED <<containers, clean, faults>>
    /\ Leave

\* One of its calls fails.  Listing the proxies: the proxy is taken for absent.
\* Inspecting the network or the proxy: an error, before or after the targets
\* have been attached.  Attaching a target: the work goes on.
EnsureWithFault(a) ==
    /\ Ensuring(a)
    /\ Fault
    /\ clean' = FALSE
    /\ \/ attached' = attached \cup ToAttach(a) /\ Decide(a, FALSE)
       \/ /\ bindings[a].local
          /\ UNCHANGED <<attached, phase, call, cur, want>>
          /\ todo' = todo \ {a}
       \/ /\ a \in Listed(containers)
          /\ attached' = attached \cup ToAttach(a)
          /\ UNCHANGED <<phase, call, cur, want>>
          /\ todo' = todo \ {a}
       \/ /\ \E h \in ToAttach(a) : attached' = attached \cup (ToAttach(a) \ {h})
          /\ Decide(a, a \in Listed(containers))
    /\ UNCHANGED containers
    /\ Leave

\* The calls that change a container.
Set(c) == containers' = [containers EXCEPT ![cur] = c]
Halted(c) == IF IsProxy(c) THEN [c EXCEPT !.running = FALSE] ELSE c

Create ==
    /\ call = "create"
    /\ containers[cur] = None
    /\ Set(want)
    /\ GoOnWith("start")
    /\ UNCHANGED <<attached, clean, faults>>
    /\ Leave

NameIsTaken ==
    /\ call = "create"
    /\ containers[cur] # None
    /\ GiveUp
    /\ UNCHANGED <<dockerVars, faults>>
    /\ Leave

StartProxy ==
    /\ call = "start"
    /\ Set([containers[cur] EXCEPT !.running = TRUE])
    /\ Done
    /\ UNCHANGED <<attached, clean, faults>>
    /\ Leave

Stop ==
    /\ call = "stop"
    /\ Set(Halted(containers[cur]))
    /\ GoOnWith("remove")
    /\ UNCHANGED <<attached, clean, faults>>
    /\ Leave

Remove ==
    /\ call = "remove"
    /\ Set(None)
    /\ IF phase = "ensure" THEN GoOnWith("create") ELSE Done
    /\ UNCHANGED <<attached, clean, faults>>
    /\ Leave

\* A call is reported to have failed, and may have been carried out.
CallFails ==
    /\ call # "none"
    /\ Fault
    /\ GiveUp
    /\ \/ UNCHANGED containers
       \/ call = "create" /\ containers[cur] = None /\ Set(want)
       \/ call = "start" /\ Set([containers[cur] EXCEPT !.running = TRUE])
       \/ call = "stop" /\ Set(Halted(containers[cur]))
       \/ call = "remove" /\ Set(None)
    /\ UNCHANGED attached
    /\ Leave

\* A variant with a mistake: the containers are not filtered by the label.
SuperfluousUnfiltered == {a \in Addr : containers[a] # None /\ bindings[a] = None}

\* All services are dealt with: proxies that have none are to go.
Superfluous == {a \in Listed(containers) : bindings[a] = None}

EndEnsure ==
    /\ phase = "ensure" /\ call = "none" /\ todo = {}
    /\ phase' = "prune"
    /\ \/ todo' = Superfluous /\ UNCHANGED <<clean, faults>>
       \/ todo' = {} /\ Fault /\ clean' = FALSE
    /\ UNCHANGED <<dockerVars, call, cur, want>>
    /\ Leave

Prune(a) ==
    /\ phase = "prune" /\ call = "none" /\ a \in todo
    /\ call' = "stop"
    /\ cur' = a
    /\ UNCHANGED <<dockerVars, phase, todo, want, clean, faults>>
    /\ Leave

EndPrune ==
    /\ phase = "prune" /\ call = "none" /\ todo = {}
    /\ phase' = "idle"
    /\ UNCHANGED <<dockerVars, todo, call, cur, want, clean, faults>>
    /\ Leave

\* The controller stops, between two calls.
Crash ==
    /\ phase # "down"
    /\ Fault
    /\ phase' = "down"
    /\ bindings' = [a \in Addr |-> None]
    /\ todo' = {}
    /\ call' = "none"
    /\ cur' = None
    /\ want' = None
    /\ clean' = FALSE
    /\ UNCHANGED <<file, pending, dockerVars, newcomers, changes, moves>>

-----------------------------------------------------------------------------
Next ==
    \/ \E a \in Addr, d \in Defs \cup {None} : Change(a, d)
    \/ \E n \in Addr \cup Name : UserStarts(n) \/ UserRemoves(n)
    \/ Start \/ ReadDefinitions
    \/ \E a \in Addr : Ensure(a) \/ EnsureWithFault(a) \/ Prune(a)
    \/ Create \/ NameIsTaken \/ StartProxy \/ Stop \/ Remove \/ CallFails
    \/ EndEnsure \/ EndPrune \/ Crash

Spec == Init /\ [][Next]_vars

\* As long as the controller runs, its goroutine goes on and its calls return.  Nothing
\* is assumed of a controller that is down: its container has no restart policy.
Fairness ==
    /\ WF_vars(ReadDefinitions)
    /\ WF_vars(\E a \in Addr : Ensure(a) \/ Prune(a))
    /\ WF_vars(Create \/ NameIsTaken \/ StartProxy \/ Stop \/ Remove)
    /\ WF_vars(EndEnsure) /\ WF_vars(EndPrune)

FairSpec == Spec /\ Fairness

-----------------------------------------------------------------------------
(* Properties.                                                             *)

\* Values of the right kind; a call is made for the address or the proxy in hand,
\* which is one the pass has still to look at, and proxies stand under addresses.
TypeOK ==
    /\ file \in [Addr -> Defs \cup {None}]
    /\ bindings \in [Addr -> Defs \cup {None}]
    /\ pending \in BOOLEAN /\ clean \in BOOLEAN
    /\ \A n \in DOMAIN containers :
            IsProxy(containers[n]) => n \in Addr /\ containers[n] \in Proxies
    /\ attached \subseteq Names /\ newcomers \subseteq Names
    /\ phase \in {"down", "idle", "ensure", "prune"}
    /\ call \in {"none", "create", "start", "stop", "remove"}
    /\ call = "none" <=> cur = None
    /\ cur # None => cur \in todo /\ phase \in {"ensure", "prune"}
    /\ phase = "ensure" => \A a \in todo : bindings[a] # None
    /\ want # None => want \in Proxies
    /\ changes \in 0..MaxChanges /\ moves \in 0..MaxMoves /\ faults \in 0..MaxFaults

\* The controller has read the file and has ended its pass.
Settled == phase = "idle" /\ ~pending

Serves(c, d) == c.config.port = d.port /\ c.config.egress \in Connectors(d)

\* After a pass in which no call has failed there is exactly one proxy for every
\* service, and it is configured for the service's definition in the file, whatever
\* earlier passes, failures and stops of the controller have left behind; as long as
\* nothing has failed, it runs.
InStep ==
    Settled /\ clean =>
        \A a \in Addr :
            IF file[a] = None THEN ~IsProxy(containers[a])
            ELSE /\ IsProxy(containers[a])
                 /\ Serves(containers[a], file[a])
                 /\ faults = 0 => containers[a].running

\* Containers of the user are never removed or replaced by the controller, not even
\* when they have the name of a service (getProxies lists by label).
UserContainersStay ==
    [][\A n \in Names : containers[n] = User /\ containers'[n] # User => UserRemoves(n)]_vars

\* After a pass in which no call has failed, the targets of this site's services are
\* on the skupper network, but for containers started since the pass began.
TargetsAttached ==
    Settled /\ clean =>
        \A a \in Addr : file[a] # None =>
            \A h \in Wanted(file[a]) :
                containers[h] = User => h \in attached \cup newcomers

\* Every pass ends, whatever fails in it, and once the definitions have stopped
\* changing the controller has read the last of them, unless it is down.
PassesEnd == <>[](phase # "down" => Settled)

\* A service that was exposed under the name of its target container, which is the
\* address that skupper expose chooses, has its proxy unless a call has failed.
ExposedIsServed ==
    Settled /\ faults = 0 =>
        \A a \in Addr : file[a] # None /\ a \in Wanted(file[a]) => IsProxy(containers[a])
=============================================================================
