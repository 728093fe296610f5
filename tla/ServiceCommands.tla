--------------------------- MODULE ServiceCommands ---------------------------
(***************************************************************************)
(* The commands that edit the service definitions, with what SiteSync and  *)
(* ServiceFile leave out: ports, protocols, targets and their validation.  *)
(* expose and bind look a definition up, change their copy of it and write *)
(* it into the file as that is then; create, unbind, unexpose and delete   *)
(* read and write at once.  ServiceFile has the steps within the latter.   *)
(*                                                                         *)
(* A port 0 stands for one that is not given; a target without a port of   *)
(* its own is reached at the port of its service.                          *)
(***************************************************************************)
EXTENDS Naturals

CONSTANTS
    Cli,           \* processes that expose or bind
    Addr,          \* service addresses
    Container,     \* names of containers
    HostService,   \* names of services of the host
    Given,         \* port numbers that users and peers give
    MaxPort,       \* the largest valid port
    HttpPort,      \* 80, for protocol http
    DeducedPort,   \* 9090, for a container that exposes some port
    Peer,          \* the origin of definitions that are not local
    Local,
    NoDef,         \* no definition
    NotBound       \* not a target of the definition

ASSUME PortsAssumption ==
    /\ Given \subseteq Nat /\ MaxPort \in Nat
    /\ HttpPort \in 1..MaxPort /\ DeducedPort \in 1..MaxPort
    /\ NotBound \notin Nat
ASSUME OriginAssumption == Peer # Local

Port == Given \cup {0, HttpPort, DeducedPort}
Protocol == {"tcp", "http"}
Target == ({"container"} \X Container) \cup ({"host-service"} \X HostService)

Definition == [port : Port, protocol : Protocol, origin : {Local, Peer},
               targets : [Target -> Port \cup {NotBound}]]

ASSUME NoDefAssumption == NoDef \notin Definition

VARIABLES
    file,     \* the definitions
    cmd,      \* for each process, the definition it is about to bind a target to
    tainted   \* history: somebody has given an invalid port to bind or expose

vars == <<file, cmd, tainted>>

Idle == [addr |-> NoDef, service |-> NoDef]

NoTargets == [t \in Target |-> NotBound]
NewDefinition(port, protocol, origin) ==
    [port |-> port, protocol |-> protocol, origin |-> origin, targets |-> NoTargets]

Init ==
    /\ file = [a \in Addr |-> NoDef]
    /\ cmd = [c \in Cli |-> Idle]
    /\ tainted = FALSE

Bound(def) == {t \in Target : def.targets[t] # NotBound}
Effective(def, t) == IF def.targets[t] = 0 THEN def.port ELSE def.targets[t]

\* A variant with a mistake: the port of the service is not looked at.
ValidTargets(def) == \A t \in Bound(def) : def.targets[t] <= MaxPort

\* validateServiceInterface.  Options for http only are left out, and so are
\* protocols that it refuses.
Valid(def) ==
    /\ def.port <= MaxPort
    /\ \A t \in Bound(def) : def.targets[t] <= MaxPort

-----------------------------------------------------------------------------
(* ServiceInterfaceBind, of a copy of a definition.                        *)

\* The service's port: one that it has is kept, otherwise the target's is taken,
\* which may be deduced of a container, or the default of protocol http.
PortAfter(service, protocol, targetPort, exposes) ==
    IF service.port # 0 THEN service.port
    ELSE IF targetPort # 0 THEN targetPort
    ELSE IF exposes THEN DeducedPort ELSE IF protocol = "http" THEN HttpPort ELSE 0

\* A variant with a mistake: a service without a port is let through.
AcceptsWithoutPort(service, protocol, port) ==
    Valid(service) /\ protocol \in {"", service.protocol}

Accepts(service, protocol, port) ==
    /\ Valid(service)
    /\ protocol \in {"", service.protocol}
    /\ port # 0

\* A variant with a mistake: the targets that were bound before are lost.
WithOnlyTarget(service, t, port, targetPort) ==
    [service EXCEPT !.port = port,
                    !.targets = [NoTargets EXCEPT
                        ![t] = IF service.port = 0 THEN 0 ELSE targetPort]]

\* A variant with a mistake: the target is left at the port of the service.
WithTargetAlone(service, t, port, targetPort) ==
    [service EXCEPT !.port = port, !.targets[t] = 0]

\* A target keeps a port of its own only if the service has had one.
WithTarget(service, t, port, targetPort) ==
    [service EXCEPT !.port = port,
                    !.targets[t] = IF service.port = 0 THEN 0 ELSE targetPort]

\* A variant with a mistake: the origin stays what it was.
WriteKeepingOrigin(a, service) == file' = [file EXCEPT ![a] = service]

\* updateServiceInterface: whatever it was, the definition is local now.
Write(a, service) == file' = [file EXCEPT ![a] = [service EXCEPT !.origin = Local]]

-----------------------------------------------------------------------------
(* The commands.                                                           *)

\* A variant with a mistake: bind goes on with a definition that is not there.
InspectToBindAny(c, a) ==
    /\ cmd[c] = Idle
    /\ cmd' = [cmd EXCEPT ![c] = [addr |-> a, service |-> file[a]]]
    /\ UNCHANGED <<file, tainted>>

\* bind looks up a definition, which has to be there.
InspectToBind(c, a) ==
    /\ cmd[c] = Idle
    /\ file[a] # NoDef
    /\ cmd' = [cmd EXCEPT ![c] = [addr |-> a, service |-> file[a]]]
    /\ UNCHANGED <<file, tainted>>

\* expose makes one if there is none, and takes one that came from a peer as its own.
InspectToExpose(c, a, port, protocol) ==
    /\ cmd[c] = Idle
    /\ cmd' = [cmd EXCEPT ![c] = [addr |-> a, service |->
                    IF file[a] = NoDef THEN NewDefinition(port, protocol, Local)
                                       ELSE [file[a] EXCEPT !.origin = Local]]]
    /\ UNCHANGED <<file, tainted>>

\* What was looked up may have changed since.  exposes: the target is a container
\* and exposes some port.  A container that does not exist ends the command too.
Bind(c, t, protocol, targetPort, exposes) ==
    LET service == cmd[c].service
        port == PortAfter(service, protocol, targetPort, exposes)
    IN  /\ cmd[c] # Idle
        /\ exposes => t[1] = "container"
        /\ IF Accepts(service, protocol, port)
             THEN Write(cmd[c].addr, WithTarget(service, t, port, targetPort))
             ELSE UNCHANGED file
        /\ tainted' = (tainted \/ targetPort > MaxPort)
        /\ cmd' = [cmd EXCEPT ![c] = Idle]

\* The target cannot be read, or the command is interrupted.
BindFails(c) ==
    /\ cmd[c] # Idle
    /\ cmd' = [cmd EXCEPT ![c] = Idle]
    /\ UNCHANGED <<file, tainted>>

\* A definition that is there is left alone.
CreateService(a, port, protocol) ==
    LET service == NewDefinition(port, protocol, Local)
    IN  /\ Valid(service)
        /\ file[a] = NoDef
        /\ Write(a, service)
        /\ UNCHANGED <<cmd, tainted>>

Named(def, name) == {t \in Bound(def) : t[2] = name}
Without(def, name) ==
    [def EXCEPT !.targets =
        [t \in Target |-> IF t[2] = name THEN NotBound ELSE def.targets[t]]]

\* A variant with a mistake: unexpose deletes the definition with any target.
UnbindAll(a, name, deleteIfNoTargets) ==
    /\ file[a] # NoDef
    /\ Named(file[a], name) # {}
    /\ file' = [file EXCEPT ![a] =
            IF deleteIfNoTargets THEN NoDef ELSE Without(@, name)]
    /\ UNCHANGED <<cmd, tainted>>

\* unbind and unexpose, the latter with deleteIfNoTargets.  The type of the target
\* is not compared: a container and a service of the host of one name both go.
Unbind(a, name, deleteIfNoTargets) ==
    /\ file[a] # NoDef
    /\ Named(file[a], name) # {}
    /\ file' = [file EXCEPT ![a] =
            IF deleteIfNoTargets /\ Bound(@) = Named(@, name) THEN NoDef
                                                              ELSE Without(@, name)]
    /\ UNCHANGED <<cmd, tainted>>

RemoveService(a) ==
    /\ file[a] # NoDef
    /\ file' = [file EXCEPT ![a] = NoDef]
    /\ UNCHANGED <<cmd, tainted>>

\* The controller files, changes and withdraws what peers announce, see SiteSync;
\* definitions are announced without targets.
Announced(a, port, protocol) ==
    /\ file[a] # NoDef => file[a].origin = Peer
    /\ file' = [file EXCEPT ![a] = NewDefinition(port, protocol, Peer)]
    /\ tainted' = (tainted \/ port > MaxPort)
    /\ UNCHANGED cmd

Withdrawn(a) ==
    /\ file[a] # NoDef
    /\ file[a].origin = Peer
    /\ file' = [file EXCEPT ![a] = NoDef]
    /\ UNCHANGED <<cmd, tainted>>

Binds(c) ==
    \E t \in Target, protocol \in Protocol \cup {""}, targetPort \in Given \cup {0},
       exposes \in BOOLEAN : Bind(c, t, protocol, targetPort, exposes)

Command ==
    \/ \E c \in Cli : Binds(c) \/ BindFails(c)
    \/ \E c \in Cli, a \in Addr : InspectToBind(c, a)
    \/ \E a \in Addr, port \in Given \cup {0}, protocol \in Protocol :
            \/ CreateService(a, port, protocol)
            \/ \E c \in Cli : InspectToExpose(c, a, port, protocol)
    \/ \E a \in Addr, name \in Container \cup HostService, last \in BOOLEAN :
            Unbind(a, name, last)
    \/ \E a \in Addr : RemoveService(a)

Controller ==
    \E a \in Addr :
        \/ \E port \in Given \cup {0}, protocol \in Protocol : Announced(a, port, protocol)
        \/ Withdrawn(a)

Next == Command \/ Controller

Spec == Init /\ [][Next]_vars

-----------------------------------------------------------------------------
(* Properties.                                                             *)

\* Values of the right kind.
TypeOK ==
    /\ file \in [Addr -> Definition \cup {NoDef}]
    /\ cmd \in [Cli -> [addr : Addr, service : Definition] \cup {Idle}]
    /\ tainted \in BOOLEAN

\* A definition that has targets is local, as SiteSync takes for granted, and has a
\* port, whatever is given or left out, and however old the copy that is written.
TargetsAreServable ==
    \A a \in Addr :
        file[a] # NoDef /\ Bound(file[a]) # {} => file[a].origin = Local /\ file[a].port # 0

\* As long as nobody has given an invalid port of a target, all definitions pass the
\* validation that every later expose and bind of them begins with ("Bad target port
\* number", "Port %d is outside valid range.", serviceinterface_update.go).
StaysUsable ==
    ~tainted => \A a \in Addr : file[a] # NoDef =>
        /\ file[a].port \in 0..MaxPort
        /\ \A t \in Bound(file[a]) : Effective(file[a], t) \in 0..MaxPort

\* A bind that is accepted leaves its target reachable at the port that was given for
\* it, in whichever of the three places it ends up.
BoundAsAsked ==
    [][\A c \in Cli, t \in Target, protocol \in Protocol \cup {""},
          targetPort \in Given \ {0}, exposes \in BOOLEAN :
            /\ Bind(c, t, protocol, targetPort, exposes)
            /\ file' # file
            => Effective(file'[cmd[c].addr], t) = targetPort]_vars

\* The targets of the service at address a stay bound, and are reached at their ports.
Undisturbed(a, targets) ==
    \A t \in targets :
        /\ file'[a] # NoDef
        /\ t \in Bound(file'[a])
        /\ Effective(file'[a], t) = Effective(file[a], t)

\* A target stays bound, and at its port, while others are bound to its service, unless
\* the copy that is written is an old one, and while targets of other names are unbound.
OthersStay ==
    [][/\ \A c \in Cli, t \in Target, protocol \in Protocol \cup {""},
             targetPort \in Given \cup {0}, exposes \in BOOLEAN :
            /\ Bind(c, t, protocol, targetPort, exposes)
            /\ cmd[c].service = file[cmd[c].addr]
            => Undisturbed(cmd[c].addr, Bound(file[cmd[c].addr]) \ {t})
       /\ \A a \in Addr, name \in Container \cup HostService, last \in BOOLEAN :
            Unbind(a, name, last) => Undisturbed(a, Bound(file[a]) \ Named(file[a], name))
      ]_vars

\* The definitions as the synchronisation sees them, without targets.
Sync == INSTANCE SyncRules WITH Site <- {Peer}, Shape <- Port \X Protocol
View == [a \in Addr |-> IF file[a] = NoDef THEN NoDef
            ELSE [shape |-> <<file[a].port, file[a].protocol>>, origin |-> file[a].origin]]

\* What a command makes of them is one of the edits that SiteSync has for the commands.
CommandEdits ==
    [][Command =>
        \/ UNCHANGED View
        \/ \E a \in Addr :
            \/ \E sh \in Port \X Protocol :
                    View' \in {Sync!Created(View, a, sh), Sync!Updated(View, a, sh)}
            \/ Sync!IsLocal(View, a) /\ View' = Sync!Unbound(View, a, TRUE)
            \/ Sync!Present(View, a) /\ View' = Sync!Removed(View, a)]_vars
=============================================================================
