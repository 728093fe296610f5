------------------------ MODULE ServiceCommandsProofs ------------------------
(***************************************************************************)
(* Proofs about ServiceCommands, for any number of processes, addresses    *)
(* and targets and any ports.  A copy that a command holds may be as old   *)
(* as one likes: what saves the file is that bind judges the copy it       *)
(* writes, so that nothing need be known of the copies but their type.     *)
(***************************************************************************)
EXTENDS ServiceCommands, TLAPS

USE PortsAssumption, OriginAssumption, NoDefAssumption DEF Port

\* A new definition has no target.
LEMMA NewDefinitionFacts ==
    ASSUME NEW port \in Port, NEW protocol \in Protocol, NEW origin \in {Local, Peer}
    PROVE  LET def == NewDefinition(port, protocol, origin)
           IN  /\ def \in Definition
               /\ Bound(def) = {}
               /\ def.port = port /\ def.origin = origin
BY DEF NewDefinition, NoTargets, Definition, Bound

\* What a bind that is accepted writes: a definition with a port, with valid ports if
\* the port given for the target is valid, and with the target at the port given.
LEMMA AcceptedFacts ==
    ASSUME NEW service \in Definition, NEW t \in Target, NEW protocol,
           NEW targetPort \in Given \cup {0}, NEW exposes,
           Accepts(service, protocol, PortAfter(service, protocol, targetPort, exposes))
    PROVE  LET port == PortAfter(service, protocol, targetPort, exposes)
               def == [WithTarget(service, t, port, targetPort) EXCEPT !.origin = Local]
           IN  /\ def \in Definition
               /\ def.origin = Local /\ def.port = port /\ port # 0
               /\ targetPort <= MaxPort => Valid(def)
               /\ targetPort # 0 => Effective(def, t) = targetPort
<1> DEFINE port == PortAfter(service, protocol, targetPort, exposes)
           own == IF service.port = 0 THEN 0 ELSE targetPort
           targets == [service.targets EXCEPT ![t] = own]
           def == [service EXCEPT !.port = port, !.targets[t] = own, !.origin = Local]
<1>1. port \in Port
  BY DEF PortAfter, Definition
<1>2. port # 0 /\ service.port <= MaxPort /\ \A u \in Bound(service) : service.targets[u] <= MaxPort
  BY DEF Accepts, Valid
<1>3. own \in Given \cup {0}
  OBVIOUS
<1>4. [WithTarget(service, t, port, targetPort) EXCEPT !.origin = Local] = def
  <2> HIDE DEF port
  <2> QED BY <1>1 DEF WithTarget, Definition
<1>5. /\ def \in Definition /\ def.origin = Local /\ def.port = port
      /\ def.targets[t] = own
      /\ \A u \in Target : u # t => def.targets[u] = service.targets[u]
  <2> HIDE DEF port, own
  <2>1. service.targets \in [Target -> Port \cup {NotBound}]
    BY DEF Definition
  <2>2. /\ targets \in [Target -> Port \cup {NotBound}] /\ targets[t] = own
        /\ \A u \in Target : u # t => targets[u] = service.targets[u]
    BY <2>1, <1>3
  <2>3. def = [service EXCEPT !.port = port, !.targets = targets, !.origin = Local]
    BY DEF Definition
  <2> HIDE DEF def, targets
  <2>4. def \in Definition /\ def.origin = Local /\ def.port = port /\ def.targets = targets
    BY <1>1, <2>2, <2>3 DEF Definition
  <2> QED BY <2>2, <2>4
<1>6. ASSUME targetPort <= MaxPort PROVE Valid(def)
  <2>1. port <= MaxPort
    BY <1>2, <1>6 DEF PortAfter
  <2>2. own <= MaxPort
    BY <1>6
  <2> HIDE DEF def, port, own
  <2>3. ASSUME NEW u \in Bound(def) PROVE def.targets[u] <= MaxPort
    <3>1. CASE u = t
      BY <3>1, <1>5, <2>2
    <3>2. CASE u # t
      BY <3>2, <1>2, <1>5 DEF Bound
    <3> QED BY <3>1, <3>2
  <2> QED BY <2>1, <2>3, <1>5 DEF Valid
<1>7. ASSUME targetPort # 0 PROVE Effective(def, t) = targetPort
  <2>1. service.port = 0 => port = targetPort
    BY <1>7 DEF PortAfter
  <2> HIDE DEF def, port
  <2> QED BY <2>1, <1>5, <1>7 DEF Effective
<1> HIDE DEF def, port
<1> QED BY <1>2, <1>4, <1>5, <1>6, <1>7 DEF port

\* It has the targets that the copy had, as they were.
LEMMA OtherTargetsAreKept ==
    ASSUME NEW service \in Definition, NEW t \in Target, NEW port, NEW targetPort,
           NEW u \in Target, u # t
    PROVE  [WithTarget(service, t, port, targetPort) EXCEPT !.origin = Local].targets[u]
                = service.targets[u]
BY DEF WithTarget, Definition

\* What is left when the targets of a name are taken away.
LEMMA WithoutFacts ==
    ASSUME NEW def \in Definition, NEW name
    PROVE  LET rest == Without(def, name)
           IN  /\ rest \in Definition
               /\ rest.origin = def.origin /\ rest.port = def.port
               /\ Bound(rest) \subseteq Bound(def)
               /\ \A t \in Bound(rest) : rest.targets[t] = def.targets[t]
<1> DEFINE rest == Without(def, name)
<1>1. /\ rest \in Definition /\ rest.origin = def.origin /\ rest.port = def.port
      /\ rest.targets = [t \in Target |-> IF t[2] = name THEN NotBound ELSE def.targets[t]]
  BY DEF Without, Definition
<1> HIDE DEF rest
<1>2. QED BY <1>1 DEF Bound, rest

-----------------------------------------------------------------------------
(* A step changes the definition of at most one address, to one of these.  *)

\* What is required of a definition in the file.
Sound(def, hurt) ==
    /\ def \in Definition
    /\ Bound(def) # {} => def.origin = Local /\ def.port # 0
    /\ ~hurt => Valid(def)

\* All of the definitions are sound.
AllSound == \A a \in Addr : file[a] # NoDef => Sound(file[a], tainted)

IInv == TypeOK /\ AllSound

\* A step that writes one address, with a sound definition or with none.
Writes(a, def) ==
    /\ file' = [file EXCEPT ![a] = def]
    /\ def # NoDef => Sound(def, tainted')
    /\ tainted' \in BOOLEAN /\ (tainted => tainted')

LEMMA WriteKeepsIInv ==
    ASSUME IInv, NEW a \in Addr, NEW def, Writes(a, def),
           cmd' \in [Cli -> [addr : Addr, service : Definition] \cup {Idle}]
    PROVE  IInv'
<1>1. file \in [Addr -> Definition \cup {NoDef}] /\ def \in Definition \cup {NoDef}
  BY DEF IInv, TypeOK, Writes, Sound
<1>2. TypeOK'
  BY <1>1 DEF TypeOK, Writes
<1>3. ASSUME NEW b \in Addr, file'[b] # NoDef PROVE Sound(file'[b], tainted')
  <2>1. CASE b = a
    <3>1. file'[b] = def
      BY <2>1, <1>1 DEF Writes
    <3> QED BY <3>1, <1>3 DEF Writes
  <2>2. CASE b # a
    <3>1. file'[b] = file[b] /\ Sound(file[b], tainted)
      BY <2>2, <1>1, <1>3 DEF IInv, AllSound, Writes
    <3> QED BY <3>1 DEF Sound, Writes
  <2> QED BY <2>1, <2>2
<1> QED BY <1>2, <1>3 DEF IInv, AllSound

LEMMA InitIInv == Init => IInv
BY DEF Init, IInv, TypeOK, AllSound

\* Each action writes a sound definition, deletes one or leaves the file alone.
LEMMA InspectKeepsIInv ==
    ASSUME IInv, NEW c \in Cli, NEW a \in Addr,
           \/ InspectToBind(c, a)
           \/ \E port \in Given \cup {0}, protocol \in Protocol :
                  InspectToExpose(c, a, port, protocol)
    PROVE  IInv'
<1>1. UNCHANGED <<file, tainted>>
  BY DEF InspectToBind, InspectToExpose
<1>2. cmd' \in [Cli -> [addr : Addr, service : Definition] \cup {Idle}]
  <2>1. CASE InspectToBind(c, a)
    BY <2>1 DEF InspectToBind, IInv, TypeOK
  <2>2. ASSUME NEW port \in Given \cup {0}, NEW protocol \in Protocol,
               InspectToExpose(c, a, port, protocol)
        PROVE  cmd' \in [Cli -> [addr : Addr, service : Definition] \cup {Idle}]
    <3> DEFINE service == IF file[a] = NoDef THEN NewDefinition(port, protocol, Local)
                                             ELSE [file[a] EXCEPT !.origin = Local]
    <3>1. NewDefinition(port, protocol, Local) \in Definition
      BY NewDefinitionFacts
    <3>2. file[a] # NoDef => [file[a] EXCEPT !.origin = Local] \in Definition
      BY DEF IInv, TypeOK, Definition
    <3>3. service \in Definition
      BY <3>1, <3>2
    <3>4. cmd' = [cmd EXCEPT ![c] = [addr |-> a, service |-> service]]
      BY <2>2 DEF InspectToExpose
    <3> HIDE DEF service
    <3> QED BY <3>3, <3>4 DEF IInv, TypeOK
  <2> QED BY <2>1, <2>2
<1> QED BY <1>1, <1>2 DEF IInv, TypeOK, AllSound

\* A process that is under way has a definition of some address.
LEMMA Holding ==
    ASSUME TypeOK, NEW c \in Cli, cmd[c] # Idle
    PROVE  cmd[c].addr \in Addr /\ cmd[c].service \in Definition
BY DEF TypeOK

LEMMA BindKeepsIInv ==
    ASSUME IInv, NEW c \in Cli, NEW t \in Target, NEW protocol,
           NEW targetPort \in Given \cup {0}, NEW exposes,
           Bind(c, t, protocol, targetPort, exposes)
    PROVE  IInv'
<1> DEFINE service == cmd[c].service
           a == cmd[c].addr
           port == PortAfter(service, protocol, targetPort, exposes)
           def == [WithTarget(service, t, port, targetPort) EXCEPT !.origin = Local]
<1>1. a \in Addr /\ service \in Definition
  BY Holding DEF Bind, IInv
<1>2. cmd' \in [Cli -> [addr : Addr, service : Definition] \cup {Idle}]
  BY DEF Bind, IInv, TypeOK
<1>3. tainted' = (tainted \/ targetPort > MaxPort) /\ tainted \in BOOLEAN
  BY DEF Bind, IInv, TypeOK
<1>4. CASE Accepts(service, protocol, port)
  <2>1. file' = [file EXCEPT ![a] = def]
    BY <1>4 DEF Bind, Write
  <2>2. /\ def \in Definition
        /\ def.origin = Local /\ def.port = port /\ port # 0
        /\ targetPort <= MaxPort => Valid(def)
    BY <1>1, <1>4, AcceptedFacts
  <2>3. targetPort > MaxPort \/ targetPort <= MaxPort
    OBVIOUS
  <2>4. Writes(a, def)
    BY <1>3, <2>1, <2>2, <2>3, Zenon DEF Writes, Sound
  <2> HIDE DEF def, a
  <2> QED BY <1>1, <1>2, <2>4, WriteKeepsIInv
<1>5. CASE ~Accepts(service, protocol, port)
  <2>1. file' = file
    BY <1>5 DEF Bind
  <2> QED BY <1>2, <1>3, <2>1 DEF IInv, TypeOK, AllSound, Sound
<1> QED BY <1>4, <1>5

LEMMA CreateKeepsIInv ==
    ASSUME IInv, NEW a \in Addr, NEW port \in Given \cup {0}, NEW protocol \in Protocol,
           CreateService(a, port, protocol)
    PROVE  IInv'
<1> DEFINE service == NewDefinition(port, protocol, Local)
<1>1. service \in Definition /\ Bound(service) = {} /\ service.origin = Local
  BY NewDefinitionFacts
<1>2. [service EXCEPT !.origin = Local] = service
  BY <1>1 DEF Definition
<1>3. file' = [file EXCEPT ![a] = service] /\ Valid(service) /\ UNCHANGED <<cmd, tainted>>
  BY <1>2, Zenon DEF CreateService, Write
<1>4. Writes(a, service)
  BY <1>1, <1>3 DEF Writes, Sound, IInv, TypeOK
<1> HIDE DEF service
<1> QED BY <1>3, <1>4, WriteKeepsIInv DEF IInv, TypeOK

LEMMA UnbindKeepsIInv ==
    ASSUME IInv, NEW a \in Addr, NEW name, NEW last \in BOOLEAN, Unbind(a, name, last)
    PROVE  IInv'
<1> DEFINE rest == Without(file[a], name)
<1>1. file[a] \in Definition /\ Sound(file[a], tainted) /\ a \in DOMAIN file
  BY DEF Unbind, IInv, TypeOK, AllSound
<1>2. /\ rest \in Definition
      /\ rest.origin = file[a].origin /\ rest.port = file[a].port
      /\ Bound(rest) \subseteq Bound(file[a])
      /\ \A t \in Bound(rest) : rest.targets[t] = file[a].targets[t]
  BY <1>1, WithoutFacts
<1>3. UNCHANGED <<cmd, tainted>>
  BY DEF Unbind
<1>4. Sound(rest, tainted)
  <2> HIDE DEF rest
  <2> QED BY <1>1, <1>2 DEF Sound, Valid
<1>5. PICK def \in {NoDef, rest} : file' = [file EXCEPT ![a] = def]
  BY <1>1 DEF Unbind
<1>6. Writes(a, def)
  <2> HIDE DEF rest
  <2> QED BY <1>3, <1>4, <1>5 DEF Writes, IInv, TypeOK
<1> QED BY <1>3, <1>6, WriteKeepsIInv DEF IInv, TypeOK

LEMMA DeletionKeepsIInv ==
    ASSUME IInv, NEW a \in Addr, RemoveService(a) \/ Withdrawn(a)
    PROVE  IInv'
<1>1. file' = [file EXCEPT ![a] = NoDef] /\ UNCHANGED <<cmd, tainted>>
  BY DEF RemoveService, Withdrawn
<1>2. Writes(a, NoDef)
  BY <1>1 DEF Writes, IInv, TypeOK
<1> QED BY <1>1, <1>2, WriteKeepsIInv DEF IInv, TypeOK

LEMMA AnnouncedKeepsIInv ==
    ASSUME IInv, NEW a \in Addr, NEW port \in Given \cup {0}, NEW protocol \in Protocol,
           Announced(a, port, protocol)
    PROVE  IInv'
<1> DEFINE def == NewDefinition(port, protocol, Peer)
<1>1. def \in Definition /\ Bound(def) = {} /\ def.port = port
  BY NewDefinitionFacts
<1>2. /\ file' = [file EXCEPT ![a] = def] /\ cmd' = cmd
      /\ tainted' = (tainted \/ port > MaxPort)
  BY DEF Announced
<1>3. port <= MaxPort => Valid(def)
  BY <1>1 DEF Valid
<1>4. port > MaxPort \/ port <= MaxPort
  OBVIOUS
<1> HIDE DEF def
<1>5. Writes(a, def)
  BY <1>1, <1>2, <1>3, <1>4, Zenon DEF Writes, Sound, IInv, TypeOK
<1> QED BY <1>2, <1>5, WriteKeepsIInv DEF IInv, TypeOK

LEMMA NextKeepsIInv == IInv /\ [Next]_vars => IInv'
<1> SUFFICES ASSUME IInv, [Next]_vars PROVE IInv'
  OBVIOUS
<1>1. ASSUME NEW c \in Cli, Binds(c) PROVE IInv'
  <2>1. PICK t \in Target, protocol \in Protocol \cup {""}, targetPort \in Given \cup {0},
             exposes \in BOOLEAN : Bind(c, t, protocol, targetPort, exposes)
    BY <1>1 DEF Binds
  <2> QED BY <2>1, BindKeepsIInv, Zenon
<1>2. ASSUME NEW c \in Cli, BindFails(c) PROVE IInv'
  BY <1>2 DEF BindFails, IInv, TypeOK, AllSound
<1>3. ASSUME NEW c \in Cli, NEW a \in Addr, InspectToBind(c, a) PROVE IInv'
  BY <1>3, InspectKeepsIInv
<1>4. ASSUME NEW a \in Addr, NEW port \in Given \cup {0}, NEW protocol \in Protocol,
             \/ CreateService(a, port, protocol)
             \/ \E c \in Cli : InspectToExpose(c, a, port, protocol)
      PROVE  IInv'
  BY <1>4, CreateKeepsIInv, InspectKeepsIInv
<1>5. ASSUME NEW a \in Addr, NEW name \in Container \cup HostService, NEW last \in BOOLEAN,
             Unbind(a, name, last)
      PROVE  IInv'
  BY <1>5, UnbindKeepsIInv
<1>6. ASSUME NEW a \in Addr, RemoveService(a) \/ Withdrawn(a) PROVE IInv'
  BY <1>6, DeletionKeepsIInv
<1>7. ASSUME NEW a \in Addr, NEW port \in Given \cup {0}, NEW protocol \in Protocol,
             Announced(a, port, protocol)
      PROVE  IInv'
  BY <1>7, AnnouncedKeepsIInv
<1>8. CASE UNCHANGED vars
  BY <1>8 DEF vars, IInv, TypeOK, AllSound
<1> QED
  BY <1>1, <1>2, <1>3, <1>4, <1>5, <1>6, <1>7, <1>8 DEF Next, Command, Controller

LEMMA Invariance == Spec => []IInv
<1> QED BY InitIInv, NextKeepsIInv, PTL DEF Spec

-----------------------------------------------------------------------------
\* The values that the commands write are of the right kind, whatever copy they write.
THEOREM TypeCorrect == Spec => []TypeOK
<1>1. IInv => TypeOK
  BY DEF IInv
<1> QED BY <1>1, Invariance, PTL

\* A definition with targets is local and has a port: ServiceInterfaceBind requires a
\* port and updateServiceInterface clears the origin, and nothing gives either back.
THEOREM TargetsServable == Spec => []TargetsAreServable
<1>1. IInv => TargetsAreServable
  BY DEF IInv, AllSound, Sound, TargetsAreServable
<1> QED BY <1>1, Invariance, PTL

\* As long as nobody gives bind an invalid port, every definition passes the validation
\* of the next bind: what is written has been validated but for that port.
THEOREM AlwaysUsable == Spec => []StaysUsable
<1>1. IInv => StaysUsable
  <2> SUFFICES ASSUME IInv, ~tainted, NEW a \in Addr, file[a] # NoDef
               PROVE  /\ file[a].port \in 0..MaxPort
                      /\ \A t \in Bound(file[a]) : Effective(file[a], t) \in 0..MaxPort
    BY DEF StaysUsable
  <2>1. file[a] \in Definition /\ Valid(file[a])
    BY DEF IInv, AllSound, Sound
  <2>2. file[a].port \in Nat /\ \A t \in Bound(file[a]) : file[a].targets[t] \in Nat
    <3>1. file[a].port \in Port /\ file[a].targets \in [Target -> Port \cup {NotBound}]
      BY <2>1 DEF Definition
    <3>2. Port \subseteq Nat
      OBVIOUS
    <3> QED BY <3>1, <3>2 DEF Bound
  <2> QED BY <2>1, <2>2 DEF Valid, Effective
<1> QED BY <1>1, Invariance, PTL

\* What a bind that changes the file makes of its target.
LEMMA BindIsAsAsked ==
    ASSUME TypeOK, NEW c \in Cli, NEW t \in Target, NEW protocol,
           NEW targetPort \in Given \cup {0}, targetPort # 0, NEW exposes,
           Bind(c, t, protocol, targetPort, exposes), file' # file
    PROVE  Effective(file'[cmd[c].addr], t) = targetPort
<1> DEFINE service == cmd[c].service
           port == PortAfter(service, protocol, targetPort, exposes)
           def == [WithTarget(service, t, port, targetPort) EXCEPT !.origin = Local]
<1>1. cmd[c].addr \in Addr /\ service \in Definition
  BY Holding DEF Bind
<1>2. Accepts(service, protocol, port) /\ file' = [file EXCEPT ![cmd[c].addr] = def]
  BY DEF Bind, Write
<1>3. file'[cmd[c].addr] = def
  <2> HIDE DEF def
  <2> QED BY <1>1, <1>2 DEF TypeOK
<1>4. Effective(def, t) = targetPort
  BY <1>1, <1>2, AcceptedFacts
<1> QED BY <1>3, <1>4

\* A target that is bound with a port is reached at it, whether the port ends up in the
\* service or with the target.
THEOREM TargetsBoundAsAsked == Spec => BoundAsAsked
<1> DEFINE AsAsked ==
        \A c \in Cli, t \in Target, protocol \in Protocol \cup {""},
           targetPort \in Given \ {0}, exposes \in BOOLEAN :
            /\ Bind(c, t, protocol, targetPort, exposes)
            /\ file' # file
            => Effective(file'[cmd[c].addr], t) = targetPort
<1>1. TypeOK => AsAsked
  <2> SUFFICES ASSUME TypeOK PROVE AsAsked
    OBVIOUS
  <2> TAKE c \in Cli, t \in Target, protocol \in Protocol \cup {""},
           targetPort \in Given \ {0}, exposes \in BOOLEAN
  <2> HAVE Bind(c, t, protocol, targetPort, exposes) /\ file' # file
  <2>1. targetPort \in Given \cup {0} /\ targetPort # 0
    OBVIOUS
  <2> QED BY <2>1, BindIsAsAsked, Zenon
<1>2. IInv /\ [Next]_vars => [AsAsked]_vars
  BY <1>1 DEF IInv
<1> HIDE DEF AsAsked
<1>3. Spec => [][AsAsked]_vars
  BY <1>2, Invariance, PTL DEF Spec
<1> QED BY <1>3 DEF BoundAsAsked, AsAsked

-----------------------------------------------------------------------------
(* What a command does to the targets that it is not about.                *)

\* What a bind writes, if anything: a local definition, with the port of the copy if
\* that has one.
LEMMA BindWrites ==
    ASSUME TypeOK, NEW c \in Cli, NEW t \in Target, NEW protocol,
           NEW targetPort \in Given \cup {0}, NEW exposes,
           Bind(c, t, protocol, targetPort, exposes), file' # file
    PROVE  \E def \in Definition :
              /\ def.origin = Local
              /\ cmd[c].service.port # 0 => def.port = cmd[c].service.port
              /\ \A u \in Target : u # t => def.targets[u] = cmd[c].service.targets[u]
              /\ file' = [file EXCEPT ![cmd[c].addr] = def]
<1> DEFINE service == cmd[c].service
           port == PortAfter(service, protocol, targetPort, exposes)
           def == [WithTarget(service, t, port, targetPort) EXCEPT !.origin = Local]
<1>1. service \in Definition
  BY Holding DEF Bind
<1>2. Accepts(service, protocol, port) /\ file' = [file EXCEPT ![cmd[c].addr] = def]
  BY DEF Bind, Write
<1>3. def \in Definition /\ def.origin = Local /\ def.port = port
  BY <1>1, <1>2, AcceptedFacts
<1>4. \A u \in Target : u # t => def.targets[u] = service.targets[u]
  <2> HIDE DEF port
  <2> QED BY <1>1, OtherTargetsAreKept
<1>5. service.port # 0 => port = service.port
  BY DEF PortAfter
<1> HIDE DEF def, port
<1> QED BY <1>2, <1>3, <1>4, <1>5

\* A bind of a definition that has targets leaves them bound and where they are reached:
\* it keeps the port of the service, on which those without a port of their own depend.
LEMMA BindKeepsOthers ==
    ASSUME IInv, NEW c \in Cli, NEW t \in Target, NEW protocol,
           NEW targetPort \in Given \cup {0}, NEW exposes,
           Bind(c, t, protocol, targetPort, exposes), cmd[c].service = file[cmd[c].addr]
    PROVE  Undisturbed(cmd[c].addr, Bound(file[cmd[c].addr]) \ {t})
<1> DEFINE a == cmd[c].addr
<1>1. a \in Addr /\ file[a] \in Definition
  BY Holding DEF Bind, IInv
<1>2. CASE UNCHANGED file
  BY <1>1, <1>2 DEF Undisturbed
<1>3. CASE file' # file
  <2>1. PICK def \in Definition :
            /\ def.origin = Local
            /\ cmd[c].service.port # 0 => def.port = cmd[c].service.port
            /\ \A u \in Target : u # t => def.targets[u] = cmd[c].service.targets[u]
            /\ file' = [file EXCEPT ![a] = def]
    BY <1>3, BindWrites, Zenon DEF IInv
  <2>2. file'[a] = def
    <3>1. a \in DOMAIN file
      BY <1>1 DEF IInv, TypeOK
    <3> HIDE DEF a
    <3> QED BY <2>1, <3>1
  <2>3. Bound(file[a]) # {} => file[a].port # 0
    BY <1>1 DEF IInv, AllSound, Sound
  <2>4. ASSUME NEW u \in Bound(file[a]), u # t
        PROVE  u \in Bound(def) /\ Effective(def, u) = Effective(file[a], u)
    BY <2>1, <2>3, <2>4 DEF Bound, Effective
  <2> QED BY <2>2, <2>4 DEF Undisturbed
<1> QED BY <1>2, <1>3

\* unbind and unexpose take nothing from the targets of other names.
LEMMA UnbindKeepsOthers ==
    ASSUME IInv, NEW a \in Addr, NEW name, NEW last \in BOOLEAN, Unbind(a, name, last),
           NEW t \in Bound(file[a]) \ Named(file[a], name)
    PROVE  /\ file'[a] # NoDef /\ t \in Bound(file'[a])
           /\ Effective(file'[a], t) = Effective(file[a], t)
<1> DEFINE rest == Without(file[a], name)
<1>1. /\ file[a] \in Definition /\ t \in Target /\ file[a].targets[t] # NotBound
      /\ t[2] # name
  BY DEF Unbind, IInv, TypeOK, Bound, Named
<1>2. Bound(file[a]) # Named(file[a], name)
  BY DEF Named
<1>3. file' = [file EXCEPT ![a] = rest]
  BY <1>1, <1>2 DEF Unbind, IInv, TypeOK
<1>4. rest \in Definition /\ rest.port = file[a].port
  BY <1>1, WithoutFacts
<1>5. rest.targets[t] = file[a].targets[t]
  BY <1>1 DEF Without, Definition
<1> HIDE DEF rest
<1>6. file'[a] = rest
  BY <1>3 DEF IInv, TypeOK
<1> QED BY <1>1, <1>4, <1>5, <1>6 DEF Bound, Effective

\* A target stays bound, and at its port, while others are bound and unbound.
THEOREM OtherTargetsStay == Spec => OthersStay
<1> DEFINE Step ==
       /\ \A c \in Cli, t \in Target, protocol \in Protocol \cup {""},
             targetPort \in Given \cup {0}, exposes \in BOOLEAN :
            /\ Bind(c, t, protocol, targetPort, exposes)
            /\ cmd[c].service = file[cmd[c].addr]
            => Undisturbed(cmd[c].addr, Bound(file[cmd[c].addr]) \ {t})
       /\ \A a \in Addr, name \in Container \cup HostService, last \in BOOLEAN :
            Unbind(a, name, last) => Undisturbed(a, Bound(file[a]) \ Named(file[a], name))
<1>1. ASSUME IInv PROVE Step
  <2>1. \A c \in Cli, t \in Target, protocol \in Protocol \cup {""},
           targetPort \in Given \cup {0}, exposes \in BOOLEAN :
            /\ Bind(c, t, protocol, targetPort, exposes)
            /\ cmd[c].service = file[cmd[c].addr]
            => Undisturbed(cmd[c].addr, Bound(file[cmd[c].addr]) \ {t})
    BY <1>1, BindKeepsOthers
  <2>2. \A a \in Addr, name \in Container \cup HostService, last \in BOOLEAN :
            Unbind(a, name, last) => Undisturbed(a, Bound(file[a]) \ Named(file[a], name))
    BY <1>1, UnbindKeepsOthers DEF Undisturbed
  <2> QED BY <2>1, <2>2, Zenon
<1>2. IInv /\ [Next]_vars => [Step]_vars
  BY <1>1
<1> HIDE DEF Step
<1>3. Spec => [][Step]_vars
  BY <1>2, Invariance, PTL DEF Spec
<1> QED BY <1>3 DEF OthersStay, Step

-----------------------------------------------------------------------------
(* The definitions as the synchronisation sees them.                       *)

\* How it sees one definition.
Seen(def) == IF def = NoDef THEN NoDef
             ELSE [shape |-> <<def.port, def.protocol>>, origin |-> def.origin]

LEMMA WriteIsSeen ==
    ASSUME TypeOK, NEW a \in Addr, NEW def, file' = [file EXCEPT ![a] = def]
    PROVE  View' = [View EXCEPT ![a] = Seen(def)]
<1>1. \A b \in Addr : file'[b] = IF b = a THEN def ELSE file[b]
  BY DEF TypeOK
<1>2. \A b \in Addr : View'[b] = Seen(file'[b])
  BY DEF View, Seen
<1>3. \A b \in Addr : View[b] = Seen(file[b])
  BY DEF View, Seen
<1>4. View = [b \in Addr |-> View[b]] /\ View' = [b \in Addr |-> View'[b]]
  BY DEF View
<1> HIDE DEF View
<1>5. \A b \in Addr : View'[b] = [View EXCEPT ![a] = Seen(def)][b]
  BY <1>1, <1>2, <1>3, <1>4
<1> QED BY <1>4, <1>5

LEMMA LocalIsSeen ==
    ASSUME NEW def \in Definition, def.origin = Local
    PROVE  <<def.port, def.protocol>> \in Port \X Protocol
           /\ Seen(def) = Sync!LocalDef(<<def.port, def.protocol>>)
BY DEF Definition, Seen, Sync!LocalDef

\* A local definition that is written is an update to the synchronisation.
LEMMA LocalWriteIsUpdate ==
    ASSUME TypeOK, NEW a \in Addr, NEW def \in Definition, def.origin = Local,
           file' = [file EXCEPT ![a] = def]
    PROVE  \E sh \in Port \X Protocol : View' = Sync!Updated(View, a, sh)
<1>1. View' = [View EXCEPT ![a] = Seen(def)]
  BY WriteIsSeen
<1> QED BY <1>1, LocalIsSeen DEF Sync!Updated

LEMMA DeletionIsSeen ==
    ASSUME TypeOK, NEW a \in Addr, file' = [file EXCEPT ![a] = NoDef]
    PROVE  /\ View' = [View EXCEPT ![a] = NoDef]
           /\ View[a] = NoDef => UNCHANGED View
<1>1. View' = [View EXCEPT ![a] = NoDef]
  BY WriteIsSeen DEF Seen
<1>2. View[a] = NoDef => [View EXCEPT ![a] = NoDef] = View
  BY DEF View
<1> QED BY <1>1, <1>2

\* The commands with their ports, targets and validation edit the definitions as
\* SiteSync's commands do, which know of none of them.
THEOREM CommandsAreEdits == Spec => CommandEdits
<1> DEFINE Edits ==
        \/ UNCHANGED View
        \/ \E a \in Addr :
            \/ \E sh \in Port \X Protocol :
                    View' \in {Sync!Created(View, a, sh), Sync!Updated(View, a, sh)}
            \/ Sync!IsLocal(View, a) /\ View' = Sync!Unbound(View, a, TRUE)
            \/ Sync!Present(View, a) /\ View' = Sync!Removed(View, a)
<1>1. ASSUME IInv, Command PROVE Edits
  <2>1. TypeOK
    BY <1>1 DEF IInv
  <2>2. ASSUME UNCHANGED file PROVE Edits
    BY <2>2 DEF View
  <2>3. ASSUME NEW a \in Addr, NEW def \in Definition, def.origin = Local,
               file' = [file EXCEPT ![a] = def]
        PROVE  Edits
    BY <2>1, <2>3, LocalWriteIsUpdate
  <2>4. ASSUME NEW c \in Cli, Binds(c) PROVE Edits
    <3>1. PICK t \in Target, protocol \in Protocol \cup {""}, targetPort \in Given \cup {0},
               exposes \in BOOLEAN : Bind(c, t, protocol, targetPort, exposes)
      BY <2>4 DEF Binds
    <3>2. CASE UNCHANGED file
      BY <2>2, <3>2
    <3>3. CASE file' # file
      <4>1. cmd[c].addr \in Addr
        BY <2>1, <3>1, Holding DEF Bind
      <4>2. PICK def \in Definition : /\ def.origin = Local
                                     /\ file' = [file EXCEPT ![cmd[c].addr] = def]
        BY <2>1, <3>1, <3>3, BindWrites, Zenon
      <4> HIDE DEF Edits
      <4> QED BY <2>3, <4>1, <4>2
    <3> QED BY <3>2, <3>3
  <2>5. ASSUME NEW c \in Cli,
               \/ BindFails(c)
               \/ \E a \in Addr : InspectToBind(c, a)
               \/ \E a \in Addr, port \in Given \cup {0}, protocol \in Protocol :
                        InspectToExpose(c, a, port, protocol)
        PROVE  Edits
    <3>1. UNCHANGED file
      BY <2>5 DEF BindFails, InspectToBind, InspectToExpose
    <3> QED BY <2>2, <3>1
  <2>6. ASSUME NEW a \in Addr, NEW port \in Given \cup {0}, NEW protocol \in Protocol,
               CreateService(a, port, protocol)
        PROVE  Edits
    <3> DEFINE def == NewDefinition(port, protocol, Local)
    <3>1. def \in Definition /\ def.origin = Local
      BY NewDefinitionFacts
    <3>2. file' = [file EXCEPT ![a] = [def EXCEPT !.origin = Local]]
      BY <2>6 DEF CreateService, Write
    <3>3. [def EXCEPT !.origin = Local] = def
      BY <3>1 DEF Definition
    <3> HIDE DEF def, Edits
    <3> QED BY <2>3, <3>1, <3>2, <3>3
  <2>7. ASSUME NEW a \in Addr, NEW name \in Container \cup HostService, NEW last \in BOOLEAN,
               Unbind(a, name, last)
        PROVE  Edits
    <3> DEFINE rest == Without(file[a], name)
    <3>1. file[a] \in Definition /\ Bound(file[a]) # {} /\ Sound(file[a], tainted)
      BY <1>1, <2>7 DEF Unbind, IInv, TypeOK, AllSound, Named
    <3>2. file' = [file EXCEPT ![a] = NoDef] \/ file' = [file EXCEPT ![a] = rest]
      BY <2>1, <2>7 DEF Unbind, TypeOK
    <3>3. CASE file' = [file EXCEPT ![a] = NoDef]
      <4>1. View[a] = NoDef \/ Sync!IsLocal(View, a)
        BY <3>1 DEF Sound, View, Sync!IsLocal, Sync!Present
      <4>2. Sync!Unbound(View, a, TRUE) = [View EXCEPT ![a] = NoDef]
        BY DEF Sync!Unbound
      <4> QED BY <2>1, <3>3, <4>1, <4>2, DeletionIsSeen
    <3>4. CASE file' = [file EXCEPT ![a] = rest]
      <4>1. rest \in Definition /\ rest.origin = file[a].origin /\ rest.port = file[a].port
            /\ rest.protocol = file[a].protocol
        BY <3>1, WithoutFacts DEF Without, Definition
      <4> HIDE DEF rest
      <4>2. Seen(rest) = View[a]
        BY <3>1, <4>1 DEF Seen, View
      <4>3. View' = [View EXCEPT ![a] = View[a]]
        BY <2>1, <3>4, <4>2, WriteIsSeen
      <4>4. View' = View
        BY <4>3 DEF View
      <4> QED BY <4>4
    <3> QED BY <3>2, <3>3, <3>4
  <2>8. ASSUME NEW a \in Addr, RemoveService(a) PROVE Edits
    <3>1. file' = [file EXCEPT ![a] = NoDef]
      BY <2>8 DEF RemoveService
    <3> QED BY <2>1, <3>1, DeletionIsSeen DEF Sync!Present, Sync!Removed
  <2> HIDE DEF Edits
  <2> QED BY <1>1, <2>4, <2>5, <2>6, <2>7, <2>8 DEF Command
<1>2. IInv /\ [Next]_vars => [Command => Edits]_vars
  BY <1>1
<1> HIDE DEF Edits
<1>3. Spec => [][Command => Edits]_vars
  BY <1>2, Invariance, PTL DEF Spec
<1> QED BY <1>3 DEF CommandEdits, Edits
=============================================================================
