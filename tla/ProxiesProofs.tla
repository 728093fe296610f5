----------------------------- MODULE ProxiesProofs -----------------------------
(***************************************************************************)
(* Proofs about Proxies, for any addresses, targets and ports and any      *)
(* number of faults.  What holds at the end of a clean pass is built up    *)
(* address by address: those the pass has dealt with are served, and what  *)
(* the controller has in hand is what it is about to make of its address.  *)
(***************************************************************************)
EXTENDS Proxies, TLAPS

\* The types, completed.
Kinds ==
    /\ TypeOK
    /\ containers \in [Names -> Proxies \cup {None, User}]
    /\ todo \subseteq Addr

\* What the controller is about to do with the one in hand.  Nobody else touches a
\* proxy, so that what was read when the work on it began is still true.
InHand ==
    /\ phase = "ensure" /\ cur # None =>
            want \in Proxies /\ want.config \in Configs(bindings[cur])
    /\ phase = "prune" =>
            /\ call \in {"none", "stop", "remove"}
            /\ \A a \in todo : IsProxy(containers[a]) /\ bindings[a] = None
    /\ call \in {"stop", "remove"} => IsProxy(containers[cur])
    /\ call = "start" => containers[cur] = want

\* Without faults, a proxy that does not run is being started or replaced.
Run ==
    faults = 0 =>
        \A a \in Addr : IsProxy(containers[a]) =>
            containers[a].running \/ (cur = a /\ call \in {"start", "remove"})

\* Bindings that say what a definition says, if not in the same way.
Agree(b, d) ==
    /\ b = None <=> d = None
    /\ d # None => /\ b.port = d.port
                   /\ TargetsOf(b) = TargetsOf(d)
                   /\ \A t \in TargetsOf(d) : PortOf(b, t) = PortOf(d, t)

\* Unless a change is to be read, the bindings agree with the file.
BindingsAgree ==
    phase # "down" /\ ~pending => \A a \in Addr : Agree(bindings[a], file[a])

\* A controller that is down has no bindings, and if it has never run, no proxies.
NothingKept ==
    phase = "down" => \A a \in Addr : /\ bindings[a] = None
                                      /\ clean => ~IsProxy(containers[a])

\* An address that a clean pass has still to ensure, or to prune.
ToEnsure(a) == phase = "ensure" /\ a \in todo
ToPrune(a) == phase = "ensure" \/ (phase = "prune" /\ a \in todo)

\* What a clean pass has achieved so far.
Served ==
    \A a \in Addr : bindings[a] # None /\ ~ToEnsure(a) =>
        IsProxy(containers[a]) /\ Serves(containers[a], bindings[a])
OnNetwork(a) ==
    \A h \in Wanted(bindings[a]) : containers[h] = User => h \in attached \cup newcomers
TargetsOnNetwork ==
    \A a \in Addr : bindings[a] # None /\ ~(ToEnsure(a) /\ a # cur) => OnNetwork(a)
Pruned ==
    \A a \in Addr : bindings[a] = None /\ ~ToPrune(a) => ~IsProxy(containers[a])

SoFar == clean /\ phase # "down" => Served /\ TargetsOnNetwork /\ Pruned

IInv == Kinds /\ InHand /\ Run /\ BindingsAgree /\ NothingKept /\ SoFar
-----------------------------------------------------------------------------
(* From a definition to a container.                                       *)

\* A port is spelt out as one, and never as the absence of one.
LEMMA PortFacts ==
    ASSUME NEW d \in Defs
    PROVE  \A t \in TargetsOf(d) : PortOf(d, t) \in Port
BY DEF Defs, Def, TargetsOf, PortOf, TargetPort

\* Bindings that are updated say what the definition says.
LEMMA UpdatedFacts ==
    ASSUME NEW d \in Defs, NEW b
    PROVE  Updated(b, d) \in Defs /\ Agree(Updated(b, d), d)
<1> DEFINE targets == [t \in Target |-> IF d.targets[t] = None THEN None ELSE PortOf(d, t)]
           u == Updated(b, d)
<1>1. d \in Def /\ (~d.local => d.targets = NoTargets)
  BY DEF Defs
<1>2. \A t \in Target : d.targets[t] # None => PortOf(d, t) \in Port
  BY PortFacts DEF TargetsOf
<1>3. \A p \in Port : p # 0 /\ p # None
  BY PortAssumption, NoneAssumption
<1>4. targets \in [Target -> TargetPort \cup {None}]
  BY <1>2 DEF TargetPort
<1>5. u \in Def /\ u.local = d.local /\ u.port = d.port /\ u.targets = targets
  BY <1>1, <1>4 DEF Updated, Def
<1>6. ~d.local => targets = NoTargets
  BY <1>1 DEF NoTargets
<1>7. u \in Defs
  BY <1>5, <1>6 DEF Defs
<1>8. TargetsOf(u) = TargetsOf(d)
  BY <1>2, <1>3, <1>5 DEF TargetsOf
<1>9. \A t \in TargetsOf(d) : PortOf(u, t) = PortOf(d, t)
  BY <1>2, <1>3, <1>5 DEF TargetsOf, PortOf
<1> HIDE DEF u
<1> QED BY <1>5, <1>7, <1>8, <1>9, AbsenceAssumption DEF Agree, u

\* A container configured for bindings is configured for a definition they agree with.
LEMMA AgreeFacts ==
    ASSUME NEW b, NEW d, d # None, Agree(b, d)
    PROVE  /\ b # None
           /\ Wanted(b) = Wanted(d)
           /\ \A c : Serves(c, b) => Serves(c, d)
<1>1. /\ b # None /\ b.port = d.port /\ TargetsOf(b) = TargetsOf(d)
      /\ \A t \in TargetsOf(d) : PortOf(b, t) = PortOf(d, t)
  BY DEF Agree
<1>2. Wanted(b) = Wanted(d) /\ Hosts(b) = Hosts(d)
  BY <1>1 DEF Wanted, Hosts
<1>3. Connectors(b) = Connectors(d)
  BY <1>1, <1>2 DEF Connectors
<1> QED BY <1>1, <1>2, <1>3 DEF Serves

\* What NewProxyContainer makes.
LEMMA ProxyFacts ==
    ASSUME NEW b \in Defs, NEW config \in Configs(b)
    PROVE  Proxy(b, config) \in Proxies /\ Proxy(b, config).config = config
<1>1. ExtraHosts(b) \in SUBSET (Name \X Ip)
  BY DEF ExtraHosts, TargetsOf, Target
<1>2. config \in UNION {Configs(d) : d \in Defs}
  OBVIOUS
<1> QED BY <1>1, <1>2 DEF Proxy, Proxies

LEMMA RunningFacts ==
    ASSUME NEW c \in Proxies, NEW r \in BOOLEAN
    PROVE  /\ IsProxy(c)
           /\ [c EXCEPT !.running = r] \in Proxies
           /\ [c EXCEPT !.running = r].config = c.config
           /\ [c EXCEPT !.running = r].running = r
<1>1. IsProxy(c)
  BY AbsenceAssumption DEF IsProxy
<1> QED BY <1>1 DEF Proxies

LEMMA ConfigServes ==
    ASSUME NEW b, NEW c, c.config \in Configs(b)
    PROVE  Serves(c, b)
BY DEF Configs, Serves

-----------------------------------------------------------------------------
(* Steps of others than the pass.                                          *)

\* A counter below its bound can go up.
LEMMA Counted ==
    ASSUME NEW max \in Nat, NEW n \in 0..max, n < max
    PROVE  n + 1 \in 0..max
OBVIOUS

LEMMA InitIInv == Init => IInv
<1> SUFFICES ASSUME Init PROVE IInv
  OBVIOUS
<1>1. ~IsProxy(None)
  BY DEF IsProxy
<1>2. Kinds
  <2>1. containers \in [Names -> Proxies \cup {None, User}]
    BY DEF Init, Names
  <2>2. \A n \in DOMAIN containers : ~IsProxy(containers[n])
    BY <1>1 DEF Init
  <2>3. changes \in 0..MaxChanges /\ moves \in 0..MaxMoves /\ faults \in 0..MaxFaults
    BY BoundsAssumption DEF Init
  <2>4. /\ file \in [Addr -> Defs \cup {None}] /\ bindings \in [Addr -> Defs \cup {None}]
        /\ attached \subseteq Names /\ newcomers \subseteq Names
    BY DEF Init
  <2> QED BY <2>1, <2>2, <2>3, <2>4 DEF Init, Kinds, TypeOK
<1>3. InHand
  BY DEF Init, InHand
<1>4. Run /\ NothingKept
  BY <1>1 DEF Init, Run, NothingKept, Names
<1>5. BindingsAgree /\ SoFar
  BY DEF Init, BindingsAgree, SoFar
<1> QED BY <1>2, <1>3, <1>4, <1>5 DEF IInv

LEMMA StutterKeepsIInv == IInv /\ UNCHANGED vars => IInv'
BY DEF vars, IInv, Kinds, TypeOK, InHand, Run, BindingsAgree, NothingKept, SoFar, Served,
       TargetsOnNetwork, OnNetwork, Pruned, ToEnsure, ToPrune, Serves, Agree

LEMMA ChangeKeepsIInv ==
    ASSUME IInv, NEW a \in Addr, NEW d \in Defs \cup {None}, Change(a, d)
    PROVE  IInv'
<1>1. Kinds'
  <2>1. changes' \in 0..MaxChanges /\ moves' \in 0..MaxMoves /\ faults' \in 0..MaxFaults
    BY BoundsAssumption, Counted DEF Change, IInv, Kinds, TypeOK
  <2>2. file' \in [Addr -> Defs \cup {None}]
    BY DEF Change, IInv, Kinds, TypeOK
  <2> QED BY <2>1, <2>2 DEF Change, IInv, Kinds, TypeOK, dockerVars, passVars
<1>2. InHand' /\ Run' /\ NothingKept' /\ SoFar'
  BY DEF Change, dockerVars, passVars, IInv, InHand, Run, NothingKept, SoFar, Served,
         TargetsOnNetwork, OnNetwork, Pruned, ToEnsure, ToPrune
<1>3. BindingsAgree'
  BY DEF Change, BindingsAgree
<1> QED BY <1>1, <1>2, <1>3 DEF IInv

\* Users' containers take no proxy's place.
LEMMA UserKeepsIInv ==
    ASSUME IInv, NEW n \in Names, UserStarts(n) \/ UserRemoves(n)
    PROVE  IInv'
<1>1. /\ UNCHANGED <<file, pending, bindings, phase, todo, call, cur, want, clean, changes, faults>>
      /\ moves < MaxMoves /\ moves' = moves + 1
      /\ \A m \in Names : \/ containers'[m] = containers[m]
                          \/ containers[m] \in {None, User} /\ containers'[m] \in {None, User}
      /\ containers' \in [Names -> Proxies \cup {None, User}]
      /\ attached' \subseteq Names /\ newcomers' \subseteq Names
  BY DEF UserStarts, UserRemoves, IInv, Kinds, TypeOK, passVars
<1>2. \A m \in Names : /\ IsProxy(containers'[m]) <=> IsProxy(containers[m])
                       /\ IsProxy(containers[m]) => containers'[m] = containers[m]
  BY <1>1 DEF IsProxy
<1>3. Addr \subseteq Names /\ (cur # None => cur \in Addr)
  BY DEF Names, IInv, Kinds, TypeOK
<1>4. Kinds'
  <2>1. changes' \in 0..MaxChanges /\ moves' \in 0..MaxMoves /\ faults' \in 0..MaxFaults
    BY <1>1, BoundsAssumption, Counted DEF IInv, Kinds, TypeOK
  <2>2. \A m \in DOMAIN containers' :
            IsProxy(containers'[m]) => m \in Addr /\ containers'[m] \in Proxies
    BY <1>1, <1>2 DEF IInv, Kinds, TypeOK
  <2> QED BY <1>1, <2>1, <2>2 DEF IInv, Kinds, TypeOK
<1>5. InHand'
  <2>1. call = "start" => containers'[cur] = containers[cur]
    BY <1>2, <1>3, RunningFacts DEF IInv, Kinds, TypeOK, InHand
  <2> QED BY <1>1, <1>2, <1>3, <2>1 DEF IInv, Kinds, TypeOK, InHand
<1>6. Run' /\ NothingKept' /\ BindingsAgree'
  BY <1>1, <1>2, <1>3 DEF IInv, Run, NothingKept, BindingsAgree
<1>7. ASSUME NEW m \in Names, containers'[m] = User, m \notin attached' \cup newcomers'
      PROVE  containers[m] = User /\ m \notin attached \cup newcomers
  BY <1>7, NoneAssumption DEF UserStarts, UserRemoves, IInv, Kinds
<1>8. SoFar'
  <2>1. ASSUME NEW a \in Addr, OnNetwork(a), NEW h \in Wanted(bindings[a]) PROVE h \in Names
    BY DEF Wanted, TargetsOf, Target, Names
  <2>2. ASSUME NEW a \in Addr, OnNetwork(a) PROVE OnNetwork(a)'
    BY <1>1, <1>7, <2>1, <2>2 DEF OnNetwork
  <2> QED BY <1>1, <1>2, <1>3, <2>2
          DEF IInv, SoFar, Served, TargetsOnNetwork, Pruned, ToEnsure, ToPrune
<1> QED BY <1>4, <1>5, <1>6, <1>8 DEF IInv

LEMMA StartKeepsIInv ==
    ASSUME IInv, Start
    PROVE  IInv'
<1>1. Kinds'
  BY DEF Start, IInv, Kinds, TypeOK, dockerVars, budgets
<1>2. InHand' /\ Run' /\ NothingKept' /\ BindingsAgree'
  BY DEF Start, dockerVars, budgets, IInv, Kinds, TypeOK, InHand, Run, NothingKept, BindingsAgree
<1>3. SoFar'
  BY DEF Start, dockerVars, IInv, NothingKept, SoFar, Served, TargetsOnNetwork, Pruned
<1> QED BY <1>1, <1>2, <1>3 DEF IInv

\* A crash leaves no bindings and is a fault.
LEMMA CrashKeepsIInv ==
    ASSUME IInv, Crash
    PROVE  IInv'
<1>1. Kinds'
  <2>1. changes' \in 0..MaxChanges /\ moves' \in 0..MaxMoves /\ faults' \in 0..MaxFaults
    BY BoundsAssumption, Counted DEF Crash, Fault, IInv, Kinds, TypeOK
  <2>2. bindings' \in [Addr -> Defs \cup {None}]
    BY DEF Crash
  <2> QED BY <2>1, <2>2 DEF Crash, IInv, Kinds, TypeOK, dockerVars
<1>2. InHand' /\ NothingKept' /\ BindingsAgree' /\ SoFar'
  BY DEF Crash, InHand, NothingKept, BindingsAgree, SoFar
<1>3. Run'
  BY DEF Crash, Fault, Run, IInv, Kinds, TypeOK
<1> QED BY <1>1, <1>2, <1>3 DEF IInv

-----------------------------------------------------------------------------
(* Steps of the pass.                                                      *)

\* All services are to be dealt with, for which the bindings now say what the file says.
LEMMA ReadKeepsIInv ==
    ASSUME IInv, ReadDefinitions
    PROVE  IInv'
<1>1. \A a \in Addr : bindings'[a] \in Defs \cup {None} /\ Agree(bindings'[a], file[a])
  <2> SUFFICES ASSUME NEW a \in Addr
               PROVE  bindings'[a] \in Defs \cup {None} /\ Agree(bindings'[a], file[a])
    OBVIOUS
  <2>1. file[a] \in Defs \cup {None} /\ Agree(file[a], file[a])
    BY DEF IInv, Kinds, TypeOK, Agree
  <2>2. bindings'[a] = IF file[a] = None \/ bindings[a] = None THEN file[a]
                       ELSE Updated(bindings[a], file[a])
    BY DEF ReadDefinitions, Bound
  <2>3. CASE file[a] = None \/ bindings[a] = None
    BY <2>1, <2>2, <2>3
  <2>4. CASE file[a] # None /\ bindings[a] # None
    BY <2>1, <2>2, <2>4, UpdatedFacts
  <2> QED BY <2>3, <2>4
<1>2. /\ bindings' \in [Addr -> Defs \cup {None}]
      /\ \A a \in Addr : bindings'[a] = None <=> file[a] = None
  BY <1>1 DEF ReadDefinitions, Bound, Agree
<1>3. /\ UNCHANGED <<file, containers, attached, call, cur, want, changes, moves, faults>>
      /\ cur = None /\ call = "none"
      /\ phase' = "ensure" /\ todo' = {a \in Addr : file[a] # None}
      /\ clean' = TRUE /\ pending' = FALSE /\ newcomers' = {}
  BY DEF ReadDefinitions, dockerVars, budgets, IInv, Kinds, TypeOK
<1>4. Kinds'
  BY <1>2, <1>3 DEF IInv, Kinds, TypeOK
<1>5. InHand' /\ Run' /\ NothingKept'
  BY <1>3 DEF IInv, InHand, Run, NothingKept
<1>6. BindingsAgree'
  BY <1>1, <1>3 DEF BindingsAgree
<1>7. SoFar'
  BY <1>2, <1>3, NoneAssumption
     DEF SoFar, Served, TargetsOnNetwork, Pruned, ToEnsure, ToPrune
<1> QED BY <1>4, <1>5, <1>6, <1>7 DEF IInv

\* What ensureProxyFor decides on: the proxy serves its address already, or what is to
\* be created does.
LEMMA DecideFacts ==
    ASSUME IInv, NEW a \in Addr, Ensuring(a), NEW exists, Decide(a, exists)
    PROVE  /\ UNCHANGED phase
           /\ \/ /\ todo' = todo \ {a} /\ UNCHANGED <<call, cur, want>>
                 /\ exists /\ Serves(containers[a], bindings[a])
              \/ /\ call' = (IF exists THEN "stop" ELSE "create") /\ cur' = a
                 /\ UNCHANGED todo
                 /\ want' \in Proxies /\ want'.config \in Configs(bindings[a])
<1>1. bindings[a] \in Defs
  BY DEF Ensuring, IInv, Kinds, TypeOK
<1>2. PICK config \in Configs(bindings[a]) :
        IF exists /\ containers[a].config = config
          THEN todo' = todo \ {a} /\ UNCHANGED <<phase, call, cur, want>>
          ELSE /\ call' = IF exists THEN "stop" ELSE "create"
               /\ cur' = a
               /\ want' = Proxy(bindings[a], config)
               /\ UNCHANGED <<phase, todo>>
  BY DEF Decide
<1>3. CASE exists /\ containers[a].config = config
  BY <1>2, <1>3, ConfigServes
<1>4. CASE ~(exists /\ containers[a].config = config)
  BY <1>1, <1>2, <1>4, ProxyFacts
<1> QED BY <1>3, <1>4

\* A step that decides about an address keeps the invariant, clean or not.
LEMMA DecideKeepsIInv ==
    ASSUME IInv, NEW a \in Addr, Ensuring(a), NEW exists, Decide(a, exists),
           exists => IsProxy(containers[a]), UNCHANGED containers, Leave,
           attached \subseteq attached', attached' \subseteq Names,
           faults' \in 0..MaxFaults, faults' = 0 => faults = 0,
           clean' \in BOOLEAN, clean' => clean /\ ToAttach(a) \subseteq attached'
    PROVE  IInv'
<1>1. /\ phase = "ensure" /\ call = "none" /\ cur = None /\ a \in todo /\ a # None
      /\ UNCHANGED <<file, pending, bindings, containers, newcomers, changes, moves>>
  BY NoneAssumption DEF Ensuring, IInv, Kinds, TypeOK, Leave
<1>2. /\ UNCHANGED phase
      /\ \/ /\ todo' = todo \ {a} /\ UNCHANGED <<call, cur, want>>
            /\ exists /\ Serves(containers[a], bindings[a])
         \/ /\ call' = (IF exists THEN "stop" ELSE "create") /\ cur' = a
            /\ UNCHANGED todo
            /\ want' \in Proxies /\ want'.config \in Configs(bindings[a])
  BY DecideFacts
<1>3. Kinds'
  BY <1>1, <1>2 DEF IInv, Kinds, TypeOK
<1>4. InHand'
  BY <1>1, <1>2 DEF IInv, InHand
<1>5. Run' /\ BindingsAgree' /\ NothingKept'
  BY <1>1, <1>2 DEF IInv, Run, BindingsAgree, NothingKept
<1>6. SoFar'
  <2> SUFFICES ASSUME clean' PROVE Served' /\ TargetsOnNetwork' /\ Pruned'
    BY DEF SoFar
  <2>1. Served /\ TargetsOnNetwork
    BY <1>1 DEF IInv, SoFar
  <2>2. Served'
    BY <1>1, <1>2, <2>1 DEF Served, ToEnsure
  <2>3. OnNetwork(a)'
    BY <1>1 DEF OnNetwork, ToAttach
  <2>4. \A b \in Addr : OnNetwork(b) => OnNetwork(b)'
    BY <1>1 DEF OnNetwork
  <2>5. TargetsOnNetwork'
    BY <1>1, <1>2, <2>1, <2>3, <2>4 DEF TargetsOnNetwork, ToEnsure
  <2>6. Pruned'
    BY <1>1, <1>2 DEF Pruned, ToPrune
  <2> QED BY <2>2, <2>5, <2>6
<1> QED BY <1>3, <1>4, <1>5, <1>6 DEF IInv

LEMMA ToAttachFacts == ASSUME NEW a PROVE ToAttach(a) \subseteq Names
BY DEF ToAttach, Wanted, TargetsOf, Target, Names

LEMMA FaultFacts ==
    ASSUME Kinds, Fault
    PROVE  faults' \in 0..MaxFaults /\ faults' # 0
BY BoundsAssumption, Counted DEF Kinds, TypeOK, Fault

LEMMA EnsureKeepsIInv ==
    ASSUME IInv, NEW a \in Addr, Ensure(a)
    PROVE  IInv'
<1>1. attached \subseteq attached' /\ attached' \subseteq Names /\ ToAttach(a) \subseteq attached'
  BY ToAttachFacts DEF Ensure, IInv, Kinds, TypeOK
<1>2. a \in Listed(containers) => IsProxy(containers[a])
  BY DEF Listed
<1>3. /\ Ensuring(a) /\ Decide(a, a \in Listed(containers)) /\ Leave
      /\ UNCHANGED <<containers, clean, faults>>
      /\ faults \in 0..MaxFaults /\ clean \in BOOLEAN
  BY DEF Ensure, IInv, Kinds, TypeOK
<1> QED BY <1>1, <1>2, <1>3, DecideKeepsIInv

LEMMA EnsureWithFaultKeepsIInv ==
    ASSUME IInv, NEW a \in Addr, EnsureWithFault(a)
    PROVE  IInv'
<1>1. /\ attached \subseteq attached' /\ attached' \subseteq Names
      /\ Ensuring(a) /\ Leave /\ UNCHANGED containers
      /\ clean' = FALSE /\ faults' \in 0..MaxFaults /\ faults' # 0
  BY ToAttachFacts, FaultFacts DEF EnsureWithFault, IInv, Kinds, TypeOK
<1>2. CASE Decide(a, FALSE)
  BY <1>1, <1>2, DecideKeepsIInv
<1>3. CASE Decide(a, a \in Listed(containers))
  <2>1. a \in Listed(containers) => IsProxy(containers[a])
    BY DEF Listed
  <2> QED BY <1>1, <1>3, <2>1, DecideKeepsIInv
<1>4. CASE todo' = todo \ {a} /\ UNCHANGED <<phase, call, cur, want>>
  <2>1. phase = "ensure" /\ cur = None /\ call = "none"
    BY <1>1 DEF Ensuring, IInv, Kinds, TypeOK
  <2>2. Kinds'
    BY <1>1, <1>4, <2>1 DEF IInv, Kinds, TypeOK, Leave
  <2>3. InHand' /\ Run' /\ BindingsAgree' /\ NothingKept' /\ SoFar'
    BY <1>1, <1>4, <2>1
       DEF Leave, IInv, InHand, Run, BindingsAgree, NothingKept, SoFar
  <2> QED BY <2>2, <2>3 DEF IInv
<1> QED BY <1>2, <1>3, <1>4 DEF EnsureWithFault

-----------------------------------------------------------------------------
(* The calls that change a container.                                      *)

\* At most the container in hand is another one now, and the user's are who they were.
Touched ==
    /\ containers' \in [Names -> Proxies \cup {None, User}]
    /\ \A n \in Names : n # cur => containers'[n] = containers[n]
    /\ containers'[cur] = User <=> containers[cur] = User

LEMMA Holding ==
    ASSUME Kinds, call # "none"
    PROVE  cur \in Addr /\ cur \in Names /\ cur \in todo /\ phase \in {"ensure", "prune"}
BY DEF Kinds, TypeOK, Names

LEMMA SetTouches ==
    ASSUME Kinds, call # "none", containers[cur] # User, NEW c \in Proxies \cup {None}, Set(c)
    PROVE  Touched /\ containers'[cur] = c
BY Holding, AbsenceAssumption, NoneAssumption DEF Kinds, Touched, Set

\* A step that ends the work on the one in hand or goes on to its next call keeps what
\* is not about it; and what is, if it has achieved that.
LEMMA TouchedKeeps ==
    ASSUME IInv, call # "none", Touched, Leave, UNCHANGED attached,
           faults' \in 0..MaxFaults, clean' \in BOOLEAN, clean' => clean,
           Done \/ \E next \in {"create", "start", "remove"} : GoOnWith(next)
    PROVE  /\ Kinds' /\ BindingsAgree' /\ NothingKept'
           /\ (Done /\ clean' =>
                 IF phase = "ensure"
                   THEN IsProxy(containers'[cur]) /\ Serves(containers'[cur], bindings[cur])
                   ELSE ~IsProxy(containers'[cur])) => SoFar'
<1>1. /\ UNCHANGED <<file, pending, bindings, newcomers, changes, moves, phase>>
      /\ cur \in Addr /\ cur \in Names /\ cur \in todo /\ phase \in {"ensure", "prune"}
      /\ cur # None /\ todo' \subseteq todo
  BY Holding, NoneAssumption DEF IInv, Leave, Done, GoOnWith
<1>2. ASSUME NEW n \in Names, IsProxy(containers'[n])
      PROVE  n \in Addr /\ containers'[n] \in Proxies
  BY <1>1, <1>2 DEF IInv, Kinds, TypeOK, Touched, IsProxy
<1>3. Kinds'
  <2>1. CASE Done
    BY <1>1, <1>2, <2>1 DEF IInv, Kinds, TypeOK, Touched, Done
  <2>2. ASSUME NEW next \in {"create", "start", "remove"}, GoOnWith(next) PROVE Kinds'
    BY <1>1, <1>2, <2>2 DEF IInv, Kinds, TypeOK, Touched, GoOnWith
  <2> QED BY <2>1, <2>2
<1>4. BindingsAgree' /\ NothingKept'
  BY <1>1 DEF IInv, BindingsAgree, NothingKept
<1>5. ASSUME Done /\ clean' =>
                 IF phase = "ensure"
                   THEN IsProxy(containers'[cur]) /\ Serves(containers'[cur], bindings[cur])
                   ELSE ~IsProxy(containers'[cur]),
             clean'
      PROVE  Served' /\ TargetsOnNetwork' /\ Pruned'
  <2>1. /\ Served /\ TargetsOnNetwork /\ Pruned
        /\ phase = "prune" => bindings[cur] = None
    BY <1>1, <1>5 DEF IInv, SoFar, InHand
  <2>2. \/ todo' = todo \ {cur} /\ cur' = None /\ Done
        \/ todo' = todo /\ cur' = cur
    BY DEF Done, GoOnWith
  <2>3. \A a \in Addr : a # cur => containers'[a] = containers[a]
    BY DEF Touched, Names
  <2>4. ASSUME NEW a \in Addr, bindings[a] # None, ~ToEnsure(a)'
        PROVE  IsProxy(containers'[a]) /\ Serves(containers'[a], bindings[a])
    <3>1. CASE a = cur
      BY <1>1, <1>5, <2>1, <2>2, <2>4, <3>1 DEF ToEnsure
    <3>2. CASE a # cur
      BY <1>1, <2>1, <2>2, <2>3, <2>4, <3>2 DEF ToEnsure, Served
    <3> QED BY <3>1, <3>2
  <2>5. ASSUME NEW a \in Addr, bindings[a] # None, ~(ToEnsure(a)' /\ a # cur')
        PROVE  OnNetwork(a)'
    <3>1. OnNetwork(a)
      BY <1>1, <2>1, <2>2, <2>5, NoneAssumption DEF ToEnsure, TargetsOnNetwork
    <3>2. \A h \in Wanted(bindings[a]) : h \in Names
      BY DEF Wanted, TargetsOf, Target, Names
    <3> QED BY <1>1, <3>1, <3>2 DEF OnNetwork, Touched
  <2>6. ASSUME NEW a \in Addr, bindings[a] = None, ~ToPrune(a)'
        PROVE  ~IsProxy(containers'[a])
    <3>1. CASE a = cur
      BY <1>1, <1>5, <2>1, <2>2, <2>6, <3>1 DEF ToPrune
    <3>2. CASE a # cur
      BY <1>1, <2>1, <2>2, <2>3, <2>6, <3>2 DEF ToPrune, Pruned
    <3> QED BY <3>1, <3>2
  <2> QED BY <1>1, <2>4, <2>5, <2>6 DEF Served, TargetsOnNetwork, Pruned
<1> QED BY <1>3, <1>4, <1>5 DEF SoFar

LEMMA CreateKeepsIInv ==
    ASSUME IInv, Create
    PROVE  Touched /\ IInv'
<1>1. /\ call = "create" /\ phase = "ensure" /\ want \in Proxies
      /\ want.config \in Configs(bindings[cur])
  BY Holding, NoneAssumption DEF Create, IInv, Kinds, TypeOK, InHand
<1>2. Touched /\ containers'[cur] = want
  BY <1>1, SetTouches, NoneAssumption DEF Create, IInv
<1>3. GoOnWith("start") /\ ~Done
  BY DEF Create, GoOnWith, Done
<1>4. Kinds' /\ BindingsAgree' /\ NothingKept' /\ SoFar'
  BY <1>1, <1>2, <1>3, TouchedKeeps DEF Create, IInv, Kinds, TypeOK
<1>5. InHand'
  BY <1>1, <1>2, <1>3 DEF InHand, GoOnWith, Create, Leave
<1>6. Run'
  BY <1>1, <1>2, <1>3, Holding DEF IInv, Run, GoOnWith, Create, Touched, Names
<1> QED BY <1>2, <1>4, <1>5, <1>6 DEF IInv

LEMMA NameIsTakenKeepsIInv ==
    ASSUME IInv, NameIsTaken
    PROVE  Touched /\ IInv'
<1>1. Touched /\ UNCHANGED <<containers, attached, faults>>
  BY DEF NameIsTaken, dockerVars, Touched, IInv, Kinds
<1>2. call = "create" /\ Done /\ clean' = FALSE /\ Leave
  BY DEF NameIsTaken, GiveUp
<1>3. Kinds' /\ BindingsAgree' /\ NothingKept' /\ SoFar'
  BY <1>1, <1>2, TouchedKeeps DEF IInv, Kinds, TypeOK
<1>4. InHand' /\ Run'
  BY <1>1, <1>2, Holding DEF Done, Leave, IInv, InHand, Run
<1> QED BY <1>1, <1>3, <1>4 DEF IInv

LEMMA StartProxyKeepsIInv ==
    ASSUME IInv, StartProxy
    PROVE  Touched /\ IInv'
<1>1. /\ call = "start" /\ phase = "ensure" /\ want \in Proxies
      /\ want.config \in Configs(bindings[cur]) /\ containers[cur] = want
  BY Holding, NoneAssumption DEF StartProxy, IInv, Kinds, TypeOK, InHand
<1> DEFINE c == [containers[cur] EXCEPT !.running = TRUE]
<1>2. IsProxy(c) /\ c \in Proxies /\ c.config = want.config /\ c.running = TRUE
      /\ containers[cur] # User
  <2>1. IsProxy(want) /\ IsProxy(c) /\ c \in Proxies /\ c.config = want.config /\ c.running = TRUE
    BY <1>1, RunningFacts
  <2> QED BY <1>1, <2>1 DEF IsProxy
<1>3. Set(c)
  BY DEF StartProxy
<1> HIDE DEF c
<1>4. Touched /\ containers'[cur] = c
  BY <1>1, <1>2, <1>3, SetTouches DEF IInv
<1>5. Done /\ Leave /\ UNCHANGED <<attached, clean, faults>>
  BY DEF StartProxy
<1>6. Serves(c, bindings[cur])
  BY <1>1, <1>2, ConfigServes
<1>7. Kinds' /\ BindingsAgree' /\ NothingKept' /\ SoFar'
  BY <1>1, <1>2, <1>4, <1>5, <1>6, TouchedKeeps DEF IInv, Kinds, TypeOK
<1>8. InHand'
  BY <1>1, <1>5 DEF InHand, Done
<1>9. Run'
  BY <1>1, <1>2, <1>4, <1>5, Holding DEF IInv, Run, Done, Touched, Names
<1> QED BY <1>4, <1>7, <1>8, <1>9 DEF IInv

LEMMA StopKeepsIInv ==
    ASSUME IInv, Stop
    PROVE  Touched /\ IInv'
<1>1. /\ call = "stop" /\ IsProxy(containers[cur]) /\ cur \in Addr /\ cur \in todo
      /\ containers[cur] \in Proxies /\ containers[cur] # User
  BY Holding DEF Stop, IInv, InHand, Kinds, IsProxy
<1> DEFINE c == [containers[cur] EXCEPT !.running = FALSE]
<1>2. IsProxy(c) /\ c \in Proxies
  BY <1>1, RunningFacts
<1>3. Set(c)
  BY <1>1 DEF Stop, Halted
<1> HIDE DEF c
<1>4. Touched /\ containers'[cur] = c
  BY <1>1, <1>2, <1>3, SetTouches DEF IInv
<1>5. GoOnWith("remove") /\ ~Done /\ Leave /\ UNCHANGED <<attached, clean, faults>>
  BY DEF Stop, GoOnWith, Done
<1>6. Kinds' /\ BindingsAgree' /\ NothingKept' /\ SoFar'
  BY <1>1, <1>4, <1>5, TouchedKeeps DEF IInv, Kinds, TypeOK
<1>7. \A a \in Addr : a # cur => containers'[a] = containers[a]
  BY <1>4 DEF Touched, Names
<1>8. InHand'
  BY <1>1, <1>2, <1>4, <1>5, <1>7 DEF IInv, Kinds, InHand, GoOnWith, Leave
<1>9. Run'
  BY <1>1, <1>5, <1>7 DEF IInv, Run, GoOnWith
<1> QED BY <1>4, <1>6, <1>8, <1>9 DEF IInv

LEMMA RemoveKeepsIInv ==
    ASSUME IInv, Remove
    PROVE  Touched /\ IInv'
<1>1. /\ call = "remove" /\ IsProxy(containers[cur]) /\ cur \in Addr /\ cur \in todo
      /\ containers[cur] # User /\ phase \in {"ensure", "prune"} /\ ~IsProxy(None)
  BY Holding DEF Remove, IInv, InHand, IsProxy
<1>2. Touched /\ containers'[cur] = None
  BY <1>1, SetTouches DEF Remove, IInv
<1>3. Leave /\ UNCHANGED <<attached, clean, faults>>
  BY DEF Remove
<1>4. \/ phase = "ensure" /\ GoOnWith("create") /\ ~Done
      \/ phase = "prune" /\ Done
  BY <1>1 DEF Remove, GoOnWith, Done
<1>5. Kinds' /\ BindingsAgree' /\ NothingKept' /\ SoFar'
  BY <1>1, <1>2, <1>3, <1>4, TouchedKeeps DEF IInv, Kinds, TypeOK
<1>6. \A a \in Addr : a # cur => containers'[a] = containers[a]
  BY <1>2 DEF Touched, Names
<1>7. InHand'
  BY <1>1, <1>3, <1>4, <1>6 DEF IInv, Kinds, InHand, GoOnWith, Done, Leave
<1>8. Run'
  BY <1>1, <1>2, <1>3, <1>4, <1>6 DEF IInv, Run, GoOnWith, Done
<1> QED BY <1>2, <1>5, <1>7, <1>8 DEF IInv

\* Whatever a failed call has done, nothing is in hand and the pass is not clean.
LEMMA CallFailsKeepsIInv ==
    ASSUME IInv, CallFails
    PROVE  Touched /\ IInv'
<1>1. /\ call # "none" /\ Done /\ clean' = FALSE /\ Leave /\ UNCHANGED attached
      /\ faults' \in 0..MaxFaults /\ faults' # 0
  BY FaultFacts DEF CallFails, GiveUp, IInv
<1>2. Touched
  <2>1. CASE UNCHANGED containers
    BY <2>1 DEF Touched, IInv, Kinds
  <2>2. CASE call = "create" /\ containers[cur] = None /\ Set(want)
    <3>1. want \in Proxies
      BY <2>2, Holding, NoneAssumption DEF IInv, Kinds, TypeOK, InHand
    <3> QED BY <2>2, <3>1, SetTouches, NoneAssumption DEF IInv
  <2>3. CASE call = "start" /\ Set([containers[cur] EXCEPT !.running = TRUE])
    <3>1. containers[cur] \in Proxies
      BY <2>3, Holding, NoneAssumption DEF IInv, Kinds, TypeOK, InHand
    <3>2. containers[cur] # User /\ [containers[cur] EXCEPT !.running = TRUE] \in Proxies
      BY <3>1, RunningFacts DEF IsProxy
    <3> QED BY <2>3, <3>2, SetTouches DEF IInv
  <2>4. CASE call = "stop" /\ Set(Halted(containers[cur]))
    <3>1. IsProxy(containers[cur]) /\ containers[cur] # User /\ containers[cur] \in Proxies
      BY <2>4, Holding DEF IInv, Kinds, InHand, IsProxy
    <3>2. Halted(containers[cur]) \in Proxies
      BY <3>1, RunningFacts DEF Halted
    <3> QED BY <2>4, <3>1, <3>2, SetTouches DEF IInv
  <2>5. CASE call = "remove" /\ Set(None)
    <3>1. containers[cur] # User
      BY <2>5 DEF IInv, InHand, IsProxy
    <3> QED BY <2>5, <3>1, SetTouches DEF IInv
  <2> QED BY <2>1, <2>2, <2>3, <2>4, <2>5 DEF CallFails
<1>3. Kinds' /\ BindingsAgree' /\ NothingKept' /\ SoFar'
  BY <1>1, <1>2, TouchedKeeps DEF IInv
<1>4. \A a \in Addr : a # cur => containers'[a] = containers[a]
  BY <1>2 DEF Touched, Names
<1>5. InHand' /\ Run'
  BY <1>1, <1>4 DEF IInv, Kinds, InHand, Run, Done, Leave
<1> QED BY <1>2, <1>3, <1>5 DEF IInv

LEMMA EndEnsureKeepsIInv ==
    ASSUME IInv, EndEnsure
    PROVE  IInv'
<1>1. /\ phase = "ensure" /\ phase' = "prune" /\ call = "none" /\ cur = None /\ todo = {}
      /\ UNCHANGED <<containers, attached, file, pending, bindings, newcomers, changes, moves,
                     call, cur, want>>
      /\ clean' \in BOOLEAN /\ (clean' => clean /\ todo' = Superfluous)
      /\ todo' \in {{}, Superfluous}
      /\ faults' \in 0..MaxFaults /\ (faults' = 0 => faults = 0)
  <2>1. faults \in 0..MaxFaults /\ clean \in BOOLEAN /\ (call = "none" => cur = None)
    BY DEF IInv, Kinds, TypeOK
  <2>2. Fault => faults' \in 0..MaxFaults /\ faults' # 0
    BY FaultFacts DEF IInv
  <2>3. /\ phase = "ensure" /\ phase' = "prune" /\ call = "none" /\ todo = {}
        /\ UNCHANGED <<dockerVars, call, cur, want>> /\ Leave
        /\ \/ todo' = Superfluous /\ UNCHANGED <<clean, faults>>
           \/ todo' = {} /\ Fault /\ clean' = FALSE
    BY DEF EndEnsure
  <2>4. CASE todo' = Superfluous /\ UNCHANGED <<clean, faults>>
    BY <2>1, <2>3, <2>4 DEF dockerVars, Leave
  <2>5. CASE todo' = {} /\ Fault /\ clean' = FALSE
    BY <2>1, <2>2, <2>3, <2>5 DEF dockerVars, Leave
  <2> QED BY <2>3, <2>4, <2>5
<1>2. /\ Superfluous \subseteq Addr
      /\ \A a \in Superfluous : IsProxy(containers[a]) /\ bindings[a] = None
  BY DEF Superfluous, Listed
<1>3. Kinds'
  BY <1>1, <1>2 DEF IInv, Kinds, TypeOK
<1>4. InHand' /\ Run' /\ BindingsAgree' /\ NothingKept'
  BY <1>1, <1>2 DEF IInv, InHand, Run, BindingsAgree, NothingKept
<1>5. SoFar'
  <2> SUFFICES ASSUME clean' PROVE Served' /\ TargetsOnNetwork' /\ Pruned'
    BY DEF SoFar
  <2>1. Served /\ TargetsOnNetwork
    BY <1>1 DEF IInv, SoFar
  <2>2. Served'
    BY <1>1, <2>1 DEF Served, ToEnsure
  <2>3. TargetsOnNetwork'
    BY <1>1, <2>1 DEF TargetsOnNetwork, ToEnsure, OnNetwork
  <2>4. Pruned'
    BY <1>1 DEF Pruned, ToPrune, Superfluous, Listed
  <2> QED BY <2>2, <2>3, <2>4
<1> QED BY <1>3, <1>4, <1>5 DEF IInv

LEMMA PruneKeepsIInv ==
    ASSUME IInv, NEW a \in Addr, Prune(a)
    PROVE  IInv'
<1>1. /\ phase = "prune" /\ call = "none" /\ a \in todo /\ a # None
      /\ call' = "stop" /\ cur' = a
      /\ UNCHANGED <<containers, attached, file, pending, bindings, newcomers, changes, moves,
                     phase, todo, want, clean, faults>>
  BY NoneAssumption DEF Prune, dockerVars, Leave
<1>2. Kinds'
  BY <1>1 DEF IInv, Kinds, TypeOK
<1>3. InHand' /\ Run' /\ BindingsAgree' /\ NothingKept'
  BY <1>1 DEF IInv, InHand, Run, BindingsAgree, NothingKept
<1>4. SoFar'
  BY <1>1 DEF IInv, SoFar, Served, TargetsOnNetwork, OnNetwork, Pruned, ToEnsure, ToPrune
<1> QED BY <1>2, <1>3, <1>4 DEF IInv

LEMMA EndPruneKeepsIInv ==
    ASSUME IInv, EndPrune
    PROVE  IInv'
<1>1. /\ phase = "prune" /\ call = "none" /\ todo = {} /\ phase' = "idle" /\ cur = None
      /\ UNCHANGED <<containers, attached, file, pending, bindings, newcomers, changes, moves,
                     call, cur, todo, want, clean, faults>>
  BY DEF EndPrune, dockerVars, Leave, IInv, Kinds, TypeOK
<1>2. Kinds'
  BY <1>1 DEF IInv, Kinds, TypeOK
<1>3. InHand' /\ Run' /\ BindingsAgree' /\ NothingKept'
  BY <1>1 DEF IInv, InHand, Run, BindingsAgree, NothingKept
<1>4. SoFar'
  BY <1>1 DEF IInv, SoFar, Served, TargetsOnNetwork, OnNetwork, Pruned, ToEnsure, ToPrune
<1> QED BY <1>2, <1>3, <1>4 DEF IInv

-----------------------------------------------------------------------------
(* The invariant, and what follows from it.                                *)

\* What changes a container is a call of the controller, which touches the one in hand,
\* or a user.
LEMMA WhoTouches ==
    ASSUME IInv, [Next]_vars, containers' # containers
    PROVE  \/ Touched
           \/ \E n \in Names : UserStarts(n) \/ UserRemoves(n)
BY CreateKeepsIInv, NameIsTakenKeepsIInv, StartProxyKeepsIInv, StopKeepsIInv,
   RemoveKeepsIInv, CallFailsKeepsIInv
   DEF Next, vars, Change, Start, ReadDefinitions, Ensure, EnsureWithFault, Prune,
       EndEnsure, EndPrune, Crash, dockerVars, Names

LEMMA NextKeepsIInv == IInv /\ [Next]_vars => IInv'
<1> SUFFICES ASSUME IInv, [Next]_vars PROVE IInv'
  OBVIOUS
<1>1. ASSUME NEW a \in Addr, NEW d \in Defs \cup {None}, Change(a, d) PROVE IInv'
  BY <1>1, ChangeKeepsIInv
<1>2. ASSUME NEW n \in Addr \cup Name, UserStarts(n) \/ UserRemoves(n) PROVE IInv'
  BY <1>2, UserKeepsIInv DEF Names
<1>3. ASSUME NEW a \in Addr, Ensure(a) \/ EnsureWithFault(a) \/ Prune(a) PROVE IInv'
  BY <1>3, EnsureKeepsIInv, EnsureWithFaultKeepsIInv, PruneKeepsIInv
<1>4. CASE Create \/ NameIsTaken \/ StartProxy \/ Stop \/ Remove \/ CallFails
  BY <1>4, CreateKeepsIInv, NameIsTakenKeepsIInv, StartProxyKeepsIInv, StopKeepsIInv,
     RemoveKeepsIInv, CallFailsKeepsIInv
<1>5. CASE Start \/ ReadDefinitions \/ EndEnsure \/ EndPrune \/ Crash
  BY <1>5, StartKeepsIInv, ReadKeepsIInv, EndEnsureKeepsIInv, EndPruneKeepsIInv, CrashKeepsIInv
<1>6. CASE UNCHANGED vars
  BY <1>6, StutterKeepsIInv
<1> QED BY <1>1, <1>2, <1>3, <1>4, <1>5, <1>6 DEF Next

\* The invariant is inductive: passes, failing calls, stops and users keep it.
THEOREM Invariance == Spec => []IInv
BY InitIInv, NextKeepsIInv, PTL DEF Spec

\* Values are of the right kind, and a call is made for one that the pass is looking at.
THEOREM TypeCorrect == Spec => []TypeOK
<1>1. IInv => TypeOK
  BY DEF IInv, Kinds
<1> QED BY <1>1, Invariance, PTL

\* A clean pass leaves exactly one proxy for every service, configured for it.
THEOREM CleanPassesAreInStep == Spec => []InStep
<1>1. IInv => InStep
  <2> SUFFICES ASSUME IInv, phase = "idle", ~pending, clean, NEW a \in Addr
               PROVE  IF file[a] = None THEN ~IsProxy(containers[a])
                      ELSE /\ IsProxy(containers[a])
                           /\ Serves(containers[a], file[a])
                           /\ faults = 0 => containers[a].running
    BY DEF InStep, Settled
  <2>1. Agree(bindings[a], file[a]) /\ Served /\ Pruned
    BY DEF IInv, BindingsAgree, SoFar
  <2>2. call = "none"
    BY DEF IInv, Kinds, TypeOK
  <2>3. CASE file[a] = None
    BY <2>1, <2>3 DEF Agree, Pruned, ToPrune
  <2>4. CASE file[a] # None
    <3>1. bindings[a] # None
      BY <2>1, <2>4, AgreeFacts
    <3>2. IsProxy(containers[a]) /\ Serves(containers[a], bindings[a])
      BY <2>1, <3>1 DEF Served, ToEnsure
    <3> QED BY <2>1, <2>2, <2>4, <3>2, AgreeFacts DEF IInv, Run
  <2> QED BY <2>3, <2>4
<1> QED BY <1>1, Invariance, PTL

\* A clean pass leaves the targets on the network.
THEOREM CleanPassesAttach == Spec => []TargetsAttached
<1>1. IInv => TargetsAttached
  <2> SUFFICES ASSUME IInv, phase = "idle", ~pending, clean, NEW a \in Addr, file[a] # None,
                      NEW h \in Wanted(file[a]), containers[h] = User
               PROVE  h \in attached \cup newcomers
    BY DEF TargetsAttached, Settled
  <2>1. Agree(bindings[a], file[a]) /\ TargetsOnNetwork
    BY DEF IInv, BindingsAgree, SoFar
  <2>2. bindings[a] # None /\ Wanted(bindings[a]) = Wanted(file[a])
    BY <2>1, AgreeFacts
  <2> QED BY <2>1, <2>2 DEF TargetsOnNetwork, OnNetwork, ToEnsure
<1> QED BY <1>1, Invariance, PTL

\* The controller removes and replaces no container of the user's.
THEOREM UsersKeepTheirs == Spec => UserContainersStay
<1> DEFINE Stay ==
        \A n \in Names : containers[n] = User /\ containers'[n] # User => UserRemoves(n)
<1>1. ASSUME IInv, [Next]_vars PROVE Stay
  <2> SUFFICES ASSUME NEW n \in Names, containers[n] = User, containers'[n] # User
               PROVE  UserRemoves(n)
    OBVIOUS
  <2>1. ~Touched
    BY DEF Touched
  <2>2. PICK m \in Names : UserStarts(m) \/ UserRemoves(m)
    BY <1>1, <2>1, WhoTouches
  <2>3. m = n
    BY <1>1, <2>2, NoneAssumption DEF UserStarts, UserRemoves, IInv, Kinds
  <2> QED BY <1>1, <2>2, <2>3, NoneAssumption DEF UserStarts
<1>2. IInv /\ [Next]_vars => [Stay]_vars
  BY <1>1
<1> HIDE DEF Stay
<1>3. Spec => [][Stay]_vars
  BY <1>2, Invariance, PTL DEF Spec
<1> QED BY <1>3 DEF UserContainersStay, Stay
=============================================================================
