---------------------------- MODULE ConnectorsProofs ----------------------------
(***************************************************************************)
(* Proofs about Connectors, for any number of processes, any tokens, any   *)
(* names and any bounds.                                                   *)
(***************************************************************************)
EXTENDS Connectors, TLAPS

-----------------------------------------------------------------------------
(* Names.                                                                  *)

Fits(taken, m) ==
    /\ \A n \in taken : Captured(n) < m
    /\ m = 1 \/ \E n \in taken : Captured(n) + 1 = m

LEMMA CapturedType ==
    ASSUME NEW n \in Nat
    PROVE  Captured(n) \in 0..9 /\ (n < 10 => Captured(n) = n)
  BY DEF Captured

\* There is always a largest digit, or none.
LEMMA SomeNameFits ==
    ASSUME NEW taken \in SUBSET Nat
    PROVE  \E m \in 1..10 : Fits(taken, m)
  <1> DEFINE Has(k) == \E n \in taken : Captured(n) = k
  <1>1. \A n \in taken : Captured(n) \in 0..9
    BY CapturedType
  <1>2. ASSUME NEW m \in 1..9, Has(m), \A k \in (m + 1)..9 : ~Has(k)
        PROVE  Fits(taken, m + 1)
    BY <1>1, <1>2 DEF Fits
  <1>3. ASSUME \A k \in 1..9 : ~Has(k)
        PROVE  Fits(taken, 1)
    BY <1>1, <1>3 DEF Fits
  <1>4. \/ \A k \in 1..9 : ~Has(k)
        \/ \E m \in 1..9 : Has(m) /\ \A k \in (m + 1)..9 : ~Has(k)
    <2> HIDE DEF Has
    <2>1. CASE Has(9)  BY <2>1
    <2>2. CASE ~Has(9) /\ Has(8)  BY <2>2
    <2>3. CASE ~Has(9) /\ ~Has(8) /\ Has(7)  BY <2>3
    <2>4. CASE ~Has(9) /\ ~Has(8) /\ ~Has(7) /\ Has(6)  BY <2>4
    <2>5. CASE ~Has(9) /\ ~Has(8) /\ ~Has(7) /\ ~Has(6) /\ Has(5)  BY <2>5
    <2>6. CASE /\ ~Has(9) /\ ~Has(8) /\ ~Has(7) /\ ~Has(6) /\ ~Has(5)
               /\ Has(4) \/ Has(3) \/ Has(2) \/ Has(1)
      BY <2>6
    <2>7. CASE /\ ~Has(9) /\ ~Has(8) /\ ~Has(7) /\ ~Has(6) /\ ~Has(5)
               /\ ~Has(4) /\ ~Has(3) /\ ~Has(2) /\ ~Has(1)
      BY <2>7
    <2> QED  BY <2>1, <2>2, <2>3, <2>4, <2>5, <2>6, <2>7
  <1> QED  BY <1>2, <1>3, <1>4

LEMMA GeneratedFits ==
    ASSUME NEW taken \in SUBSET Nat
    PROVE  Generated(taken) \in 1..10 /\ Fits(taken, Generated(taken))
  BY SomeNameFits DEF Generated, Fits

LEMMA NamesAreNumbers == Name \subseteq Nat
  BY GivenAssumption DEF Name

LEMMA GeneratedType == Generated(Taken) \in Name
  BY GeneratedFits, NamesAreNumbers DEF Name, Taken

\* The name that generateConnectorName makes up is not taken, as long as all names
\* have one digit.
THEOREM NameIsFree == Spec => []GeneratedIsFree
  <1>1. GeneratedIsFree
    BY GeneratedFits, NamesAreNumbers, CapturedType DEF GeneratedIsFree, Taken, Fits
  <1> QED  BY <1>1, PTL

-----------------------------------------------------------------------------
(* Types.                                                                  *)

\* What moving a command on, and ending it, do to the commands.
LEMMA GoToSteps ==
    ASSUME cmd \in [Cli -> Command], NEW c \in Cli, NEW label \in Label, GoTo(c, label)
    PROVE  /\ cmd' \in [Cli -> Command]
           /\ \A d \in Cli :
                /\ cmd'[d].pc = IF d = c THEN label ELSE cmd[d].pc
                /\ cmd'[d].name = cmd[d].name /\ cmd'[d].token = cmd[d].token
                /\ cmd'[d].op = cmd[d].op /\ cmd'[d].snap = cmd[d].snap
  <1> DEFINE moved == [cmd[c] EXCEPT !.pc = label]
  <1>1. cmd[c] \in Command
    OBVIOUS
  <1>2. /\ moved \in Command
        /\ moved.pc = label /\ moved.name = cmd[c].name /\ moved.token = cmd[c].token
        /\ moved.op = cmd[c].op /\ moved.snap = cmd[c].snap
    BY <1>1 DEF Command
  <1>3. cmd' = [cmd EXCEPT ![c] = moved]
    BY DEF GoTo
  <1> HIDE DEF moved
  <1> QED  BY <1>2, <1>3

LEMMA EndSteps ==
    ASSUME cmd \in [Cli -> Command], NEW c \in Cli, NEW label \in Label, End(c, label)
    PROVE  /\ cmd' \in [Cli -> Command]
           /\ \A d \in Cli :
                /\ cmd'[d].pc = IF d = c THEN label ELSE cmd[d].pc
                /\ cmd'[d].name = cmd[d].name /\ cmd'[d].token = cmd[d].token
                /\ cmd'[d].op = cmd[d].op
                /\ d # c => cmd'[d].snap = cmd[d].snap
  <1> DEFINE ended == [cmd[c] EXCEPT !.pc = label, !.snap = None]
  <1>1. cmd[c] \in Command
    OBVIOUS
  <1>2. /\ ended \in Command
        /\ ended.pc = label /\ ended.name = cmd[c].name /\ ended.token = cmd[c].token
        /\ ended.op = cmd[c].op
    BY <1>1 DEF Command
  <1>3. cmd' = [cmd EXCEPT ![c] = ended]
    BY DEF End
  <1> HIDE DEF ended
  <1> QED  BY <1>2, <1>3

LEMMA EditedConfigs ==
    ASSUME NEW cf \in Config, NEW n \in Name, NEW source \in Token \cup {Partial}
    PROVE  /\ WithConnector(cf, n, source) \in Config
           /\ WithConnector(cf, n, source).conns[n] = source
           /\ n \in WithConnector(cf, n, source).profiles
           /\ WithoutConnector(cf, n) \in Config
           /\ WithoutConnector(cf, n).conns[n] = None
  BY DEF WithConnector, WithoutConnector, Config

LEMMA SourceType ==
    ASSUME NEW content
    PROVE  Source(content) \in Token \cup {Partial}
  BY DEF Source

LEMMA NoConnectorsType == NoConnectors \in Config
  BY DEF NoConnectors, Config

LEMMA InitType == Init => TypeOK
  <1> SUFFICES ASSUME Init PROVE TypeOK
    OBVIOUS
  <1> DEFINE idle == [op |-> "connect", name |-> None, token |-> None, pc |-> "idle",
                      snap |-> None]
  <1>1. idle \in Command /\ Prepared(idle)
    BY DEF Command, Label, Prepared
  <1>2. cmd = [c \in Cli |-> idle]
    BY DEF Init
  <1> HIDE DEF idle
  <1>3. cmd \in [Cli -> Command] /\ \A c \in Cli : Prepared(cmd[c])
    BY <1>1, <1>2
  <1>4. dirs \in [Name -> Token \cup {None, Partial}]
    BY DEF Init
  <1>5. /\ config \in Config \cup {Truncated, Corrupt} /\ loaded \in Config
        /\ router \in {"absent", "stopped", "running"}
        /\ overlap \in BOOLEAN /\ edge \in BOOLEAN
    BY NoConnectorsType DEF Init
  <1>6. commands \in 0..MaxCommands /\ faults \in 0..MaxFaults
    BY BoundsAssumption DEF Init
  <1> QED  BY <1>3, <1>4, <1>5, <1>6 DEF TypeOK

CommandsOK == cmd \in [Cli -> Command] /\ \A c \in Cli : Prepared(cmd[c])

LEMMA MoveType ==
    ASSUME CommandsOK, NEW c \in Cli, NEW k \in Command, Prepared(k),
           cmd' = [cmd EXCEPT ![c] = k]
    PROVE  CommandsOK'
  BY DEF CommandsOK

LEMMA GoToType ==
    ASSUME CommandsOK, NEW c \in Cli, NEW label \in Label, GoTo(c, label),
           Prepared([cmd[c] EXCEPT !.pc = label])
    PROVE  CommandsOK'
  <1>1. [cmd[c] EXCEPT !.pc = label] \in Command
    BY DEF CommandsOK, Command
  <1> QED  BY <1>1, MoveType DEF GoTo

LEMMA EndType ==
    ASSUME CommandsOK, NEW c \in Cli, NEW label \in Finished, End(c, label)
    PROVE  CommandsOK'
  <1> DEFINE k == [cmd[c] EXCEPT !.pc = label, !.snap = None]
  <1>1. k \in Command /\ Prepared(k)
    BY DEF CommandsOK, Command, Finished, Label, Prepared
  <1>2. cmd' = [cmd EXCEPT ![c] = k]
    BY DEF End
  <1> HIDE DEF k
  <1> QED  BY <1>1, <1>2, MoveType

LEMMA TypeStep == TypeOK /\ [Next]_vars => TypeOK'
  <1> SUFFICES ASSUME TypeOK, [Next]_vars PROVE TypeOK'
    OBVIOUS
  <1>0. CommandsOK
    BY DEF TypeOK, CommandsOK
  <1> DEFINE SiteOK == /\ edge \in BOOLEAN
                       /\ dirs \in [Name -> Token \cup {None, Partial}]
                       /\ config \in Config \cup {Truncated, Corrupt}
                       /\ router \in {"absent", "stopped", "running"}
                       /\ loaded \in Config
  <1> DEFINE RestOK == /\ overlap \in BOOLEAN
                       /\ commands \in 0..MaxCommands /\ faults \in 0..MaxFaults
  <1>1. ASSUME CommandsOK', SiteOK', RestOK'
        PROVE  TypeOK'
    BY <1>1 DEF TypeOK, CommandsOK
  <1>2. SiteOK /\ RestOK
    BY DEF TypeOK
  <1>3. UNCHANGED Rest => RestOK'
    BY <1>2 DEF Rest
  <1>4. UNCHANGED site => SiteOK'
    BY <1>2 DEF site
  <1>5. Fault => RestOK'
    BY <1>2, BoundsAssumption DEF Fault
  <1> HIDE DEF SiteOK, RestOK
  <1>6. ASSUME NEW c \in Cli, NEW op \in {"connect", "disconnect"}, NEW n \in Name \cup {None},
               NEW t \in Token \cup {None}, NEW label \in {"name", "mkdir", "read", "failed"},
               label \in {"mkdir", "read"} => n \in Name,
               label \in {"mkdir", "name"} => t \in Token,
               Begin(c, op, n, t, label)
        PROVE  TypeOK'
    <2> DEFINE k == [op |-> op, name |-> n, token |-> t, snap |-> None,
                     pc |-> IF router = "absent" THEN "failed" ELSE label]
               Other(d) == [cmd[d] EXCEPT !.pc = "idle"]
    <2>1. k \in Command /\ Prepared(k)
      BY <1>6 DEF Command, Label, Prepared
    <2>2. \A d \in Cli : Other(d) \in Command /\ Prepared(Other(d))
      BY <1>0 DEF CommandsOK, Command, Label, Prepared
    <2>3. cmd' = [d \in Cli |-> IF d = c THEN k ELSE IF Busy(d) THEN cmd[d] ELSE Other(d)]
      BY <1>6 DEF Begin
    <2> HIDE DEF k, Other
    <2>4. CommandsOK'
      BY <1>0, <2>1, <2>2, <2>3 DEF CommandsOK
    <2>5. RestOK'
      BY <1>2, <1>6, BoundsAssumption DEF Begin, RestOK
    <2> QED  BY <1>1, <1>4, <1>6, <2>4, <2>5 DEF Begin
  <1>7. ASSUME NEW c \in Cli, NEW t \in Token, Connect(c, t)
        PROVE  TypeOK'
    <2>1. PICK label \in {"name", "failed"} : Begin(c, "connect", None, t, label)
      BY <1>7 DEF Connect
    <2> QED  BY <1>6, <2>1
  <1>8. ASSUME NEW c \in Cli, NEW t \in Token, NEW n \in Given, ConnectAs(c, n, t)
        PROVE  TypeOK'
    BY <1>6, <1>8 DEF ConnectAs, Name
  <1>9. ASSUME NEW c \in Cli, NEW n \in Known, Disconnect(c, n)
        PROVE  TypeOK'
    <2>1. n \in Name
      BY DEF Known, Taken, Name
    <2> QED  BY <1>6, <1>9, <2>1 DEF Disconnect
  <1>10. ASSUME NEW c \in Cli, ChooseName(c)
         PROVE  TypeOK'
    <2> DEFINE k == [cmd[c] EXCEPT !.name = Generated(Taken), !.pc = "mkdir"]
    <2>1. k \in Command /\ Prepared(k)
      BY <1>0, <1>10, GeneratedType DEF CommandsOK, Command, Label, Prepared, ChooseName, At
    <2>2. cmd' = [cmd EXCEPT ![c] = k]
      BY <1>10 DEF ChooseName
    <2> HIDE DEF k
    <2> QED  BY <1>0, <1>1, <1>3, <1>4, <1>10, <2>1, <2>2, MoveType DEF ChooseName
  <1>11. ASSUME NEW c \in Cli, MakeDirectory(c)
         PROVE  TypeOK'
    <2>1. SiteOK'
      BY <1>2, <1>11 DEF MakeDirectory, SiteOK, GoTo, End
    <2>2. CASE GoTo(c, "credentials")
      <3>1. Prepared([cmd[c] EXCEPT !.pc = "credentials"])
        BY <1>0, <1>11 DEF MakeDirectory, At, CommandsOK, Command, Prepared
      <3> QED  BY <1>0, <1>1, <1>3, <1>11, <2>1, <2>2, <3>1, GoToType DEF MakeDirectory, Label
    <2>3. CASE End(c, "failed")
      BY <1>0, <1>1, <1>3, <1>11, <2>1, <2>3, EndType DEF MakeDirectory, Finished
    <2> QED  BY <1>11, <2>2, <2>3 DEF MakeDirectory
  <1>12. ASSUME NEW c \in Cli, WriteCredentials(c)
         PROVE  TypeOK'
    <2>1. SiteOK'
      BY <1>0, <1>2, <1>12 DEF WriteCredentials, SiteOK, GoTo, End, CommandsOK, Prepared, At
    <2>2. CASE GoTo(c, "read")
      <3>1. Prepared([cmd[c] EXCEPT !.pc = "read"])
        BY <1>0, <1>12 DEF WriteCredentials, At, CommandsOK, Command, Prepared
      <3> QED  BY <1>0, <1>1, <1>3, <1>12, <2>1, <2>2, <3>1, GoToType DEF WriteCredentials, Label
    <2>3. CASE End(c, "failed")
      BY <1>0, <1>1, <1>3, <1>12, <2>1, <2>3, EndType DEF WriteCredentials, Finished
    <2> QED  BY <1>12, <2>2, <2>3 DEF WriteCredentials
  <1>13. ASSUME NEW c \in Cli, ReadConfig(c)
         PROVE  TypeOK'
    <2> DEFINE n == cmd[c].name
               Keep(cf, label) == [cmd[c] EXCEPT !.snap = cf, !.pc = label]
    <2>1. n \in Name
      BY <1>0, <1>13 DEF ReadConfig, At, CommandsOK, Prepared
    <2>2. ASSUME NEW cf \in Config, NEW label \in {"truncate", "rmdir"}
          PROVE  Keep(cf, label) \in Command /\ Prepared(Keep(cf, label))
      <3>1. cmd[c] \in Command /\ label \in Label
        BY <1>0 DEF CommandsOK, Label
      <3>2. /\ Keep(cf, label) \in Command
            /\ Keep(cf, label).name = n /\ Keep(cf, label).snap = cf
            /\ Keep(cf, label).pc = label
        BY <2>2, <3>1 DEF Command
      <3> HIDE DEF Keep
      <3> QED BY <2>1, <3>2 DEF Prepared
    <2>3. CASE End(c, "failed")
      BY <1>0, <1>1, <1>3, <1>4, <1>13, <2>3, EndType DEF ReadConfig, Finished
    <2>4. CASE GoTo(c, "inspect")
      <3>1. Prepared([cmd[c] EXCEPT !.pc = "inspect"])
        BY <1>0 DEF CommandsOK, Command, Prepared
      <3> QED  BY <1>0, <1>1, <1>3, <1>4, <1>13, <2>4, <3>1, GoToType DEF ReadConfig, Label
    <2>5. ASSUME NEW cf \in Config, NEW label \in {"truncate", "rmdir"},
                 cmd' = [cmd EXCEPT ![c] = Keep(cf, label)]
          PROVE  TypeOK'
      <3> HIDE DEF Keep
      <3> QED  BY <1>0, <1>1, <1>3, <1>4, <1>13, <2>2, <2>5, MoveType DEF ReadConfig
    <2>6. config \in Config => WithConnector(config, n, Source(dirs[n])) \in Config
                               /\ WithoutConnector(config, n) \in Config
      BY <2>1, SourceType, EditedConfigs
    <2> QED  BY <1>13, <2>3, <2>4, <2>5, <2>6 DEF ReadConfig
  <1>14. ASSUME NEW c \in Cli, RemoveDirectory(c)
         PROVE  TypeOK'
    <2>1. SiteOK'
      BY <1>2, <1>14 DEF RemoveDirectory, SiteOK
    <2>2. Prepared([cmd[c] EXCEPT !.pc = "truncate"])
      BY <1>0, <1>14 DEF RemoveDirectory, At, CommandsOK, Command, Prepared
    <2> QED  BY <1>0, <1>1, <1>3, <1>14, <2>1, <2>2, GoToType DEF RemoveDirectory, Label
  <1>15. ASSUME NEW c \in Cli, TruncateConfig(c)
         PROVE  TypeOK'
    <2>1. SiteOK'
      BY <1>2, <1>15 DEF TruncateConfig, SiteOK
    <2>2. Prepared([cmd[c] EXCEPT !.pc = "write"])
      BY <1>0, <1>15 DEF TruncateConfig, At, CommandsOK, Command, Prepared
    <2> QED  BY <1>0, <1>1, <1>3, <1>15, <2>1, <2>2, GoToType DEF TruncateConfig, Label
  <1>16. ASSUME NEW c \in Cli, WriteConfig(c)
         PROVE  TypeOK'
    <2>1. SiteOK'
      BY <1>0, <1>2, <1>16 DEF WriteConfig, Written, SiteOK, CommandsOK, Prepared, At
    <2>2. Prepared([cmd[c] EXCEPT !.pc = "inspect"])
      BY <1>0 DEF CommandsOK, Command, Prepared
    <2> QED  BY <1>0, <1>1, <1>3, <1>16, <2>1, <2>2, GoToType DEF WriteConfig, Label
  <1>17. ASSUME NEW c \in Cli, Restart(c)
         PROVE  TypeOK'
    <2>1. UNCHANGED Rest
      BY <1>17 DEF Restart, InspectRouter, StopRouter, RemoveRouter, CreateRouter, StartRouter,
                   RestartOthers
    <2>2. SiteOK'
      BY <1>2, <1>17 DEF Restart, InspectRouter, StopRouter, RemoveRouter, CreateRouter,
                         StartRouter, RestartOthers, SiteOK, site
    <2>3. \/ \E label \in {"stop", "remove", "create", "start", "others"} : GoTo(c, label)
          \/ \E label \in {"done", "failed"} : End(c, label)
      BY <1>17 DEF Restart, InspectRouter, StopRouter, RemoveRouter, CreateRouter, StartRouter,
                   RestartOthers
    <2>4. ASSUME NEW label \in {"stop", "remove", "create", "start", "others"}, GoTo(c, label)
          PROVE  CommandsOK'
      <3>1. Prepared([cmd[c] EXCEPT !.pc = label])
        BY <1>0 DEF CommandsOK, Command, Prepared
      <3> QED  BY <1>0, <2>4, <3>1, GoToType DEF Label
    <2>5. ASSUME NEW label \in {"done", "failed"}, End(c, label)
          PROVE  CommandsOK'
      BY <1>0, <2>5, EndType DEF Finished
    <2> QED  BY <1>1, <1>3, <2>1, <2>2, <2>3, <2>4, <2>5
  <1>18. ASSUME NEW c \in Cli, Abort(c)
         PROVE  TypeOK'
    <2>1. SiteOK'
      BY <1>0, <1>2, <1>18 DEF Abort, Written, SiteOK, CommandsOK, Prepared, At
    <2> QED  BY <1>0, <1>1, <1>5, <1>18, <2>1, EndType DEF Abort, Finished
  <1>19. ASSUME NEW c \in Cli, FailUnnoticed(c)
         PROVE  TypeOK'
    <2>1. ASSUME NEW label \in {"remove", "create", "start", "others"}, GoTo(c, label)
          PROVE  CommandsOK'
      <3>1. Prepared([cmd[c] EXCEPT !.pc = label])
        BY <1>0 DEF CommandsOK, Command, Prepared
      <3> QED  BY <1>0, <2>1, <3>1, GoToType DEF Label
    <2>2. ASSUME ReadWithoutHost(c)
          PROVE  CommandsOK'
      <3> DEFINE cf == WithConnector(config, cmd[c].name, Partial)
                 k == [cmd[c] EXCEPT !.snap = cf, !.pc = "truncate"]
      <3>1. cmd[c] \in Command /\ cmd[c].name \in Name
        BY <1>0, <2>2 DEF ReadWithoutHost, At, CommandsOK, Prepared
      <3>2. cf \in Config
        BY <2>2, <3>1, EditedConfigs DEF ReadWithoutHost
      <3>3. cmd' = [cmd EXCEPT ![c] = k]
        BY <2>2 DEF ReadWithoutHost
      <3> HIDE DEF cf
      <3>4. k \in Command /\ Prepared(k)
        BY <3>1, <3>2 DEF Command, Label, Prepared
      <3> HIDE DEF k
      <3> QED  BY <1>0, <3>3, <3>4, MoveType
    <2>3. CommandsOK'
      BY <1>19, <2>1, <2>2 DEF FailUnnoticed
    <2> QED  BY <1>1, <1>4, <1>5, <1>19, <2>3 DEF FailUnnoticed
  <1>20. CASE UNCHANGED vars
    BY <1>0, <1>1, <1>3, <1>4, <1>20 DEF vars, CommandsOK, Rest
  <1> QED  BY <1>7, <1>8, <1>9, <1>10, <1>11, <1>12, <1>13, <1>14, <1>15, <1>16, <1>17, <1>18,
              <1>19, <1>20 DEF Next, Edit

\* Every command has the arguments, and the configuration, that its next call needs.
THEOREM TypeCorrect == Spec => []TypeOK
  BY InitType, TypeStep, PTL DEF Spec

-----------------------------------------------------------------------------
(* Reports of success.                                                     *)

\* What a command's step does to its label.
Moves(c, label) ==
    \A d \in Cli : cmd'[d].pc = IF d = c THEN label ELSE cmd[d].pc

LEMMA GoToMoves ==
    ASSUME TypeOK, NEW c \in Cli, NEW label \in Label, GoTo(c, label)
    PROVE  Moves(c, label)
  BY GoToSteps DEF TypeOK, Moves

LEMMA EndMoves ==
    ASSUME TypeOK, NEW c \in Cli, NEW label \in Label, End(c, label)
    PROVE  Moves(c, label)
  BY EndSteps DEF TypeOK, Moves

\* What a command has achieved by the time it makes a call.
Standing(c) ==
    IF cmd[c].op = "connect" THEN Connected(cmd[c].name, cmd[c].token)
                             ELSE config.conns[cmd[c].name] = None

Planned(c) ==
    LET n == cmd[c].name
        t == cmd[c].token
        snap == cmd[c].snap
    IN  IF cmd[c].op = "connect"
          THEN /\ n \in snap.profiles
               /\ dirs[n] = t
               /\ snap.conns[n] \in {Source(t), Partial}
               /\ faults = 0 => snap.conns[n] = Source(t)
          ELSE snap.conns[n] = None

Achieved(c) ==
    /\ cmd[c].pc \in {"name", "mkdir", "credentials"} => cmd[c].op = "connect"
    /\ cmd[c].pc = "read" /\ cmd[c].op = "connect" =>
            cmd[c].token \in Token /\ dirs[cmd[c].name] = cmd[c].token
    /\ cmd[c].pc = "rmdir" => cmd[c].op = "disconnect" /\ Planned(c)
    /\ cmd[c].pc \in {"truncate", "write"} => Planned(c)
    /\ cmd[c].pc = "write" => config = Truncated
    /\ cmd[c].pc \in {"inspect", "stop", "remove", "create", "start", "others", "done"} =>
            config \in Config /\ Standing(c)

\* What stands in the file still stands there when neither file nor directory changes.
LEMMA StillStanding ==
    ASSUME NEW c, Standing(c), UNCHANGED <<edge, dirs, config>>, faults' = 0 => faults = 0,
           cmd'[c].op = cmd[c].op, cmd'[c].name = cmd[c].name, cmd'[c].token = cmd[c].token
    PROVE  Standing(c)'
  <1>1. Source(cmd[c].token)' = Source(cmd[c].token)
    BY DEF Source
  <1> QED  BY <1>1 DEF Standing, Connected

\* As long as commands do not overlap, the others are idle while one is at work.
Alone(c) == Busy(c) => \A d \in Cli \ {c} : cmd[d].pc \in {"idle", "failed"}

OneByOne == ~overlap => \A c \in Cli : Alone(c) /\ Achieved(c)

\* It is enough to look at the command that makes the step.
LEMMA OthersStayIdle ==
    ASSUME TypeOK, OneByOne, overlap' = overlap, NEW c \in Cli, Busy(c), ~overlap,
           NEW label \in Label, Moves(c, label), Achieved(c)'
    PROVE  OneByOne'
  <1>1. \A d \in Cli \ {c} : cmd'[d].pc \in {"idle", "failed"}
    BY DEF OneByOne, Alone, Moves
  <1>2. \A d \in Cli : Alone(d)'
    BY <1>1 DEF Alone, Busy, Finished
  <1>3. \A d \in Cli \ {c} : Achieved(d)'
    BY <1>1 DEF Achieved
  <1> QED  BY <1>2, <1>3 DEF OneByOne

LEMMA OneByOneStep == TypeOK /\ OneByOne /\ [Next]_vars => OneByOne'
  <1> SUFFICES ASSUME TypeOK, OneByOne, [Next]_vars, ~overlap' PROVE OneByOne'
    BY DEF OneByOne
  <1>0. ASSUME NEW c \in Cli, Busy(c), overlap' = overlap
        PROVE  Achieved(c)
    BY <1>0 DEF OneByOne
  <1>1. ASSUME NEW c \in Cli, NEW op, NEW n, NEW t, NEW label,
               label \in {"name", "mkdir", "read", "failed"},
               label \in {"name", "mkdir"} => op = "connect",
               label = "read" => op = "disconnect",
               Begin(c, op, n, t, label)
        PROVE  OneByOne'
    <2>1. \A d \in Cli : ~Busy(d)
      BY <1>1 DEF Begin
    <2>2. \A d \in Cli \ {c} : cmd'[d].pc = "idle"
      BY <1>1, <2>1 DEF Begin, TypeOK, Command
    <2>3. cmd'[c].pc \in {label, "failed"} /\ cmd'[c].op = op
      BY <1>1 DEF Begin
    <2>4. \A d \in Cli : Alone(d)'
      BY <2>2, <2>3 DEF Alone, Busy, Finished
    <2>5. \A d \in Cli : Achieved(d)'
      BY <1>1, <2>2, <2>3 DEF Achieved
    <2> QED  BY <2>4, <2>5 DEF OneByOne
  <1>2. ASSUME NEW c \in Cli, ChooseName(c)
        PROVE  OneByOne'
    <2>1. Moves(c, "mkdir") /\ cmd'[c].op = cmd[c].op
      BY <1>2 DEF ChooseName, Moves, TypeOK, Command
    <2>2. Busy(c) /\ overlap' = overlap
      BY <1>2 DEF ChooseName, At, Busy, Finished, Rest
    <2>3. cmd[c].op = "connect"
      BY <1>0, <1>2, <2>2 DEF Achieved, ChooseName, At
    <2>4. cmd'[c].pc = "mkdir"
      BY <2>1 DEF Moves
    <2>5. Achieved(c)'
      BY <2>1, <2>3, <2>4 DEF Achieved
    <2> QED  BY <2>1, <2>2, <2>5, OthersStayIdle DEF Label
  <1>3. ASSUME NEW c \in Cli, NEW label \in Finished \ {"idle", "done"}, End(c, label), Busy(c),
               overlap' = overlap
        PROVE  OneByOne'
    <2>1. Moves(c, label)
      BY <1>3, EndMoves DEF Finished, Label
    <2>2. Achieved(c)'
      BY <1>3, <2>1 DEF Achieved, Moves, Finished
    <2> QED  BY <1>3, <2>1, <2>2, OthersStayIdle DEF Finished, Label
  <1>4. ASSUME NEW c \in Cli, MakeDirectory(c)
        PROVE  OneByOne'
    <2>1. Busy(c) /\ overlap' = overlap
      BY <1>4 DEF MakeDirectory, At, Busy, Finished, Rest
    <2>2. CASE GoTo(c, "credentials")
      <3>1. Achieved(c)'
        BY <1>0, <1>4, <2>1, <2>2, GoToSteps DEF MakeDirectory, At, Achieved, TypeOK, Label
      <3> QED  BY <2>1, <2>2, <3>1, GoToMoves, OthersStayIdle DEF Label
    <2> QED  BY <1>3, <1>4, <2>1, <2>2 DEF MakeDirectory, Finished
  <1>5. ASSUME NEW c \in Cli, WriteCredentials(c)
        PROVE  OneByOne'
    <2>1. Busy(c) /\ overlap' = overlap
      BY <1>5 DEF WriteCredentials, At, Busy, Finished, Rest
    <2>2. CASE GoTo(c, "read") /\ dirs' = [dirs EXCEPT ![cmd[c].name] = cmd[c].token]
      <3>1. cmd[c].token \in Token /\ cmd[c].name \in Name
        BY <1>5 DEF WriteCredentials, At, TypeOK, Prepared
      <3>2. Achieved(c)'
        BY <2>2, <3>1, GoToSteps DEF Achieved, TypeOK, Label
      <3> QED  BY <2>1, <2>2, <3>2, GoToMoves, OthersStayIdle DEF Label
    <2> QED  BY <1>3, <1>5, <2>1, <2>2 DEF WriteCredentials, Finished
  <1>6. ASSUME NEW c \in Cli, ReadConfig(c)
        PROVE  OneByOne'
    <2> DEFINE n == cmd[c].name
               Kept(cf, label) == [cmd[c] EXCEPT !.snap = cf, !.pc = label]
    <2>1. Busy(c) /\ overlap' = overlap /\ n \in Name
      BY <1>6 DEF ReadConfig, At, Busy, Finished, Rest, TypeOK, Prepared
    <2>2. ASSUME config \in Config
          PROVE  /\ WithConnector(config, n, Source(dirs[n])).conns[n] = Source(dirs[n])
                 /\ n \in WithConnector(config, n, Source(dirs[n])).profiles
                 /\ WithoutConnector(config, n).conns[n] = None
      BY <2>1, <2>2, SourceType, EditedConfigs
    <2>3. ASSUME NEW cf, NEW label, cmd' = [cmd EXCEPT ![c] = Kept(cf, label)]
          PROVE  /\ Moves(c, label)
                 /\ cmd'[c].name = n /\ cmd'[c].op = cmd[c].op /\ cmd'[c].token = cmd[c].token
                 /\ cmd'[c].snap = cf /\ cmd'[c].pc = label
      BY <2>3 DEF Moves, TypeOK, Command
    <2>4. Achieved(c)
      BY <1>0, <2>1
    <2> HIDE DEF Kept
    <2>5. CASE /\ cmd[c].op = "connect" /\ config \in Config
               /\ cmd' = [cmd EXCEPT ![c] = Kept(WithConnector(config, n, Source(dirs[n])), "truncate")]
      <3>1. dirs[n] = cmd[c].token
        BY <1>6, <2>4, <2>5 DEF Achieved, ReadConfig, At
      <3>2. /\ cmd'[c].name = n /\ cmd'[c].op = "connect" /\ cmd'[c].token = cmd[c].token
            /\ cmd'[c].snap = WithConnector(config, n, Source(dirs[n])) /\ cmd'[c].pc = "truncate"
        BY <2>3, <2>5
      <3>3. UNCHANGED <<edge, dirs>>
        BY <1>6 DEF ReadConfig, site
      <3>4. Source(cmd[c].token)' = Source(dirs[n])
        BY <3>1, <3>2, <3>3 DEF Source
      <3>5. Planned(c)'
        BY <2>2, <2>5, <3>1, <3>2, <3>3, <3>4 DEF Planned
      <3>6. Achieved(c)'
        BY <3>2, <3>5 DEF Achieved
      <3> QED  BY <2>1, <2>3, <2>5, <3>6, OthersStayIdle DEF Label
    <2>6. CASE /\ cmd[c].op # "connect" /\ config \in Config
               /\ cmd' = [cmd EXCEPT ![c] = Kept(WithoutConnector(config, n), "rmdir")]
      <3>1. cmd[c].op = "disconnect"
        BY <2>6 DEF TypeOK, Command
      <3>2. /\ cmd'[c].name = n /\ cmd'[c].op = "disconnect"
            /\ cmd'[c].snap = WithoutConnector(config, n) /\ cmd'[c].pc = "rmdir"
        BY <2>3, <2>6, <3>1
      <3>3. Achieved(c)'
        BY <2>2, <2>6, <3>2 DEF Achieved, Planned
      <3> QED  BY <2>1, <2>3, <2>6, <3>3, OthersStayIdle DEF Label
    <2>7. CASE cmd[c].op # "connect" /\ config \in Config /\ config.conns[n] = None
               /\ GoTo(c, "inspect")
      <3>1. Achieved(c)'
        BY <1>6, <2>7, GoToSteps DEF Achieved, Standing, ReadConfig, site, TypeOK, Label
      <3> QED  BY <2>1, <2>7, <3>1, GoToMoves, OthersStayIdle DEF Label
    <2>8. CASE End(c, "failed")
      BY <1>3, <2>1, <2>8 DEF Finished
    <2> QED  BY <1>6, <2>5, <2>6, <2>7, <2>8 DEF ReadConfig, Kept
  <1>7. ASSUME NEW c \in Cli, RemoveDirectory(c)
        PROVE  OneByOne'
    <2>1. Busy(c) /\ overlap' = overlap /\ Achieved(c)
      BY <1>0, <1>7 DEF RemoveDirectory, At, Busy, Finished, Rest
    <2>2. Achieved(c)'
      BY <1>7, <2>1, GoToSteps DEF RemoveDirectory, At, Achieved, Planned, TypeOK, Label, Rest
    <2> QED  BY <1>7, <2>1, <2>2, GoToMoves, OthersStayIdle DEF RemoveDirectory, Label
  <1>8. ASSUME NEW c \in Cli, TruncateConfig(c)
        PROVE  OneByOne'
    <2>1. Busy(c) /\ overlap' = overlap /\ Achieved(c)
      BY <1>0, <1>8 DEF TruncateConfig, At, Busy, Finished, Rest
    <2>2. Achieved(c)'
      BY <1>8, <2>1, GoToSteps
         DEF TruncateConfig, At, Achieved, Planned, Source, TypeOK, Label, Rest
    <2> QED  BY <1>8, <2>1, <2>2, GoToMoves, OthersStayIdle DEF TruncateConfig, Label
  <1>9. ASSUME NEW c \in Cli, WriteConfig(c)
        PROVE  OneByOne'
    <2>1. Busy(c) /\ overlap' = overlap /\ Achieved(c)
      BY <1>0, <1>9 DEF WriteConfig, At, Busy, Finished, Rest
    <2>2. Planned(c) /\ config = Truncated /\ cmd[c].snap \in Config
      BY <1>9, <2>1 DEF WriteConfig, Achieved, At, TypeOK, Prepared
    <2>3. config' = cmd[c].snap /\ UNCHANGED <<edge, dirs, faults>>
      BY <1>9, <2>2 DEF WriteConfig, Written, Rest
    <2>4. /\ cmd'[c].name = cmd[c].name /\ cmd'[c].op = cmd[c].op
          /\ cmd'[c].token = cmd[c].token /\ cmd'[c].pc = "inspect"
      BY <1>9, GoToSteps DEF WriteConfig, TypeOK, Label
    <2>5. Source(cmd[c].token)' = Source(cmd[c].token)
      BY <2>3, <2>4 DEF Source
    <2>6. Standing(c)'
      BY <2>2, <2>3, <2>4, <2>5 DEF Planned, Standing, Connected
    <2>7. Achieved(c)'
      BY <2>2, <2>3, <2>4, <2>6 DEF Achieved
    <2> QED  BY <1>9, <2>1, <2>7, GoToMoves, OthersStayIdle DEF WriteConfig, Label
  <1>10. ASSUME NEW c \in Cli, NEW label \in {"stop", "remove", "create", "start", "others"},
                GoTo(c, label), UNCHANGED <<edge, config, dirs, overlap>>, faults' = 0 => faults = 0,
                cmd[c].pc \in {"inspect", "stop", "remove", "create", "start"}
         PROVE  OneByOne'
    <2>1. Busy(c) /\ Achieved(c)
      BY <1>0, <1>10 DEF Busy, Finished
    <2>2. /\ cmd'[c].name = cmd[c].name /\ cmd'[c].op = cmd[c].op
          /\ cmd'[c].token = cmd[c].token /\ cmd'[c].pc = label
      BY <1>10, GoToSteps DEF TypeOK, Label
    <2>3. config \in Config /\ Standing(c)'
      BY <1>10, <2>1, <2>2, StillStanding DEF Achieved
    <2>4. Achieved(c)'
      BY <1>10, <2>2, <2>3 DEF Achieved
    <2> QED  BY <1>10, <2>1, <2>4, GoToMoves, OthersStayIdle DEF Label
  <1>11. ASSUME NEW c \in Cli, \/ InspectRouter(c) \/ StopRouter(c) \/ RemoveRouter(c)
                               \/ CreateRouter(c) \/ StartRouter(c)
                               \/ FailUnnoticed(c) /\ ~ReadWithoutHost(c)
         PROVE  OneByOne'
    <2>1. UNCHANGED <<edge, config, dirs, overlap>> /\ (faults' = 0 => faults = 0)
      BY <1>11 DEF InspectRouter, StopRouter, RemoveRouter, CreateRouter, StartRouter,
                   FailUnnoticed, Fault, site, Rest, TypeOK
    <2>2. cmd[c].pc \in {"inspect", "stop", "remove", "create", "start"} /\ Busy(c)
      BY <1>11 DEF InspectRouter, StopRouter, RemoveRouter, CreateRouter, StartRouter,
                   FailUnnoticed, At, Busy, Finished
    <2>3. \/ \E label \in {"stop", "remove", "create", "start", "others"} : GoTo(c, label)
          \/ End(c, "failed")
      BY <1>11 DEF InspectRouter, StopRouter, RemoveRouter, CreateRouter, StartRouter, FailUnnoticed
    <2> QED  BY <1>3, <1>10, <2>1, <2>2, <2>3 DEF Finished
  <1>16. ASSUME NEW c \in Cli, FailUnnoticed(c), ReadWithoutHost(c)
         PROVE  OneByOne'
    <2> DEFINE n == cmd[c].name
               cf == WithConnector(config, n, Partial)
    <2>1. /\ Busy(c) /\ overlap' = overlap /\ n \in Name
          /\ UNCHANGED <<edge, dirs>> /\ faults' # 0
      BY <1>16 DEF FailUnnoticed, ReadWithoutHost, Fault, At, Busy, Finished, site, TypeOK, Prepared
    <2>2. cf.conns[n] = Partial /\ n \in cf.profiles
      BY <1>16, <2>1, EditedConfigs DEF ReadWithoutHost
    <2>3. dirs[n] = cmd[c].token
      BY <1>0, <1>16, <2>1 DEF Achieved, ReadWithoutHost, At
    <2> HIDE DEF cf
    <2>4. /\ Moves(c, "truncate") /\ cmd'[c].pc = "truncate" /\ cmd'[c].snap = cf
          /\ cmd'[c].name = n /\ cmd'[c].op = "connect" /\ cmd'[c].token = cmd[c].token
      BY <1>16 DEF ReadWithoutHost, At, Moves, TypeOK, Command, cf
    <2>5. Planned(c)'
      BY <2>1, <2>2, <2>3, <2>4 DEF Planned
    <2>6. Achieved(c)'
      BY <2>4, <2>5 DEF Achieved
    <2> QED  BY <2>1, <2>4, <2>6, OthersStayIdle DEF Label
  <1>12. ASSUME NEW c \in Cli, RestartOthers(c)
         PROVE  OneByOne'
    <2>1. Busy(c) /\ overlap' = overlap /\ Achieved(c)
      BY <1>0, <1>12 DEF RestartOthers, At, Busy, Finished, Rest
    <2>2. CASE End(c, "done")
      <3>1. /\ cmd'[c].name = cmd[c].name /\ cmd'[c].op = cmd[c].op
            /\ cmd'[c].token = cmd[c].token /\ cmd'[c].pc = "done"
        BY <2>2, EndSteps DEF TypeOK, Label
      <3>2. UNCHANGED <<edge, dirs, config, faults>> /\ config \in Config /\ Standing(c)
        BY <1>12, <2>1 DEF RestartOthers, At, Achieved, site, Rest
      <3>3. Standing(c)'
        BY <3>1, <3>2, StillStanding
      <3>4. Achieved(c)'
        BY <3>1, <3>2, <3>3 DEF Achieved
      <3> QED  BY <2>1, <2>2, <3>4, EndMoves, OthersStayIdle DEF Label
    <2> QED  BY <1>3, <1>12, <2>1, <2>2 DEF RestartOthers, Finished
  <1>13. ASSUME NEW c \in Cli, Abort(c)
         PROVE  OneByOne'
    BY <1>3, <1>13 DEF Abort, Fault, Finished
  <1>14. CASE UNCHANGED vars
    BY <1>14 DEF vars, site, OneByOne, Alone, Achieved, Planned, Standing, Connected, Source, Busy
  <1>15. ASSUME NEW c \in Cli,
                \/ \E t \in Token : Connect(c, t) \/ \E n \in Given : ConnectAs(c, n, t)
                \/ \E n \in Known : Disconnect(c, n)
         PROVE  OneByOne'
    <2>1. ASSUME NEW t \in Token, Connect(c, t)
          PROVE  OneByOne'
      BY <1>1, <2>1 DEF Connect
    <2>2. ASSUME NEW t \in Token, NEW n \in Given, ConnectAs(c, n, t)
          PROVE  OneByOne'
      BY <1>1, <2>2 DEF ConnectAs
    <2>3. ASSUME NEW n \in Known, Disconnect(c, n)
          PROVE  OneByOne'
      BY <1>1, <2>3 DEF Disconnect
    <2> QED  BY <1>15, <2>1, <2>2, <2>3
  <1> QED  BY <1>2, <1>4, <1>5, <1>6, <1>7, <1>8, <1>9, <1>11, <1>12, <1>13, <1>14, <1>15, <1>16
           DEF Next, Edit, Restart

\* A connect or disconnect that reports success has put its connector, with profile and
\* credentials, into the configuration, or taken it out, whatever has failed before.
THEOREM SuccessIsTrue == Spec => []SuccessIsConfigured
  <1>1. Init => OneByOne
    BY DEF Init, OneByOne, Alone, Achieved, Busy, Finished
  <1>2. OneByOne => SuccessIsConfigured
    BY DEF OneByOne, SuccessIsConfigured, Achieved, Standing, At
  <1> QED  BY <1>1, <1>2, InitType, TypeStep, OneByOneStep, PTL DEF Spec

-----------------------------------------------------------------------------
(* The restarts of the router.                                             *)

\* Some command is about to make the call that each state of the router calls for.
\* A container that is gone needs one that is going to create it; one that is there
\* is not in the way of a command that is still going to remove it.
SomeAt(labels) == \E c \in Cli : cmd[c].pc \in labels

Attended ==
    faults = 0 =>
        /\ config = Truncated => SomeAt({"write"})
        /\ config = Corrupt => overlap
        /\ router = "running" /\ loaded # config /\ config # Corrupt =>
                SomeAt({"write", "inspect", "stop"})
        /\ router = "stopped" /\ config # Corrupt =>
                SomeAt({"write", "inspect", "stop", "remove", "create", "start"})
        /\ router = "absent" => SomeAt({"create"})

\* A step outside of the restarts and of the writing of the configuration.
LEMMA AttendedElsewhere ==
    ASSUME Attended, NEW c \in Cli, NEW label, Moves(c, label),
           cmd[c].pc \notin {"write", "inspect", "stop", "remove", "create", "start"},
           UNCHANGED <<config, router, loaded, overlap, faults>>
    PROVE  Attended'
  BY DEF Attended, SomeAt, Moves

LEMMA AttendedStep == TypeOK /\ OneByOne /\ Attended /\ [Next]_vars => Attended'
  <1> SUFFICES ASSUME TypeOK, OneByOne, Attended, [Next]_vars PROVE Attended'
    OBVIOUS
  <1>1. ASSUME NEW c \in Cli, NEW op, NEW n, NEW t, NEW label, Begin(c, op, n, t, label)
        PROVE  Attended'
    <2>1. \A d \in Cli : Busy(d) => cmd'[d] = cmd[d]
      BY <1>1 DEF Begin
    <2>2. ASSUME NEW labels \in SUBSET (Label \ Finished), SomeAt(labels)
          PROVE  SomeAt(labels)'
      BY <2>1, <2>2 DEF SomeAt, Busy
    <2> QED  BY <1>1, <2>2 DEF Begin, Attended, site, Label, Finished
  <1>2. ASSUME NEW c \in Cli, ChooseName(c)
        PROVE  Attended'
    <2>1. Moves(c, "mkdir")
      BY <1>2 DEF ChooseName, Moves, TypeOK, Command
    <2> QED  BY <1>2, <2>1, AttendedElsewhere DEF ChooseName, At, site, Rest
  <1>3. ASSUME NEW c \in Cli, MakeDirectory(c) \/ WriteCredentials(c) \/ RemoveDirectory(c)
        PROVE  Attended'
    <2>1. PICK label \in {"credentials", "read", "truncate", "failed"} : Moves(c, label)
      BY <1>3, GoToMoves, EndMoves DEF MakeDirectory, WriteCredentials, RemoveDirectory, Label
    <2> QED  BY <1>3, <2>1, AttendedElsewhere
             DEF MakeDirectory, WriteCredentials, RemoveDirectory, At, Rest
  <1>4. ASSUME NEW c \in Cli, ReadConfig(c)
        PROVE  Attended'
    <2> DEFINE Keep(cf, label) == cmd' = [cmd EXCEPT ![c].snap = cf, ![c].pc = label]
    <2>1. ASSUME NEW cf, NEW label, Keep(cf, label)
          PROVE  Moves(c, label)
      BY <2>1 DEF Moves, TypeOK, Command
    <2>2. \E label : Moves(c, label)
      BY <1>4, <2>1, GoToMoves, EndMoves DEF ReadConfig, Label
    <2> QED  BY <1>4, <2>2, AttendedElsewhere DEF ReadConfig, At, site, Rest
  <1>5. ASSUME NEW c \in Cli, TruncateConfig(c)
        PROVE  Attended'
    <2>1. Moves(c, "write")
      BY <1>5, GoToMoves DEF TruncateConfig, Label
    <2> QED  BY <1>5, <2>1, CorruptAssumption DEF TruncateConfig, Moves, Attended, SomeAt, At, Rest
  <1>6. ASSUME NEW c \in Cli, WriteConfig(c)
        PROVE  Attended'
    <2>1. Moves(c, "inspect")
      BY <1>6, GoToMoves DEF WriteConfig, Label
    <2>2. config' \in Config \cup {Corrupt}
      BY <1>6 DEF WriteConfig, Written, TypeOK, Prepared, At
    <2>3. ~overlap => config = Truncated
      BY <1>6 DEF WriteConfig, At, OneByOne, Achieved
    <2>4. config' = Corrupt => overlap'
      BY <1>6, <2>3, CorruptAssumption DEF WriteConfig, Written, TypeOK, Prepared, At, Rest
    <2>5. config' # Truncated
      BY <2>2, CorruptAssumption
    <2> QED  BY <1>6, <2>1, <2>4, <2>5 DEF WriteConfig, Moves, Attended, SomeAt, At, Rest
  <1>7. ASSUME NEW c \in Cli, InspectRouter(c)
        PROVE  Attended'
    <2>1. Moves(c, IF router = "absent" THEN "failed" ELSE "stop")
      BY <1>7, GoToMoves, EndMoves DEF InspectRouter, Label
    <2> QED  BY <1>7, <2>1 DEF InspectRouter, Moves, Attended, SomeAt, At, Rest, site
  <1>8. ASSUME NEW c \in Cli, StopRouter(c)
        PROVE  Attended'
    <2>1. Moves(c, "remove")
      BY <1>8, GoToMoves DEF StopRouter, Label
    <2> QED  BY <1>8, <2>1 DEF StopRouter, Moves, Attended, SomeAt, At, Rest
  <1>9. ASSUME NEW c \in Cli, RemoveRouter(c)
        PROVE  Attended'
    <2>1. Moves(c, "create")
      BY <1>9, GoToMoves DEF RemoveRouter, Label
    <2> QED  BY <1>9, <2>1 DEF RemoveRouter, Moves, Attended, SomeAt, At, Rest
  <1>10. ASSUME NEW c \in Cli, CreateRouter(c)
         PROVE  Attended'
    <2>1. Moves(c, "start")
      BY <1>10, GoToMoves DEF CreateRouter, Label
    <2> QED  BY <1>10, <2>1 DEF CreateRouter, Moves, Attended, SomeAt, At, Rest
  <1>11. ASSUME NEW c \in Cli, StartRouter(c)
         PROVE  Attended'
    <2>1. Moves(c, "others")
      BY <1>11, GoToMoves DEF StartRouter, Label
    <2> QED  BY <1>11, <2>1 DEF StartRouter, Moves, Attended, SomeAt, At, Rest, TypeOK
  <1>12. ASSUME NEW c \in Cli, RestartOthers(c)
         PROVE  Attended'
    <2>1. PICK label \in {"done", "failed"} : Moves(c, label)
      BY <1>12, EndMoves DEF RestartOthers, Label
    <2> QED  BY <1>12, <2>1, AttendedElsewhere DEF RestartOthers, At, site, Rest
  <1>13. ASSUME Fault
         PROVE  Attended'
    BY <1>13 DEF Fault, Attended, TypeOK
  <1>14. CASE UNCHANGED vars
    BY <1>14 DEF vars, site, Attended, SomeAt
  <1> QED  BY <1>1, <1>2, <1>3, <1>4, <1>5, <1>6, <1>7, <1>8, <1>9, <1>10, <1>11, <1>12, <1>13, <1>14
           DEF Next, Edit, Restart, Connect, ConnectAs, Disconnect, Abort, FailUnnoticed

\* However many commands restart the router at the same time, once they have all ended,
\* and unless a call failed for another reason, it runs and has the latest configuration,
\* or overlapping writes have spoilt the file.
THEOREM RouterEndsUpToDate == Spec => []RouterUpToDate
  <1>1. Init => Attended /\ OneByOne
    BY CorruptAssumption, NoConnectorsType
       DEF Init, Attended, OneByOne, Alone, Achieved, Busy, Finished
  <1>2. TypeOK /\ Attended => RouterUpToDate
    BY DEF Attended, SomeAt, RouterUpToDate, Quiet, Busy, Finished, TypeOK
  <1> QED  BY <1>1, <1>2, InitType, TypeStep, OneByOneStep, AttendedStep, PTL DEF Spec

-----------------------------------------------------------------------------
(* Directories, connectors and profiles.                                   *)

Agree(content, cf) ==
    /\ cf \in Config
    /\ cf.conns = [n \in Name |-> IF content[n] = None THEN None ELSE Source(content[n])]
    /\ cf.profiles = {n \in Name : content[n] # None}

\* What directories and configuration have in common while a command is at work: one of
\* them is a step ahead of the other, for the command's name.
Tidy(c) ==
    LET n == cmd[c].name
        without == [dirs EXCEPT ![n] = None]
    IN  CASE cmd[c].pc \in {"credentials"} -> Agree(without, config) /\ dirs[n] = Partial
          [] cmd[c].pc = "read" /\ cmd[c].op = "connect" -> Agree(without, config) /\ dirs[n] \in Token
          [] cmd[c].pc = "rmdir" -> Agree(without, cmd[c].snap)
          [] cmd[c].pc \in {"truncate", "write"} -> Agree(dirs, cmd[c].snap)
          [] OTHER -> Agree(dirs, config)

Tidied ==
    ~overlap /\ faults = 0 =>
        /\ Quiet => Agree(dirs, config)
        /\ \A c \in Cli : Busy(c) => Tidy(c)

LEMMA TidyUpToHere ==
    ASSUME OneByOne, NEW c \in Cli, Busy(c), ~overlap, NEW label \in Label, Moves(c, label),
           IF label \in Finished THEN Agree(dirs, config)' ELSE Tidy(c)'
    PROVE  Tidied'
  <1>1. \A d \in Cli \ {c} : ~Busy(d)'
    BY DEF OneByOne, Alone, Moves, Busy, Finished
  <1>2. Busy(c)' <=> label \notin Finished
    BY DEF Busy, Moves
  <1> QED  BY <1>1, <1>2 DEF Tidied, Quiet

\* The edits of the configuration follow those of the directories, and the other way round.
LEMMA EditsAgree ==
    ASSUME NEW D \in [Name -> Token \cup {None, Partial}], NEW cf \in Config, NEW n \in Name
    PROVE  /\ Agree([D EXCEPT ![n] = None], cf) /\ D[n] \in Token =>
                Agree(D, WithConnector(cf, n, Source(D[n])))
           /\ Agree(D, cf) => Agree([D EXCEPT ![n] = None], WithoutConnector(cf, n))
           /\ Agree(D, cf) /\ D[n] = None => Agree([[D EXCEPT ![n] = Partial] EXCEPT ![n] = None], cf)
  <1> DEFINE Conns(E) == [m \in Name |-> IF E[m] = None THEN None ELSE Source(E[m])]
  <1>1. ASSUME Agree([D EXCEPT ![n] = None], cf), D[n] \in Token
        PROVE  Agree(D, WithConnector(cf, n, Source(D[n])))
    <2>1. WithConnector(cf, n, Source(D[n])) \in Config
      BY SourceType, EditedConfigs
    <2>2. WithConnector(cf, n, Source(D[n])).conns = Conns(D)
      BY <1>1, TokenAssumption DEF Agree, WithConnector, Config
    <2>3. WithConnector(cf, n, Source(D[n])).profiles = {m \in Name : D[m] # None}
      BY <1>1, TokenAssumption DEF Agree, WithConnector, Config
    <2> QED  BY <2>1, <2>2, <2>3 DEF Agree
  <1>2. ASSUME Agree(D, cf)
        PROVE  Agree([D EXCEPT ![n] = None], WithoutConnector(cf, n))
    <2>1. WithoutConnector(cf, n) \in Config
      BY EditedConfigs, SourceType
    <2> QED  BY <1>2, <2>1 DEF Agree, WithoutConnector, Config
  <1>3. ASSUME Agree(D, cf), D[n] = None
        PROVE  Agree([[D EXCEPT ![n] = Partial] EXCEPT ![n] = None], cf)
    <2>1. [[D EXCEPT ![n] = Partial] EXCEPT ![n] = None] = D
      BY <1>3
    <2> QED  BY <1>3, <2>1
  <1> QED  BY <1>1, <1>2, <1>3

\* A site does not change its mode.
LEMMA SameEdge == [Next]_vars => edge' = edge
  BY DEF Next, vars, site, Edit, Restart, Connect, ConnectAs, Disconnect, Begin, ChooseName,
         MakeDirectory, WriteCredentials, ReadConfig, RemoveDirectory, TruncateConfig, WriteConfig,
         InspectRouter, StopRouter, RemoveRouter, CreateRouter, StartRouter, RestartOthers, Abort,
         FailUnnoticed

LEMMA TidiedStep == TypeOK /\ OneByOne /\ Tidied /\ [Next]_vars => Tidied'
  <1> SUFFICES ASSUME TypeOK, OneByOne, Tidied, [Next]_vars, ~overlap', faults' = 0
               PROVE  Tidied'
    BY DEF Tidied
  <1>0. edge' = edge
    BY SameEdge
  <1>1. ASSUME NEW c \in Cli, Busy(c), UNCHANGED <<overlap, faults>>
        PROVE  ~overlap /\ Tidy(c) /\ Achieved(c)
    BY <1>1 DEF Tidied, OneByOne
  <1>2. UNCHANGED Rest => UNCHANGED <<overlap, faults>>
    BY DEF Rest
  <1>3. ASSUME NEW c \in Cli, NEW op \in {"connect", "disconnect"}, NEW n, NEW t,
               NEW label \in {"name", "mkdir", "read", "failed"},
               label = "read" => op = "disconnect", Begin(c, op, n, t, label)
        PROVE  Tidied'
    <2>1. \A d \in Cli : ~Busy(d)
      BY <1>3 DEF Begin
    <2>2. Agree(dirs, config)'
      <3>1. Agree(dirs, config) /\ UNCHANGED <<edge, dirs, config>>
        BY <1>3, <2>1 DEF Begin, Tidied, Quiet, site
      <3> QED  BY <3>1 DEF Agree, Source
    <2>3. /\ \A d \in Cli \ {c} : ~Busy(d)'
          /\ cmd'[c].pc \in {label, "failed"} /\ cmd'[c].op = op
      BY <1>3, <2>1 DEF Begin, Busy, Finished, TypeOK, Command
    <2>4. Tidy(c)'
      BY <1>3, <2>2, <2>3 DEF Tidy
    <2> QED  BY <2>2, <2>3, <2>4 DEF Tidied
  <1>4. ASSUME NEW c \in Cli, ChooseName(c)
        PROVE  Tidied'
    <2>1. Moves(c, "mkdir") /\ Busy(c) /\ UNCHANGED <<dirs, config>>
      BY <1>4 DEF ChooseName, Moves, TypeOK, Command, At, Busy, Finished, site
    <2>2. Agree(dirs, config)'
      BY <1>0, <1>1, <1>2, <1>4, <2>1 DEF Tidy, ChooseName, At, Agree, Source
    <2>3. Tidy(c)'
      BY <2>1, <2>2 DEF Tidy, Moves
    <2> QED  BY <1>1, <1>2, <1>4, <2>1, <2>3, TidyUpToHere DEF ChooseName, Label, Finished
  <1>5. ASSUME NEW c \in Cli, MakeDirectory(c)
        PROVE  Tidied'
    <2> DEFINE n == cmd[c].name
    <2>1. Busy(c) /\ config' = config /\ n \in Name
      BY <1>5 DEF MakeDirectory, At, Busy, Finished, TypeOK, Prepared
    <2>2. Agree(dirs, config) /\ ~overlap
      BY <1>1, <1>2, <1>5, <2>1 DEF Tidy, MakeDirectory, At
    <2>3. CASE dirs[n] = None /\ dirs' = [dirs EXCEPT ![n] = Partial] /\ GoTo(c, "credentials")
      <3>1. Moves(c, "credentials") /\ cmd'[c].name = n
        BY <2>3, GoToMoves, GoToSteps DEF TypeOK, Label
      <3>2. Agree([dirs' EXCEPT ![n] = None], config) /\ dirs'[n] = Partial
        BY <2>1, <2>2, <2>3, EditsAgree DEF TypeOK, Agree
      <3>3. Tidy(c)'
        BY <1>0, <2>1, <3>1, <3>2 DEF Tidy, Moves, Agree, Source
      <3> QED  BY <2>1, <2>2, <3>1, <3>3, TidyUpToHere DEF Label, Finished
    <2>4. CASE End(c, "failed") /\ dirs' = dirs
      BY <1>0, <2>1, <2>2, <2>4, EndMoves, TidyUpToHere DEF Label, Finished, Agree, Source
    <2> QED  BY <1>5, <2>3, <2>4 DEF MakeDirectory
  <1>6. ASSUME NEW c \in Cli, WriteCredentials(c)
        PROVE  Tidied'
    <2> DEFINE n == cmd[c].name
               without == [dirs EXCEPT ![n] = None]
    <2>1. /\ Busy(c) /\ config' = config /\ cmd[c].token \in Token
          /\ cmd[c].pc = "credentials"
      BY <1>6 DEF WriteCredentials, At, Busy, Finished, TypeOK, Prepared
    <2>2. /\ Agree(without, config) /\ dirs[n] = Partial
          /\ ~overlap /\ n \in Name /\ cmd[c].op = "connect"
      BY <1>1, <1>2, <1>6, <2>1 DEF Tidy, Achieved, WriteCredentials, TypeOK, Prepared
    <2>3. dirs' = [dirs EXCEPT ![n] = cmd[c].token] /\ GoTo(c, "read")
      BY <1>6, <2>2, AbsenceAssumption DEF WriteCredentials
    <2>4. Moves(c, "read") /\ cmd'[c].name = n /\ cmd'[c].op = "connect"
      BY <2>2, <2>3, GoToMoves, GoToSteps DEF TypeOK, Label
    <2>5. [dirs' EXCEPT ![n] = None] = without /\ dirs'[n] \in Token
      BY <2>1, <2>2, <2>3 DEF TypeOK
    <2>6. Tidy(c)'
      <3>1. Agree([dirs EXCEPT ![cmd[c].name] = None], config)'
        <4>1. [dirs EXCEPT ![cmd[c].name] = None]' = without
          BY <2>4, <2>5
        <4> HIDE DEF without
        <4> QED  BY <1>0, <2>1, <2>2, <4>1 DEF Agree, Source
      <3> QED  BY <2>4, <2>5, <3>1 DEF Tidy, Moves
    <2> QED  BY <2>1, <2>2, <2>4, <2>6, TidyUpToHere DEF Label, Finished
  <1>7. ASSUME NEW c \in Cli, ReadConfig(c)
        PROVE  Tidied'
    <2> DEFINE n == cmd[c].name
               Kept(cf, label) == [cmd[c] EXCEPT !.snap = cf, !.pc = label]
    <2>1. /\ Busy(c) /\ UNCHANGED <<dirs, config>> /\ cmd[c].pc = "read" /\ n \in Name
          /\ cmd[c].op \in {"connect", "disconnect"}
      BY <1>7 DEF ReadConfig, At, Busy, Finished, site, TypeOK, Prepared, Command
    <2>2. ~overlap /\ Tidy(c)
      BY <1>1, <1>2, <1>7, <2>1 DEF ReadConfig
    <2>3. ASSUME NEW cf, NEW label, cmd' = [cmd EXCEPT ![c] = Kept(cf, label)]
          PROVE  /\ Moves(c, label) /\ cmd'[c].name = n
                 /\ cmd'[c].snap = cf /\ cmd'[c].pc = label
      BY <2>3 DEF Moves, TypeOK, Command
    <2> HIDE DEF Kept
    <2>4. CASE cmd[c].op = "connect"
      <3>1. Agree([dirs EXCEPT ![n] = None], config) /\ dirs[n] \in Token
        BY <2>1, <2>2, <2>4 DEF Tidy
      <3>2. /\ cmd' = [cmd EXCEPT ![c] = Kept(WithConnector(config, n, Source(dirs[n])), "truncate")]
            /\ config \in Config
        BY <1>7, <2>4, <3>1 DEF ReadConfig, Agree, Kept, TypeOK
      <3>3. Agree(dirs, WithConnector(config, n, Source(dirs[n])))
        BY <2>1, <3>1, <3>2, EditsAgree DEF TypeOK
      <3>4. /\ cmd'[c].pc = "truncate" /\ cmd'[c].snap = WithConnector(config, n, Source(dirs[n]))
            /\ Moves(c, "truncate")
        BY <2>3, <3>2
      <3>5. Tidy(c)'
        BY <1>0, <2>1, <3>3, <3>4 DEF Tidy, Agree, Source
      <3> QED  BY <2>1, <2>2, <3>4, <3>5, TidyUpToHere DEF Label, Finished
    <2>5. CASE cmd[c].op = "disconnect"
      <3>1. Agree(dirs, config)
        BY <2>1, <2>2, <2>5 DEF Tidy
      <3>2. config \in Config
        BY <3>1 DEF Agree, TypeOK
      <3>3. CASE cmd' = [cmd EXCEPT ![c] = Kept(WithoutConnector(config, n), "rmdir")]
        <4>1. Agree([dirs EXCEPT ![n] = None], WithoutConnector(config, n))
          BY <2>1, <3>1, <3>2, EditsAgree DEF TypeOK
        <4>2. /\ cmd'[c].pc = "rmdir" /\ cmd'[c].snap = WithoutConnector(config, n)
              /\ Moves(c, "rmdir") /\ cmd'[c].name = n
          BY <2>3, <3>3
        <4>3. Tidy(c)'
          BY <1>0, <2>1, <4>1, <4>2 DEF Tidy, Agree, Source
        <4> QED  BY <2>1, <2>2, <4>2, <4>3, TidyUpToHere DEF Label, Finished
      <3>4. CASE GoTo(c, "inspect")
        <4>1. Moves(c, "inspect")
          BY <3>4, GoToMoves DEF Label
        <4>2. Tidy(c)'
          BY <1>0, <2>1, <3>1, <4>1 DEF Tidy, Moves, Agree, Source
        <4> QED  BY <2>1, <2>2, <4>1, <4>2, TidyUpToHere DEF Label, Finished
      <3> QED  BY <1>7, <2>5, <3>1, <3>3, <3>4 DEF ReadConfig, Agree, Kept
    <2> QED  BY <2>1, <2>4, <2>5
  <1>8. ASSUME NEW c \in Cli, RemoveDirectory(c)
        PROVE  Tidied'
    <2> DEFINE n == cmd[c].name
    <2>1. Busy(c) /\ cmd[c].pc = "rmdir" /\ dirs' = [dirs EXCEPT ![n] = None]
      BY <1>8 DEF RemoveDirectory, At, Busy, Finished
    <2>2. ~overlap /\ Agree(dirs', cmd[c].snap)
      BY <1>1, <1>2, <1>8, <2>1 DEF RemoveDirectory, Tidy
    <2>3. Moves(c, "truncate") /\ cmd'[c].snap = cmd[c].snap
      BY <1>8, GoToMoves, GoToSteps DEF RemoveDirectory, TypeOK, Label
    <2>4. Tidy(c)'
      BY <1>0, <2>2, <2>3 DEF Tidy, Moves, Agree, Source
    <2> QED  BY <2>1, <2>2, <2>3, <2>4, TidyUpToHere DEF Label, Finished
  <1>9. ASSUME NEW c \in Cli, TruncateConfig(c)
        PROVE  Tidied'
    <2>1. Busy(c) /\ cmd[c].pc = "truncate" /\ dirs' = dirs
      BY <1>9 DEF TruncateConfig, At, Busy, Finished
    <2>2. ~overlap /\ Agree(dirs, cmd[c].snap)
      BY <1>1, <1>2, <1>9, <2>1 DEF TruncateConfig, Tidy
    <2>3. Moves(c, "write") /\ cmd'[c].snap = cmd[c].snap
      BY <1>9, GoToMoves, GoToSteps DEF TruncateConfig, TypeOK, Label
    <2>4. Tidy(c)'
      BY <1>0, <2>1, <2>2, <2>3 DEF Tidy, Moves, Agree, Source
    <2> QED  BY <2>1, <2>2, <2>3, <2>4, TidyUpToHere DEF Label, Finished
  <1>10. ASSUME NEW c \in Cli, WriteConfig(c)
         PROVE  Tidied'
    <2>1. Busy(c) /\ cmd[c].pc = "write" /\ UNCHANGED <<edge, dirs>>
      BY <1>10 DEF WriteConfig, At, Busy, Finished
    <2>2. ~overlap /\ Agree(dirs, cmd[c].snap) /\ config = Truncated
      BY <1>1, <1>2, <1>10, <2>1 DEF WriteConfig, Tidy, Achieved
    <2>3. Agree(dirs, config)'
      <3>1. config' = cmd[c].snap
        BY <1>10, <2>2 DEF WriteConfig, Written
      <3> QED  BY <2>1, <2>2, <3>1 DEF Agree, Source
    <2>4. Moves(c, "inspect")
      BY <1>10, GoToMoves DEF WriteConfig, Label
    <2>5. Tidy(c)'
      BY <2>3, <2>4 DEF Tidy, Moves
    <2> QED  BY <2>1, <2>2, <2>4, <2>5, TidyUpToHere DEF Label, Finished
  <1>11. ASSUME NEW c \in Cli, Restart(c)
         PROVE  Tidied'
    <2>1. /\ cmd[c].pc \in {"inspect", "stop", "remove", "create", "start", "others"}
          /\ UNCHANGED <<dirs, config, overlap, faults>>
      BY <1>11 DEF Restart, InspectRouter, StopRouter, RemoveRouter, CreateRouter, StartRouter,
                   RestartOthers, At, site, Rest
    <2>2. ~overlap /\ Busy(c) /\ Agree(dirs, config)'
      BY <1>0, <1>1, <2>1 DEF Tidy, Busy, Finished, Agree, Source
    <2>3. PICK label \in {"stop", "remove", "create", "start", "others", "done", "failed"} :
                Moves(c, label)
      BY <1>11, GoToMoves, EndMoves
         DEF Restart, InspectRouter, StopRouter, RemoveRouter, CreateRouter, StartRouter,
             RestartOthers, Label
    <2>4. Tidy(c)'
      BY <2>2, <2>3 DEF Tidy, Moves
    <2> QED  BY <2>2, <2>3, <2>4, TidyUpToHere DEF Label
  <1>12. ASSUME Fault
         PROVE  FALSE
    BY <1>12 DEF Fault, TypeOK
  <1>13. CASE UNCHANGED vars
    BY <1>0, <1>13 DEF vars, site, Tidied, Tidy, Agree, Busy, Quiet, Source
  <1>14. ASSUME NEW c \in Cli,
                \/ \E t \in Token : Connect(c, t) \/ \E n \in Given : ConnectAs(c, n, t)
                \/ \E n \in Known : Disconnect(c, n)
         PROVE  Tidied'
    <2>1. ASSUME NEW t \in Token, Connect(c, t)
          PROVE  Tidied'
      BY <1>3, <2>1 DEF Connect
    <2>2. ASSUME NEW t \in Token, NEW n \in Given, ConnectAs(c, n, t)
          PROVE  Tidied'
      BY <1>3, <2>2 DEF ConnectAs
    <2>3. ASSUME NEW n \in Known, Disconnect(c, n)
          PROVE  Tidied'
      BY <1>3, <2>3 DEF Disconnect
    <2> QED  BY <1>14, <2>1, <2>2, <2>3
  <1> QED  BY <1>4, <1>5, <1>6, <1>7, <1>8, <1>9, <1>10, <1>11, <1>12, <1>13, <1>14
           DEF Next, Edit, Abort, FailUnnoticed

\* Commands that run one after the other, and are not hit by a failure, keep directories,
\* connectors and profiles in agreement.
THEOREM CommandsKeepAgreement == Spec => []InAgreement
  <1>1. Init => OneByOne
    BY DEF Init, OneByOne, Alone, Achieved, Busy, Finished
  <1>2. Init => Tidied
    BY CorruptAssumption, NoConnectorsType
       DEF Init, Tidied, Tidy, Agree, NoConnectors, Busy, Finished
  <1>3. TypeOK /\ Tidied => InAgreement
    BY DEF Tidied, InAgreement, Agree, Taken
  <1> QED  BY <1>1, <1>2, <1>3, InitType, TypeStep, OneByOneStep, TidiedStep, PTL DEF Spec
=============================================================================
