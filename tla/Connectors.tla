------------------------------- MODULE Connectors -------------------------------
(***************************************************************************)
(* Connections to other sites: skupper connect (ConnectorCreate) and       *)
(* skupper disconnect (ConnectorRemove), call by call, for any number of   *)
(* commands that run at the same time.                                     *)
(*                                                                         *)
(* A connector is a directory with the credentials of a token, and an      *)
(* entry and an SSL profile in the router's configuration file; the router *)
(* reads the file only when it starts, so every command replaces the       *)
(* router's container and restarts the controller and the proxies.         *)
(*                                                                         *)
(* Any call may fail, and a command may be interrupted between two calls;  *)
(* files have no lock, and two commands may write one at the same time.    *)
(***************************************************************************)
EXTENDS Naturals, FiniteSets

CONSTANTS
    Cli,         \* processes that run a command
    Token,       \* connection tokens
    OwnToken,    \* those of them that this site has issued itself
    EdgeToken,   \* those with a host and port for edge sites; token_create makes none
    Given,       \* the n of the names conn<n> that users choose
    None,        \* absence: of a directory, a connector, a token
    Partial,     \* a directory without all of a token's credentials
    Truncated,   \* a configuration file that is opened for writing and still empty
    Corrupt,     \* one that cannot be parsed: part of a configuration, or of two
    MaxCommands, \* bound on the commands
    MaxFaults    \* bound on failing calls and interruptions

ASSUME GivenAssumption == Given \subseteq Nat
ASSUME TokenAssumption ==
    OwnToken \subseteq Token /\ EdgeToken \subseteq Token /\ {None, Partial} \cap Token = {}
ASSUME AbsenceAssumption == None # Partial
ASSUME BoundsAssumption == MaxCommands \in Nat /\ MaxFaults \in Nat

\* conn1 to conn10 are all that generateConnectorName can make up.
Name == Given \cup 1..10

\* A router configuration: of every connector the token its host and port are from.
Config == [conns : [Name -> Token \cup {None, Partial}], profiles : SUBSET Name]
ASSUME CorruptAssumption ==
    {Truncated, Corrupt, None} \cap Config = {} /\ Truncated # Corrupt

VARIABLES
    edge,      \* the router's configuration is that of an edge site
    dirs,      \* the directory of each name: None, Partial, or a token's content
    config,    \* the router's configuration file
    router,    \* the router's container: absent, stopped or running
    loaded,    \* the configuration that the router has started with
    cmd,       \* what each process is doing, or has reported last
    overlap,   \* history: two commands have run at the same time
    commands, faults

site == <<edge, dirs, config, router, loaded>>
vars == <<site, cmd, overlap, commands, faults>>

\* A command: its arguments, the next call, and the configuration it has read and is
\* going to write.
Label == {"idle", "name", "mkdir", "credentials", "read", "rmdir", "truncate", "write",
          "inspect", "stop", "remove", "create", "start", "others", "done", "failed"}
Command == [op : {"connect", "disconnect"}, name : Name \cup {None},
            token : Token \cup {None}, pc : Label, snap : Config \cup {None}]

Finished == {"idle", "done", "failed"}
At(c, label) == cmd[c].pc = label
Busy(c) == cmd[c].pc \notin Finished

GoTo(c, label) == cmd' = [cmd EXCEPT ![c].pc = label]
End(c, report) ==
    cmd' = [cmd EXCEPT ![c] = [@ EXCEPT !.pc = report, !.snap = None]]

Rest == <<overlap, commands, faults>>

-----------------------------------------------------------------------------
(* Names.                                                                  *)

\* The number in a name as the pattern conn([0-9])+ captures it: its last digit.
Captured(n) == n % 10

\* A variant with a mistake: the largest number found is not stepped over.
GeneratedAgain(taken) ==
    CHOOSE m \in 1..10 :
        /\ \A n \in taken : Captured(n) <= m
        /\ m = 1 \/ \E n \in taken : Captured(n) = m

\* A variant with a mistake: the numbers start from nothing.
GeneratedFromZero(taken) ==
    CHOOSE m \in 0..10 :
        /\ \A n \in taken : Captured(n) < m
        /\ m = 0 \/ \E n \in taken : Captured(n) + 1 = m

\* generateConnectorName: one above the largest number captured, and at least 1.
Generated(taken) ==
    CHOOSE m \in 1..10 :
        /\ \A n \in taken : Captured(n) < m
        /\ m = 1 \/ \E n \in taken : Captured(n) + 1 = m

Taken == {n \in Name : dirs[n] # None}

-----------------------------------------------------------------------------
(* The configuration.                                                      *)

\* A connector's host and port are read from its directory: an edge site reads those for
\* edge sites.  That there are none is not noticed, and leaves them empty.
Source(content) ==
    IF content \in Token /\ (edge => content \in EdgeToken) THEN content ELSE Partial

WithConnector(cf, n, source) ==
    [conns |-> [cf.conns EXCEPT ![n] = source], profiles |-> cf.profiles \cup {n}]

\* A variant with a mistake: the profile is looked for under the connector's name.
WithoutConnectorOnly(cf, n) ==
    [conns |-> [cf.conns EXCEPT ![n] = None], profiles |-> cf.profiles]

WithoutConnector(cf, n) ==
    [conns |-> [cf.conns EXCEPT ![n] = None], profiles |-> cf.profiles \ {n}]

NoConnectors == [conns |-> [n \in Name |-> None], profiles |-> {}]

-----------------------------------------------------------------------------
\* The site has been initialised.
Init ==
    /\ edge \in BOOLEAN
    /\ dirs = [n \in Name |-> None]
    /\ config = NoConnectors
    /\ router = "running"
    /\ loaded = NoConnectors
    /\ cmd = [c \in Cli |-> [op |-> "connect", name |-> None, token |-> None,
                             pc |-> "idle", snap |-> None]]
    /\ overlap = FALSE
    /\ commands = 0 /\ faults = 0

\* A command begins with an inspection of the router's container.  What other commands
\* have reported is of no more use to anybody.
Begin(c, op, n, t, label) ==
    /\ ~Busy(c)
    /\ commands < MaxCommands
    /\ commands' = commands + 1
    /\ overlap' = (overlap \/ \E d \in Cli : Busy(d))
    /\ cmd' = [d \in Cli |->
                IF d = c THEN [op |-> op, name |-> n, token |-> t, snap |-> None,
                               pc |-> IF router = "absent" THEN "failed" ELSE label]
                ELSE IF Busy(d) THEN cmd[d] ELSE [cmd[d] EXCEPT !.pc = "idle"]]
    /\ UNCHANGED <<site, faults>>

\* skupper connect, with a name or without; a token of this site itself is refused.
ConnectAs(c, n, t) == Begin(c, "connect", n, t, IF t \in OwnToken THEN "failed" ELSE "mkdir")
Connect(c, t) == Begin(c, "connect", None, t, IF t \in OwnToken THEN "failed" ELSE "name")

\* skupper disconnect.
Disconnect(c, n) == Begin(c, "disconnect", n, None, "read")

ChooseName(c) ==
    /\ At(c, "name")
    /\ cmd' = [cmd EXCEPT ![c].name = Generated(Taken), ![c].pc = "mkdir"]
    /\ UNCHANGED <<site, Rest>>

MakeDirectory(c) ==
    LET n == cmd[c].name IN
    /\ At(c, "mkdir")
    /\ IF dirs[n] = None
         THEN dirs' = [dirs EXCEPT ![n] = Partial] /\ GoTo(c, "credentials")
         ELSE End(c, "failed") /\ UNCHANGED dirs
    /\ UNCHANGED <<edge, config, router, loaded, Rest>>

WriteCredentials(c) ==
    LET n == cmd[c].name IN
    /\ At(c, "credentials")
    /\ IF dirs[n] # None
         THEN dirs' = [dirs EXCEPT ![n] = cmd[c].token] /\ GoTo(c, "read")
         ELSE End(c, "failed") /\ UNCHANGED dirs
    /\ UNCHANGED <<edge, config, router, loaded, Rest>>

\* The configuration is read and edited in memory.  Without a connector of that name
\* there is nothing to remove, and only the restarts remain.
ReadConfig(c) ==
    LET n == cmd[c].name
        Keep(cf, label) == cmd' = [cmd EXCEPT ![c].snap = cf, ![c].pc = label]
    IN
    /\ At(c, "read")
    /\ IF config \notin Config THEN End(c, "failed")
       ELSE IF cmd[c].op = "connect"
         THEN Keep(WithConnector(config, n, Source(dirs[n])), "truncate")
       ELSE IF config.conns[n] # None THEN Keep(WithoutConnector(config, n), "rmdir")
       ELSE GoTo(c, "inspect")
    /\ UNCHANGED <<site, Rest>>

RemoveDirectory(c) ==
    /\ At(c, "rmdir")
    /\ dirs' = [dirs EXCEPT ![cmd[c].name] = None]
    /\ GoTo(c, "truncate")
    /\ UNCHANGED <<edge, config, router, loaded, Rest>>

\* WriteToConfigFile: opening the file truncates it, and then it is written.
TruncateConfig(c) ==
    /\ At(c, "truncate")
    /\ config' = Truncated
    /\ GoTo(c, "write")
    /\ UNCHANGED <<edge, dirs, router, loaded, Rest>>

\* What a write leaves.  Over the content of another command that has opened the file
\* as well, a shorter configuration leaves the longer one's tail.
Written(c) ==
    IF config \in {Truncated, cmd[c].snap} THEN {cmd[c].snap} ELSE {cmd[c].snap, Corrupt}

\* A variant with a mistake: the restart is left to the next command.
WriteConfigOnly(c) ==
    /\ At(c, "write")
    /\ config' \in Written(c)
    /\ GoTo(c, "others")
    /\ UNCHANGED <<edge, dirs, router, loaded, Rest>>

WriteConfig(c) ==
    /\ At(c, "write")
    /\ config' \in Written(c)
    /\ GoTo(c, "inspect")
    /\ UNCHANGED <<edge, dirs, router, loaded, Rest>>

-----------------------------------------------------------------------------
(* RestartTransportContainer.  Its first call is the only one whose error  *)
(* it returns; the errors of the others are logged.                        *)

InspectRouter(c) ==
    /\ At(c, "inspect")
    /\ IF router = "absent" THEN End(c, "failed") ELSE GoTo(c, "stop")
    /\ UNCHANGED <<site, Rest>>

StopRouter(c) ==
    /\ At(c, "stop")
    /\ router' = IF router = "running" THEN "stopped" ELSE router
    /\ GoTo(c, "remove")
    /\ UNCHANGED <<edge, dirs, config, loaded, Rest>>

\* Docker refuses to remove a running container.
RemoveRouter(c) ==
    /\ At(c, "remove")
    /\ router' = IF router = "running" THEN router ELSE "absent"
    /\ GoTo(c, "create")
    /\ UNCHANGED <<edge, dirs, config, loaded, Rest>>

\* The name may be in use.
CreateRouter(c) ==
    /\ At(c, "create")
    /\ router' = IF router = "absent" THEN "stopped" ELSE router
    /\ GoTo(c, "start")
    /\ UNCHANGED <<edge, dirs, config, loaded, Rest>>

\* A container that starts reads the file; if it cannot, it exits.
StartRouter(c) ==
    /\ At(c, "start")
    /\ IF router = "stopped" /\ config \in Config
         THEN router' = "running" /\ loaded' = config
         ELSE UNCHANGED <<router, loaded>>
    /\ GoTo(c, "others")
    /\ UNCHANGED <<edge, dirs, config, Rest>>

\* The controller and the proxies are restarted, after another inspection of the
\* router.  Whether each service has its proxy is up to the controller (see Proxies);
\* one that has none fails the command.
RestartOthers(c) ==
    /\ At(c, "others")
    /\ \/ router # "absent" /\ End(c, "done")
       \/ End(c, "failed")
    /\ UNCHANGED <<site, Rest>>

-----------------------------------------------------------------------------
(* Failures.                                                               *)

Fault ==
    /\ faults < MaxFaults
    /\ faults' = faults + 1
    /\ UNCHANGED <<overlap, commands>>

\* A call fails and its error is returned, or the command is interrupted; a removal
\* or a write may have got half way.
Abort(c) ==
    /\ Busy(c)
    /\ Fault
    /\ End(c, "failed")
    /\ \/ UNCHANGED <<dirs, config>>
       \/ /\ At(c, "rmdir") /\ dirs[cmd[c].name] # None
          /\ dirs' = [dirs EXCEPT ![cmd[c].name] = Partial]
          /\ UNCHANGED config
       \/ /\ At(c, "write")
          /\ config' \in Written(c) \cup {Corrupt}
          /\ UNCHANGED dirs
    /\ UNCHANGED <<edge, router, loaded>>

\* The host or the port cannot be read, and the connector is made without it.
ReadWithoutHost(c) ==
    /\ At(c, "read") /\ cmd[c].op = "connect"
    /\ config \in Config
    /\ cmd' = [cmd EXCEPT ![c].snap = WithConnector(config, cmd[c].name, Partial),
                          ![c].pc = "truncate"]

\* A variant with a mistake: the error of writing the configuration is ignored as well.
FailUnnoticedOrUnwritten(c) ==
    /\ Fault
    /\ \/ ReadWithoutHost(c)
       \/ At(c, "write") /\ GoTo(c, "inspect")
       \/ At(c, "stop") /\ GoTo(c, "remove")
       \/ At(c, "remove") /\ GoTo(c, "create")
       \/ At(c, "create") /\ GoTo(c, "start")
       \/ At(c, "start") /\ GoTo(c, "others")
    /\ UNCHANGED site

\* A call fails and its error is ignored, or logged.
FailUnnoticed(c) ==
    /\ Fault
    /\ \/ ReadWithoutHost(c)
       \/ At(c, "stop") /\ GoTo(c, "remove")
       \/ At(c, "remove") /\ GoTo(c, "create")
       \/ At(c, "create") /\ GoTo(c, "start")
       \/ At(c, "start") /\ GoTo(c, "others")
    /\ UNCHANGED site

-----------------------------------------------------------------------------
Edit(c) ==
    \/ ChooseName(c) \/ MakeDirectory(c) \/ WriteCredentials(c) \/ ReadConfig(c)
    \/ RemoveDirectory(c) \/ TruncateConfig(c) \/ WriteConfig(c)

Restart(c) ==
    \/ InspectRouter(c) \/ StopRouter(c) \/ RemoveRouter(c) \/ CreateRouter(c)
    \/ StartRouter(c) \/ RestartOthers(c)

\* Names that users choose, and those they have read in a list or in a report.
Known == Given \cup Taken \cup {n \in Name : \E c \in Cli : cmd[c].name = n}

Next ==
    \/ \E c \in Cli :
        \/ \E t \in Token : Connect(c, t) \/ \E n \in Given : ConnectAs(c, n, t)
        \/ \E n \in Known : Disconnect(c, n)
        \/ Edit(c) \/ Restart(c) \/ Abort(c) \/ FailUnnoticed(c)

Spec == Init /\ [][Next]_vars

-----------------------------------------------------------------------------
(* Properties.                                                             *)

\* A command that works on a directory or the configuration has a name, and one that
\* is going to write a configuration has one to write.
Prepared(k) ==
    /\ k.pc \in {"mkdir", "credentials", "read", "rmdir"} => k.name \in Name
    /\ k.pc \in {"rmdir", "truncate", "write"} => k.snap \in Config
    /\ k.pc \in {"name", "mkdir", "credentials"} => k.token \in Token

\* Values of the right kind, and commands that have what their next call needs.
TypeOK ==
    /\ edge \in BOOLEAN
    /\ dirs \in [Name -> Token \cup {None, Partial}]
    /\ config \in Config \cup {Truncated, Corrupt}
    /\ router \in {"absent", "stopped", "running"}
    /\ loaded \in Config
    /\ cmd \in [Cli -> Command]
    /\ \A c \in Cli : Prepared(cmd[c])
    /\ overlap \in BOOLEAN
    /\ commands \in 0..MaxCommands /\ faults \in 0..MaxFaults

Quiet == \A c \in Cli : ~Busy(c)

\* However the restarts of concurrent commands interleave - each stopping, removing,
\* creating and starting one and the same container, and ignoring what goes wrong - when
\* no command is under way and no call has failed the router runs, with the
\* configuration that is in the file.  Only overlapping writes that have spoilt the
\* file can keep it from that.
RouterUpToDate ==
    Quiet /\ faults = 0 =>
        \/ router = "running" /\ loaded = config
        \/ overlap /\ config = Corrupt

\* Commands that ran one after the other, none of which was hit by a failure, leave one
\* connector and one profile per directory, whatever they have reported; the connector
\* has its token's host and port, or none on an edge site whose token has none for it.
InAgreement ==
    Quiet /\ ~overlap /\ faults = 0 =>
        /\ config \in Config
        /\ config.conns = [n \in Name |-> IF dirs[n] = None THEN None ELSE Source(dirs[n])]
        /\ config.profiles = Taken

\* A connector that was asked for stands in the file, with its profile, and its
\* directory has the token's credentials.  Its host and port are the token's, or, if
\* they could not be read, empty: never those of another token, or of a former
\* connector of that name.
Connected(n, t) ==
    /\ n \in config.profiles
    /\ dirs[n] = t
    /\ config.conns[n] \in {Source(t), Partial}
    /\ faults = 0 => config.conns[n] = Source(t)

\* What a report of success says is true, whatever has failed in earlier commands, and
\* in the restarts of this one: a connector that was made is in the file, and one that
\* was removed is not.
SuccessIsConfigured ==
    ~overlap => \A c \in Cli : At(c, "done") =>
        /\ config \in Config
        /\ IF cmd[c].op = "connect" THEN Connected(cmd[c].name, cmd[c].token)
                                    ELSE config.conns[cmd[c].name] = None

\* The name that is made up is free, as long as there is none with two digits.
GeneratedIsFree == (\A n \in Taken : n < 10) => Generated(Taken) \notin Taken

\* What disconnect reports to be removed is gone (main.go: "has been removed").
DisconnectRemoves ==
    ~overlap => \A c \in Cli :
        At(c, "done") /\ cmd[c].op = "disconnect" => dirs[cmd[c].name] = None
=============================================================================
