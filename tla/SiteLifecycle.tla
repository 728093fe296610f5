---------------------------- MODULE SiteLifecycle ----------------------------
(***************************************************************************)
(* skupper-docker init and delete (RouterCreate, RouterRemove), call by    *)
(* call, over the host's files, Docker's network and its containers, and   *)
(* the start of the service controller, which waits for the router.        *)
(*                                                                         *)
(* Commands are processes: nothing keeps two of them apart.  Any call may  *)
(* fail and any command may be interrupted.  init returns the first error, *)
(* delete collects its errors and goes on.  A call that was carried out    *)
(* and is reported as failed leaves what an interruption after it leaves.  *)
(***************************************************************************)
EXTENDS Naturals, FiniteSets

CONSTANTS
    Cli,           \* the processes that run commands
    Service,       \* services, each with a proxy container
    MaxCommands,   \* bound on the commands
    MaxFaults      \* bound on failing calls, interruptions and exits

\* A command's place names what its next call is on: a container, the network, files.
ASSUME ServiceAssumption ==
    Service \cap {"router", "controller", "target", "network", "files"} = {}
ASSUME BoundsAssumption == MaxCommands \in Nat /\ MaxFaults \in Nat

VARIABLES
    files,      \* what is there of the host directory
    network,    \* the network exists
    box,        \* the containers
    attached,   \* running containers on the network, a user's container included
    stale,      \* running containers whose mounted directories were deleted
    phase,      \* the controller's process
    cmd,        \* for each process its command
    commands,   \* commands begun
    faults      \* faults so far

vars == <<files, network, box, attached, stale, phase, cmd, commands, faults>>
docker == <<network, box, attached, stale, phase>>
counters == <<commands, faults>>

\* The host directory, in the order in which init makes its parts: directories and
\* files.  dirs are those that the router mounts, config its configuration.
Part == {"host", "sites", "siteconfig", "dirs", "services", "definitions", "config", "certs"}
Parent == [host |-> "host", sites |-> "host", siteconfig |-> "sites", dirs |-> "host",
           services |-> "host", definitions |-> "services", config |-> "dirs",
           certs |-> "dirs"]
Closed(parts) == \A f \in parts : Parent[f] \in parts

\* os.Mkdir fails on these if they exist; the others are made by MkdirAll or WriteFile.
NewDirectory == {"sites", "dirs", "services"}

Site == {"router", "controller"}
Box == Site \cup Service
Running == {b \in Box : box[b] = "running"}

\* The directories a container is started with.
Mounted(b) == CASE b = "router" -> {"dirs"}
                [] b = "controller" -> {"dirs", "services"}
                [] OTHER -> {}

NoCommand == [op |-> "none", call |-> "idle", on |-> "none", todo |-> {}, errors |-> FALSE,
              result |-> "none", marks |-> {}]

Init ==
    /\ files = {}
    /\ network = FALSE
    /\ box = [b \in Box |-> "absent"]
    /\ attached = {}
    /\ stale = {}
    /\ phase = "off"
    /\ cmd = [c \in Cli |-> NoCommand]
    /\ commands = 0
    /\ faults = 0

-----------------------------------------------------------------------------
(* Commands in general.                                                    *)

Active(c) == cmd[c].call # "idle"
At(c, call, on) == cmd[c].call = call /\ cmd[c].on = on
Goto(c, call, on) == cmd' = [cmd EXCEPT ![c].call = call, ![c].on = on]
End(c, result) == cmd' = [cmd EXCEPT ![c].call = "idle", ![c].on = "none",
                                     ![c].todo = {}, ![c].result = result]

\* What is remembered of a command to say what it promises: whether another ran at
\* the same time, whether init found neither network nor containers of the site.
MarksAtBegin(c, op) ==
    (IF \E d \in Cli \ {c} : Active(d) THEN {"overlapped"} ELSE {})
    \cup (IF op = "init" /\ ~network /\ \A b \in Site : box[b] = "absent"
            THEN {"fresh"} ELSE {})

Begin(c, op) ==
    /\ ~Active(c)
    /\ commands < MaxCommands
    /\ commands' = commands + 1
    /\ cmd' = [d \in Cli |->
            IF d = c THEN [NoCommand EXCEPT !.op = op,
                                !.call = IF op = "init" THEN "wipe" ELSE "inspect",
                                !.on = IF op = "init" THEN "none" ELSE "controller",
                                !.marks = MarksAtBegin(c, op)]
            ELSE IF Active(d) THEN [cmd[d] EXCEPT !.marks = @ \cup {"overlapped"}]
            ELSE cmd[d]]
    /\ UNCHANGED <<files, docker, faults>>

Fault(c) == faults < MaxFaults /\ faults' = faults + 1

\* The user's interrupt, or, of init, an error of a call.
Abort(c) ==
    /\ Active(c)
    /\ Fault(c)
    /\ cmd' = [cmd EXCEPT ![c] = [NoCommand EXCEPT !.op = cmd[c].op, !.result = "failed",
                                      !.marks = cmd[c].marks \cup {"faulted"}]]
    /\ UNCHANGED <<files, docker, commands>>

\* The directories of the containers that run go with the host directory.
Lost(rest) == stale' = stale \cup {b \in Running : ~(Mounted(b) \subseteq rest)}

-----------------------------------------------------------------------------
(* init.                                                                   *)

\* What init does next.  The images are pulled before dirs, which changes nothing
\* here.
AfterMaking == [host |-> "sites", sites |-> "siteconfig", siteconfig |-> "dirs",
                dirs |-> "services", services |-> "definitions", definitions |-> "config"]

\* A variant with a mistake: what is there is kept.
WipeNothing(c) ==
    /\ At(c, "wipe", "none")
    /\ Goto(c, "make", "host")
    /\ UNCHANGED <<files, docker, counters>>

Wipe(c) ==
    /\ At(c, "wipe", "none")
    /\ files' = {}
    /\ Lost({})
    /\ Goto(c, "make", "host")
    /\ UNCHANGED <<network, box, attached, phase, counters>>

\* The error of RemoveAll is ignored.
WipeFails(c) ==
    /\ At(c, "wipe", "none")
    /\ Fault(c)
    /\ files' \in {rest \in SUBSET files : Closed(rest)}
    /\ Lost(files')
    /\ cmd' = [cmd EXCEPT ![c].call = "make", ![c].on = "host",
                          ![c].marks = @ \cup {"faulted"}]
    /\ UNCHANGED <<network, box, attached, phase, commands>>

Makeable(f) ==
    /\ f # "host" => Parent[f] \in files
    /\ f \in NewDirectory => f \notin files

Make(c, f) ==
    /\ At(c, "make", f)
    /\ IF Makeable(f)
         THEN /\ files' = files \cup {f}
              /\ IF f = "config" THEN Goto(c, "create", "network")
                                 ELSE Goto(c, "make", AfterMaking[f])
         ELSE UNCHANGED files /\ End(c, "failed")
    /\ UNCHANGED <<docker, counters>>

\* Docker is asked to refuse a second network of that name.
CreateNetwork(c) ==
    /\ At(c, "create", "network")
    /\ IF network THEN UNCHANGED network /\ End(c, "failed")
                  ELSE network' = TRUE /\ Goto(c, "create", "router")
    /\ UNCHANGED <<files, box, attached, stale, phase, counters>>

AfterCreating(c, b) == IF b = "router" THEN Goto(c, "make", "certs")
                                       ELSE Goto(c, "start", b)

\* A variant with a mistake: a container of that name will do.
CreateOrReuse(c, b) ==
    /\ At(c, "create", b)
    /\ b \in Site
    /\ box' = IF box[b] = "absent" THEN [box EXCEPT ![b] = "created"] ELSE box
    /\ AfterCreating(c, b)
    /\ UNCHANGED <<files, network, attached, stale, phase, counters>>

Create(c, b) ==
    /\ At(c, "create", b)
    /\ b \in Site
    /\ IF box[b] = "absent" /\ Mounted(b) \subseteq files
         THEN box' = [box EXCEPT ![b] = "created"] /\ AfterCreating(c, b)
         ELSE UNCHANGED box /\ End(c, "failed")
    /\ UNCHANGED <<files, network, attached, stale, phase, counters>>

\* The errors of ensureCA and generateCredentials are ignored.
MakeCerts(c) ==
    /\ At(c, "make", "certs")
    /\ \/ files' = files \cup {f \in {"certs"} : "dirs" \in files} /\ UNCHANGED faults
       \/ UNCHANGED files /\ Fault(c)
    /\ cmd' = [cmd EXCEPT ![c].call = "start", ![c].on = "router",
                          ![c].marks = @ \cup {m \in {"faulted"} : faults' # faults}]
    /\ UNCHANGED <<docker, commands>>

Startable(b) == box[b] # "absent" /\ network /\ Mounted(b) \subseteq files

Start(c, b) ==
    /\ At(c, "start", b)
    /\ IF Startable(b)
         THEN /\ box' = [box EXCEPT ![b] = "running"]
              /\ attached' = attached \cup {b}
              /\ phase' = IF b = "controller" /\ phase = "off" THEN "starting" ELSE phase
              /\ IF b = "router" THEN Goto(c, "create", "controller")
                                 ELSE Goto(c, "report", "none")
         ELSE UNCHANGED <<box, attached, phase>> /\ End(c, "failed")
    /\ UNCHANGED <<files, network, stale, counters>>

InitStep(c) ==
    \/ Wipe(c) \/ WipeFails(c) \/ CreateNetwork(c) \/ MakeCerts(c)
    \/ \E f \in Part \ {"certs"} : Make(c, f)
    \/ \E b \in Site : Create(c, b) \/ Start(c, b)

-----------------------------------------------------------------------------
(* delete.                                                                 *)

\* What follows when delete is done with container b, or has failed to be.
After(b) == CASE b = "controller" -> <<"list", "proxies">>
              [] b = "router" -> <<"inspect", "network">>
              [] OTHER -> <<"next", "proxy">>

GoOn(c, to, failed) ==
    cmd' = [cmd EXCEPT ![c].call = to[1], ![c].on = to[2], ![c].errors = @ \/ failed]

Inspect(c, b) ==
    /\ At(c, "inspect", b)
    /\ b \in Site
    /\ GoOn(c, IF box[b] = "absent" THEN After(b) ELSE <<"stop", b>>, FALSE)
    /\ UNCHANGED <<files, docker, counters>>

\* The container's process is gone, and its endpoint with it.
Halted(b) ==
    /\ box' = [box EXCEPT ![b] = IF @ = "running" THEN "exited" ELSE @]
    /\ attached' = attached \ {b}
    /\ stale' = stale \ {b}
    /\ phase' = IF b = "controller" THEN "off" ELSE phase

Stop(c, b) ==
    /\ At(c, "stop", b)
    /\ IF box[b] = "absent"
         THEN GoOn(c, After(b), TRUE) /\ UNCHANGED <<box, attached, stale, phase>>
         ELSE GoOn(c, <<"remove", b>>, FALSE) /\ Halted(b)
    /\ UNCHANGED <<files, network, counters>>

\* A variant with a mistake: a container that runs is removed as well, and its
\* process goes on.
RemoveAnyway(c, b) ==
    /\ At(c, "remove", b)
    /\ GoOn(c, After(b), box[b] = "absent")
    /\ box' = [box EXCEPT ![b] = "absent"]
    /\ UNCHANGED <<files, network, attached, stale, phase, counters>>

\* Docker refuses to remove a container that runs.
Remove(c, b) ==
    /\ At(c, "remove", b)
    /\ LET refused == box[b] \in {"absent", "running"}
       IN  /\ GoOn(c, After(b), refused)
           /\ box' = IF refused THEN box ELSE [box EXCEPT ![b] = "absent"]
    /\ UNCHANGED <<files, network, attached, stale, phase, counters>>

\* A variant with a mistake: containers that do not run are not listed.
ListRunning(c) ==
    /\ At(c, "list", "proxies")
    /\ cmd' = [cmd EXCEPT ![c].call = "next", ![c].on = "proxy",
                          ![c].todo = Service \cap Running]
    /\ UNCHANGED <<files, docker, counters>>

List(c) ==
    /\ At(c, "list", "proxies")
    /\ cmd' = [cmd EXCEPT ![c].call = "next", ![c].on = "proxy",
                          ![c].todo = {s \in Service : box[s] # "absent"}]
    /\ UNCHANGED <<files, docker, counters>>

NextProxy(c) ==
    /\ At(c, "next", "proxy")
    /\ \/ cmd[c].todo = {} /\ Goto(c, "inspect", "router")
       \/ \E s \in cmd[c].todo :
            cmd' = [cmd EXCEPT ![c].call = "stop", ![c].on = s, ![c].todo = @ \ {s}]
    /\ UNCHANGED <<files, docker, counters>>

InspectNetwork(c) ==
    /\ At(c, "inspect", "network")
    /\ Goto(c, IF network THEN "disconnect" ELSE "remove",
               IF network THEN "network" ELSE "files")
    /\ UNCHANGED <<files, docker, counters>>

\* RemoveNetwork: all that is attached is disconnected by force, then the network
\* goes, if nothing has been attached since.
Disconnect(c) ==
    /\ At(c, "disconnect", "network")
    /\ IF network THEN attached' = {} /\ GoOn(c, <<"remove", "network">>, FALSE)
                  ELSE UNCHANGED attached /\ GoOn(c, <<"remove", "files">>, TRUE)
    /\ UNCHANGED <<files, network, box, stale, phase, counters>>

RemoveNetwork(c) ==
    /\ At(c, "remove", "network")
    /\ LET refused == ~network \/ attached # {}
       IN  /\ network' = (network /\ refused)
           /\ GoOn(c, <<"remove", "files">>, refused)
    /\ UNCHANGED <<files, box, attached, stale, phase, counters>>

RemoveFiles(c) ==
    /\ At(c, "remove", "files")
    /\ files' = {}
    /\ Lost({})
    /\ Goto(c, "report", "none")
    /\ UNCHANGED <<network, box, attached, phase, counters>>

\* Where delete goes on when a call fails.
OnError(c) ==
    LET on == cmd[c].on
    IN  CASE cmd[c].call = "list" -> <<"inspect", "router">>
          [] on = "network" -> <<"remove", "files">>
          [] on = "files" -> <<"report", "none">>
          [] OTHER -> After(on)

\* An error of a call is kept for the report; but a container or network whose
\* inspection fails is taken to be absent, without an error.
DeleteCallFails(c) ==
    LET inspecting == cmd[c].call = "inspect"
        to == OnError(c)
    IN  /\ cmd[c].op = "delete"
        /\ cmd[c].call \in {"inspect", "stop", "remove", "list", "disconnect"}
        /\ Fault(c)
        /\ cmd' = [cmd EXCEPT ![c].call = to[1], ![c].on = to[2],
                       ![c].errors = @ \/ ~inspecting,
                       ![c].marks = @ \cup {"faulted"}
                                      \cup {m \in {"uninspected"} : inspecting}]
        /\ files' \in IF cmd[c].on = "files" THEN {rest \in SUBSET files : Closed(rest)}
                                             ELSE {files}
        /\ Lost(files')
        /\ UNCHANGED <<network, box, attached, phase, commands>>

DeleteStep(c) ==
    \/ List(c) \/ NextProxy(c) \/ InspectNetwork(c) \/ Disconnect(c) \/ RemoveNetwork(c)
    \/ RemoveFiles(c) \/ DeleteCallFails(c)
    \/ \E b \in Box : Inspect(c, b) \/ Stop(c, b) \/ Remove(c, b)

\* "Skupper is now installed", "Skupper resources are now removed", or the errors.
Report(c) ==
    /\ At(c, "report", "none")
    /\ End(c, IF cmd[c].errors THEN "failed" ELSE "ok")
    /\ UNCHANGED <<files, docker, counters>>

-----------------------------------------------------------------------------
(* The containers.  None is restarted by Docker.                           *)

Exits(b) == Halted(b) /\ UNCHANGED <<files, network, cmd, commands>>

\* main of the controller: without its certificates it exits.
LoadCertificates ==
    /\ phase = "starting"
    /\ IF "certs" \in files /\ "controller" \notin stale
         THEN phase' = "waiting" /\ UNCHANGED <<files, network, box, attached, stale, cmd, commands>>
         ELSE Exits("controller")
    /\ UNCHANGED faults

\* WaitForContainerStatus looks every 5 seconds.
SeesRouter ==
    /\ phase = "waiting"
    /\ box["router"] = "running"
    /\ phase' = "serving"
    /\ UNCHANGED <<files, network, box, attached, stale, cmd, counters>>


\* For 180 seconds the router was not seen running.
GivesUp ==
    /\ phase = "waiting"
    /\ box["router"] # "running"
    /\ Exits("controller")
    /\ UNCHANGED faults

\* The router stops by itself.  What a dead controller leaves is left as well by one
\* that gives up.
RouterDies ==
    /\ box["router"] = "running"
    /\ faults < MaxFaults
    /\ faults' = faults + 1
    /\ Exits("router")

\* The controller at work, see Proxies: it makes, starts and removes proxies and
\* attaches their targets.
Serve ==
    /\ phase = "serving"
    /\ \/ \E s \in Service :
            \/ /\ box[s] = "absent"
               /\ box' = [box EXCEPT ![s] = "created"]
               /\ UNCHANGED attached
            \/ /\ box[s] = "created" /\ network
               /\ box' = [box EXCEPT ![s] = "running"]
               /\ attached' = attached \cup {s}
            \/ /\ box[s] # "absent"
               /\ box' = [box EXCEPT ![s] = "absent"]
               /\ attached' = attached \ {s}
       \/ /\ network
          /\ attached' = attached \cup {"target"}
          /\ UNCHANGED box
    /\ UNCHANGED <<files, network, stale, phase, cmd, counters>>

-----------------------------------------------------------------------------
Next ==
    \/ \E c \in Cli : InitStep(c) \/ DeleteStep(c) \/ Report(c) \/ Abort(c)
    \/ \E c \in Cli, op \in {"init", "delete"} : Begin(c, op)
    \/ LoadCertificates \/ SeesRouter \/ GivesUp \/ RouterDies \/ Serve

Spec == Init /\ [][Next]_vars

\* The controller's process runs, and the commands are not suspended for good.
Fairness ==
    /\ WF_vars(LoadCertificates)
    /\ WF_vars(SeesRouter)
    /\ \A c \in Cli : WF_vars(InitStep(c) \/ DeleteStep(c) \/ Report(c))

FairSpec == Spec /\ Fairness

-----------------------------------------------------------------------------
(* Properties.                                                             *)

Alone(c) == "overlapped" \notin cmd[c].marks
Unfaulted(c) == "faulted" \notin cmd[c].marks
Reporting(c, op) == At(c, "report", "none") /\ cmd[c].op = op

\* Values of the right kind; the controller's process is in a running container.
TypeOK ==
    /\ files \subseteq Part /\ Closed(files)
    /\ network \in BOOLEAN
    /\ box \in [Box -> {"absent", "created", "running", "exited"}]
    /\ attached \subseteq Running \cup {"target"}
    /\ stale \subseteq Running
    /\ phase \in {"off", "starting", "waiting", "serving"}
    /\ phase # "off" <=> box["controller"] = "running"
    /\ commands \in 0..MaxCommands /\ faults \in 0..MaxFaults

\* "Skupper resources are now removed" (main.go) is true whatever half of a site the
\* commands before have left, and whatever fails, if every inspection is answered:
\* no container, proxy, network or file is left.  Without a fault it is reported.
DeleteLeavesNothing ==
    \A c \in Cli : Reporting(c, "delete") /\ Alone(c) =>
        /\ ~cmd[c].errors /\ "uninspected" \notin cmd[c].marks =>
                files = {} /\ ~network /\ \A b \in Box : box[b] = "absent"
        /\ Unfaulted(c) => ~cmd[c].errors

\* "Skupper is now installed" (main.go): the site has its network and its files, and
\* its containers were started on these files, not on those of an earlier site.
SuccessIsASite ==
    \A c \in Cli : Reporting(c, "init") /\ Alone(c) =>
        /\ network
        /\ Part \ {"certs"} \subseteq files
        /\ Unfaulted(c) => "certs" \in files
        /\ stale = {}
        /\ \A b \in Site : box[b] \in {"running", "exited"}

\* An init that has failed halfway can be repeated, as long as it had come neither to
\* the network nor to the containers: files that are left do not stand in the way.
InitFailsOnlyOnLeftovers ==
    \A c \in Cli :
        cmd[c].op = "init" /\ cmd[c].result = "failed" /\ Alone(c) /\ Unfaulted(c)
            => "fresh" \notin cmd[c].marks

\* An init that was alone and went well has ended, and what it made is there.
Installed ==
    /\ \E c \in Cli : cmd[c].op = "init" /\ cmd[c].result = "ok" /\ Alone(c)
    /\ \A c \in Cli : ~Active(c)
    /\ "certs" \in files /\ stale = {} /\ \A b \in Site : box[b] = "running"

=============================================================================
