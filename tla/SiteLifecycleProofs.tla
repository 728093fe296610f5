------------------------- MODULE SiteLifecycleProofs -------------------------
(***************************************************************************)
(* Proofs about SiteLifecycle, for any number of processes, any services   *)
(* and any bounds.                                                         *)
(***************************************************************************)
EXTENDS SiteLifecycle, TLAPS

-----------------------------------------------------------------------------
(* The invariant.                                                          *)

On == Part \cup Box \cup {"none", "network", "files", "proxies", "proxy"}
Call == {"idle", "wipe", "make", "create", "start", "report", "inspect", "stop", "remove",
         "list", "next", "disconnect"}
Mark == {"overlapped", "fresh", "faulted", "uninspected"}

Command == [op : {"none", "init", "delete"}, call : Call, on : On, todo : SUBSET Service,
            errors : BOOLEAN, result : {"none", "ok", "failed"}, marks : SUBSET Mark]

\* The places init and delete come to, and what they know wherever they are.
InitPlace(k) ==
    /\ ~k.errors
    /\ \/ k.call \in {"wipe", "report"} /\ k.on = "none"
       \/ k.call = "make" /\ k.on \in Part
       \/ k.call = "create" /\ k.on \in Site \cup {"network"}
       \/ k.call = "start" /\ k.on \in Site

DeletePlace(k) ==
    \/ k.call = "inspect" /\ k.on \in Site \cup {"network"}
    \/ k.call = "stop" /\ k.on \in Box
    \/ k.call = "remove" /\ k.on \in Box \cup {"network", "files"}
    \/ k.call = "list" /\ k.on = "proxies"
    \/ k.call = "next" /\ k.on = "proxy"
    \/ k.call = "disconnect" /\ k.on = "network"
    \/ k.call = "report" /\ k.on = "none"

Placed(k) ==
    k.call # "idle" =>
        /\ k.result = "none"
        /\ \/ k.op = "init" /\ InitPlace(k)
           \/ k.op = "delete" /\ DeletePlace(k)

CommandsOK == cmd \in [Cli -> Command] /\ \A c \in Cli : Placed(cmd[c])

FilesOK == files \subseteq Part /\ Closed(files)
BoxesOK ==
    /\ box \in [Box -> {"absent", "created", "running", "exited"}]
    /\ attached \subseteq Running \cup {"target"}
    /\ stale \subseteq Running /\ stale \subseteq Site
    /\ phase \in {"off", "starting", "waiting", "serving"}
    /\ phase # "off" <=> box["controller"] = "running"
CountsOK == commands \in 0..MaxCommands /\ faults \in 0..MaxFaults

TypeInv == FilesOK /\ network \in BOOLEAN /\ BoxesOK /\ CountsOK /\ CommandsOK

\* Of two commands that run, each knows that it is not alone.
Apart == \A c, d \in Cli : c # d /\ Active(c) /\ Active(d) => ~Alone(c)

Doing(c, op) == Active(c) /\ cmd[c].op = op /\ Alone(c)

\* The files that init makes before f.
Before(f) ==
    CASE f = "host" -> {}
      [] f = "sites" -> {"host"}
      [] f = "siteconfig" -> {"host", "sites"}
      [] f = "dirs" -> {"host", "sites", "siteconfig"}
      [] f = "services" -> {"host", "sites", "siteconfig", "dirs"}
      [] f = "definitions" -> {"host", "sites", "siteconfig", "dirs", "services"}
      [] f = "config" -> {"host", "sites", "siteconfig", "dirs", "services", "definitions"}
      [] OTHER -> Part \ {"certs"}

MakingFiles(c) == cmd[c].call = "make" /\ cmd[c].on # "certs"
BeforeNetwork(c) == cmd[c].call = "wipe" \/ MakingFiles(c) \/ At(c, "create", "network")
BeforeRouter(c) == BeforeNetwork(c) \/ At(c, "create", "router")
RouterCreated(c) == At(c, "make", "certs") \/ At(c, "start", "router")
BeforeController(c) == BeforeRouter(c) \/ RouterCreated(c) \/ At(c, "create", "controller")
CertsTried(c) == cmd[c].call = "start" \/ At(c, "create", "controller") \/ cmd[c].call = "report"

Started(b) == box[b] \in {"running", "exited"} /\ b \notin stale
Created(b) == box[b] = "created" /\ b \notin stale

\* What an init that is alone has achieved by the time it makes its next call.
InitAchieved(c) ==
    /\ MakingFiles(c) => Before(cmd[c].on) \subseteq files
    /\ cmd[c].call \notin {"wipe", "make"} \/ At(c, "make", "certs") => Part \ {"certs"} \subseteq files
    /\ ~BeforeNetwork(c) => network
    /\ RouterCreated(c) => Created("router")
    /\ ~BeforeRouter(c) /\ ~RouterCreated(c) => Started("router")
    /\ At(c, "start", "controller") => Created("controller")
    /\ cmd[c].call = "report" => Started("controller")
    /\ CertsTried(c) /\ Unfaulted(c) => "certs" \in files

\* Nothing is in its way if it was fresh.
InitUnhindered(c) ==
    /\ BeforeNetwork(c) => ~network
    /\ BeforeRouter(c) => box["router"] = "absent"
    /\ BeforeController(c) => box["controller"] = "absent"
    /\ MakingFiles(c) => files = Before(cmd[c].on)

InitOK(c) ==
    Doing(c, "init") =>
        /\ InitAchieved(c)
        /\ "fresh" \in cmd[c].marks /\ Unfaulted(c) => InitUnhindered(c)
InitInv == \A c \in Cli : InitOK(c)

\* A delete that is alone and knows of all that has gone wrong.
Informed(c) == ~cmd[c].errors /\ "uninspected" \notin cmd[c].marks

OnController(c) ==
    cmd[c].on = "controller" /\ cmd[c].call \in {"inspect", "stop", "remove"}
OnProxies(c) ==
    \/ cmd[c].call \in {"list", "next"}
    \/ cmd[c].call \in {"stop", "remove"} /\ cmd[c].on \in Service
OnRouter(c) == cmd[c].on = "router" /\ cmd[c].call \in {"inspect", "stop", "remove"}

\* Proxies that it has still to remove.
Remaining(c) ==
    cmd[c].todo \cup {s \in Service : cmd[c].call \in {"stop", "remove"} /\ s = cmd[c].on}

DeleteAchieved(c) ==
    /\ cmd[c].call = "stop" => box[cmd[c].on] # "absent"
    /\ cmd[c].call = "remove" /\ cmd[c].on \in Box => box[cmd[c].on] \notin {"absent", "running"}
    /\ ~OnController(c) => box["controller"] = "absent"
    /\ OnProxies(c) /\ cmd[c].call # "list" =>
            \A s \in Service : box[s] # "absent" <=> s \in Remaining(c)
    /\ OnProxies(c) /\ cmd[c].call \notin {"list", "next"} => cmd[c].on \notin cmd[c].todo
    /\ ~OnController(c) /\ ~OnProxies(c) => \A s \in Service : box[s] = "absent"
    /\ ~OnController(c) /\ ~OnProxies(c) /\ ~OnRouter(c) => box["router"] = "absent"
    /\ At(c, "disconnect", "network") => network
    /\ At(c, "remove", "network") => network /\ attached = {}
    /\ At(c, "remove", "files") \/ cmd[c].call = "report" => ~network
    /\ cmd[c].call = "report" => files = {}

DeleteOK(c) ==
    Doing(c, "delete") =>
        /\ Unfaulted(c) => Informed(c)
        /\ Informed(c) => DeleteAchieved(c)
DeleteInv == \A c \in Cli : DeleteOK(c)

IInv == TypeInv /\ Apart /\ InitInv /\ DeleteInv /\ InitFailsOnlyOnLeftovers
-----------------------------------------------------------------------------
(* Places, and how commands move from one to the next.                     *)

LEMMA Boxes ==
    /\ Site \subseteq Box /\ Service \subseteq Box /\ Site \cap Service = {}
    /\ "router" \in Site /\ "controller" \in Site /\ "router" # "controller"
    /\ Box \cap {"target", "network", "files"} = {}
    /\ Box \subseteq On /\ Part \subseteq On
  BY ServiceAssumption DEF Box, Site, On

LEMMA AfterBox ==
    /\ After("controller") = <<"list", "proxies">>
    /\ After("router") = <<"inspect", "network">>
    /\ \A s \in Service : After(s) = <<"next", "proxy">>
  BY ServiceAssumption DEF After

LEMMA MountedBox ==
    /\ Mounted("router") = {"dirs"} /\ Mounted("controller") = {"dirs", "services"}
    /\ \A s \in Service : Mounted(s) = {}
  BY ServiceAssumption DEF Mounted

\* Command c comes to a place, and no other command moves.
Turn(c, call, on) ==
    /\ cmd' \in [Cli -> Command]
    /\ \A d \in Cli : d # c => cmd'[d] = cmd[d]
    /\ cmd'[c].call = call /\ cmd'[c].on = on
    /\ cmd'[c].op = cmd[c].op /\ cmd'[c].result = cmd[c].result

SameMarks(c) == cmd'[c].errors = cmd[c].errors /\ cmd'[c].marks = cmd[c].marks
Calm(c) == SameMarks(c) /\ cmd'[c].todo = cmd[c].todo

LEMMA Replaced ==
    ASSUME cmd \in [Cli -> Command], NEW c \in Cli, NEW k \in Command,
           cmd' = [cmd EXCEPT ![c] = k]
    PROVE  /\ cmd' \in [Cli -> Command] /\ cmd'[c] = k
           /\ \A d \in Cli : d # c => cmd'[d] = cmd[d]
  OBVIOUS

LEMMA GotoTurns ==
    ASSUME cmd \in [Cli -> Command], NEW c \in Cli, NEW call \in Call, NEW on \in On,
           Goto(c, call, on)
    PROVE  Turn(c, call, on) /\ Calm(c)
  <1> DEFINE k == [cmd[c] EXCEPT !.call = call, !.on = on]
  <1>1. /\ k \in Command /\ k.call = call /\ k.on = on /\ k.op = cmd[c].op
        /\ k.result = cmd[c].result /\ k.errors = cmd[c].errors /\ k.marks = cmd[c].marks
        /\ k.todo = cmd[c].todo
    BY DEF Command
  <1>2. cmd' = [cmd EXCEPT ![c] = k]
    BY DEF Goto
  <1> HIDE DEF k
  <1> QED BY <1>1, <1>2, Replaced DEF Turn, Calm, SameMarks

LEMMA GoOnTurns ==
    ASSUME cmd \in [Cli -> Command], NEW c \in Cli, NEW call \in Call, NEW on \in On,
           NEW failed \in BOOLEAN, GoOn(c, <<call, on>>, failed)
    PROVE  /\ Turn(c, call, on)
           /\ cmd'[c].errors = (cmd[c].errors \/ failed)
           /\ cmd'[c].marks = cmd[c].marks /\ cmd'[c].todo = cmd[c].todo
  <1> DEFINE k == [cmd[c] EXCEPT !.call = call, !.on = on, !.errors = @ \/ failed]
  <1>1. /\ k \in Command /\ k.call = call /\ k.on = on /\ k.op = cmd[c].op
        /\ k.result = cmd[c].result /\ k.errors = (cmd[c].errors \/ failed)
        /\ k.marks = cmd[c].marks /\ k.todo = cmd[c].todo
    BY DEF Command
  <1>2. cmd' = [cmd EXCEPT ![c] = k]
    BY DEF GoOn
  <1> HIDE DEF k
  <1> QED BY <1>1, <1>2, Replaced DEF Turn

\* A command ends, with what it is remembered for.
Ends(c, result) ==
    /\ cmd' \in [Cli -> Command]
    /\ \A d \in Cli : d # c => cmd'[d] = cmd[d]
    /\ cmd'[c].call = "idle" /\ cmd'[c].op = cmd[c].op /\ cmd'[c].result = result

LEMMA EndEnds ==
    ASSUME cmd \in [Cli -> Command], NEW c \in Cli, NEW result \in {"ok", "failed"},
           End(c, result)
    PROVE  Ends(c, result) /\ SameMarks(c)
  <1> DEFINE k == [cmd[c] EXCEPT !.call = "idle", !.on = "none", !.todo = {},
                                 !.result = result]
  <1>0. cmd[c] \in Command /\ "idle" \in Call /\ "none" \in On
    BY DEF Call, On
  <1>1. /\ k \in Command /\ k.call = "idle" /\ k.op = cmd[c].op /\ k.result = result
        /\ k.errors = cmd[c].errors /\ k.marks = cmd[c].marks
    BY <1>0 DEF Command
  <1>2. cmd' = [cmd EXCEPT ![c] = k]
    BY DEF End
  <1> HIDE DEF k
  <1> QED BY <1>1, <1>2, Replaced DEF Ends, SameMarks

LEMMA TurnOK ==
    ASSUME CommandsOK, NEW c \in Cli, NEW call, NEW on, Turn(c, call, on), Placed(cmd'[c])
    PROVE  CommandsOK'
  BY DEF CommandsOK, Turn

LEMMA EndsOK ==
    ASSUME CommandsOK, NEW c \in Cli, NEW result, Ends(c, result)
    PROVE  CommandsOK'
  BY DEF CommandsOK, Ends, Placed

-----------------------------------------------------------------------------
(* What steps do to the containers and the files.                          *)

LEMMA HaltedOK ==
    ASSUME BoxesOK, NEW b \in Box, Halted(b)
    PROVE  /\ BoxesOK'
           /\ box'[b] = IF box[b] = "running" THEN "exited" ELSE box[b]
           /\ \A d \in Box : d # b => box'[d] = box[d]
           /\ attached' \subseteq attached /\ stale' \subseteq stale
  <1>1. box' \in [Box -> {"absent", "created", "running", "exited"}]
    BY DEF BoxesOK, Halted
  <1>2. /\ box'[b] = IF box[b] = "running" THEN "exited" ELSE box[b]
        /\ \A d \in Box : d # b => box'[d] = box[d]
        /\ attached' = attached \ {b} /\ stale' = stale \ {b}
    BY DEF BoxesOK, Halted
  <1>3. /\ phase' \in {"off", "starting", "waiting", "serving"}
        /\ phase' # "off" <=> box'["controller"] = "running"
    BY <1>2, Boxes DEF BoxesOK, Halted
  <1>4. attached' \subseteq Running' \cup {"target"} /\ stale' \subseteq Running'
    BY <1>2 DEF BoxesOK, Running
  <1> QED BY <1>1, <1>2, <1>3, <1>4 DEF BoxesOK

LEMMA LostOK ==
    ASSUME BoxesOK, NEW rest, Lost(rest), UNCHANGED <<box, attached, phase>>
    PROVE  BoxesOK'
  <1>1. \A b \in Running : ~(Mounted(b) \subseteq rest) => b \in Site
    BY MountedBox DEF Running, Box
  <1> QED BY <1>1 DEF BoxesOK, Lost, Running

LEMMA ClosedSubset ==
    ASSUME FilesOK, NEW rest \in SUBSET files, Closed(rest), files' = rest
    PROVE  FilesOK'
  BY DEF FilesOK, Closed

LEMMA NoFilesOK == ASSUME files' = {} PROVE FilesOK'
  BY DEF FilesOK, Closed

\* The containers' own steps.
Env == LoadCertificates \/ SeesRouter \/ GivesUp \/ RouterDies \/ Serve

\* They create no container of the site and bring none back, and what concerns the
\* proxies happens only while the controller runs.
EnvEffect ==
    /\ UNCHANGED <<files, network, cmd>>
    /\ \A b \in Site : box'[b] = box[b] \/ (box[b] = "running" /\ box'[b] = "exited")
    /\ stale' \subseteq stale
    /\ box["controller"] # "running" =>
            attached' \subseteq attached /\ \A s \in Service : box'[s] = box[s]

LEMMA ServeEffect ==
    ASSUME BoxesOK, Serve
    PROVE  BoxesOK' /\ EnvEffect
  <1> USE Boxes
  <1>1. /\ phase = "serving" /\ UNCHANGED <<files, network, cmd, stale, phase>>
        /\ box["controller"] = "running"
    BY DEF Serve, BoxesOK, counters
  <1>2. ASSUME NEW s \in Service, NEW state \in {"absent", "created", "running", "exited"},
               box' = [box EXCEPT ![s] = state],
               IF state = "running" THEN attached' = attached \cup {s}
               ELSE attached' = attached \ {s}
        PROVE  BoxesOK' /\ EnvEffect
    <2>1. box' \in [Box -> {"absent", "created", "running", "exited"}]
      BY <1>2 DEF BoxesOK
    <2>2. box'[s] = state /\ \A b \in Box : b # s => box'[b] = box[b]
      BY <1>2 DEF BoxesOK
    <2>3. attached' \subseteq Running' \cup {"target"}
      BY <1>2, <2>2 DEF BoxesOK, Running
    <2>4. \A b \in Site : box'[b] = box[b]
      BY <2>2
    <2>5. stale' \subseteq Running'
      BY <1>1, <2>2, <2>4 DEF BoxesOK, Running
    <2> QED BY <1>1, <2>1, <2>3, <2>4, <2>5 DEF BoxesOK, EnvEffect
  <1>3. ASSUME attached' = attached \cup {"target"}, UNCHANGED box
        PROVE  BoxesOK' /\ EnvEffect
    BY <1>1, <1>3 DEF BoxesOK, EnvEffect, Running
  <1>4. ASSUME NEW s \in Service, box[s] = "absent", box' = [box EXCEPT ![s] = "created"],
               UNCHANGED attached
        PROVE  BoxesOK' /\ EnvEffect
    <2>1. attached' = attached \ {s}
      BY <1>4 DEF BoxesOK, Running
    <2> QED BY <1>2, <1>4, <2>1
  <1> QED BY <1>2, <1>3, <1>4 DEF Serve

LEMMA EnvStep ==
    ASSUME TypeInv, Env
    PROVE  TypeInv' /\ EnvEffect
  <1> USE Boxes
  <1>1. FilesOK /\ BoxesOK /\ CountsOK /\ CommandsOK /\ network \in BOOLEAN
    BY DEF TypeInv
  <1>2. ASSUME NEW b \in Site, Exits(b), UNCHANGED faults \/ faults' = faults + 1
        PROVE  UNCHANGED <<files, network, cmd, commands>> /\ BoxesOK' /\ EnvEffect
    BY <1>1, <1>2, HaltedOK DEF Exits, EnvEffect
  <1>3. ASSUME UNCHANGED <<files, network, box, attached, stale, cmd, commands>>,
               phase # "off", phase' \in {"waiting", "serving"}
        PROVE  UNCHANGED <<files, network, cmd, commands>> /\ BoxesOK' /\ EnvEffect
    BY <1>1, <1>3 DEF BoxesOK, EnvEffect, Running
  <1>4. /\ UNCHANGED <<files, network, cmd, commands>> /\ BoxesOK' /\ EnvEffect
        /\ UNCHANGED faults \/ (faults < MaxFaults /\ faults' = faults + 1)
    <2>1. CASE LoadCertificates
      BY <2>1, <1>2, <1>3 DEF LoadCertificates
    <2>2. CASE SeesRouter
      BY <2>2, <1>3 DEF SeesRouter, counters
    <2>3. CASE GivesUp
      BY <2>3, <1>2 DEF GivesUp
    <2>4. CASE RouterDies
      BY <2>4, <1>2 DEF RouterDies
    <2>5. CASE Serve
      BY <2>5, <1>1, ServeEffect DEF Serve, counters
    <2> QED BY <2>1, <2>2, <2>3, <2>4, <2>5 DEF Env
  <1>5. FilesOK'
    BY <1>1, <1>4 DEF FilesOK, Closed
  <1>6. CountsOK'
    BY <1>1, <1>4, BoundsAssumption DEF CountsOK
  <1>7. CommandsOK'
    BY <1>1, <1>4 DEF CommandsOK, Placed, InitPlace, DeletePlace
  <1> QED BY <1>1, <1>4, <1>5, <1>6, <1>7 DEF TypeInv

-----------------------------------------------------------------------------
(* init, call by call.                                                     *)

LEMMA BeforeFiles ==
    /\ Before("host") = {}
    /\ \A f \in Part \ {"certs"} :
        /\ Before(f) \subseteq Part /\ f \notin Before(f)
        /\ f # "host" => Parent[f] \in Before(f)
        /\ Parent[f] \in Before(f) \cup {f}
    /\ \A f \in Part \ {"certs", "config"} :
        /\ AfterMaking[f] \in Part \ {"certs"}
        /\ Before(AfterMaking[f]) = Before(f) \cup {f}
    /\ Before("config") \cup {"config"} = Part \ {"certs"}
  BY DEF Before, Part, Parent, AfterMaking

\* A step of an init that goes on: it keeps the types and its own invariant.
InitGoesOn(c) ==
    /\ TypeInv'
    /\ \E call \in Call \ {"idle"}, on \in On : Turn(c, call, on)
    /\ cmd[c].marks \subseteq cmd'[c].marks
    /\ "fresh" \in cmd'[c].marks => "fresh" \in cmd[c].marks
    /\ InitAchieved(c) => InitAchieved(c)'
    /\ InitAchieved(c) /\ InitUnhindered(c) /\ Unfaulted(c)' => InitUnhindered(c)'

\* One that ends in failure was hindered.
InitGivesUp(c) ==
    /\ TypeInv'
    /\ Ends(c, "failed") /\ SameMarks(c)
    /\ ~(InitAchieved(c) /\ InitUnhindered(c))

Inits(c) == TypeInv /\ cmd[c].op = "init"

LEMMA InitTurnOK ==
    ASSUME NEW c \in Cli, Inits(c), NEW call, NEW on, Turn(c, call, on), cmd[c].call # "idle",
           cmd'[c].errors = cmd[c].errors, InitPlace([errors |-> FALSE, call |-> call, on |-> on])
    PROVE  CommandsOK'
  <1>1. CommandsOK /\ cmd[c] \in Command /\ Placed(cmd[c])
    BY DEF Inits, TypeInv, CommandsOK
  <1>2. InitPlace(cmd'[c])
    BY <1>1 DEF Turn, InitPlace, Placed, Inits
  <1> QED BY <1>1, <1>2, TurnOK DEF Placed, Turn, Inits

LEMMA WipeSteps ==
    ASSUME NEW c \in Cli, Inits(c), Wipe(c)
    PROVE  InitGoesOn(c)
  <1> USE Boxes DEF Inits
  <1>1. Turn(c, "make", "host") /\ Calm(c)
    BY GotoTurns DEF Wipe, TypeInv, CommandsOK, Call, Part, On
  <1>2. CommandsOK'
    BY <1>1, InitTurnOK DEF InitPlace, Part, Calm, SameMarks, Wipe, At
  <1>3. TypeInv'
    BY <1>2, LostOK, NoFilesOK DEF Wipe, TypeInv, CountsOK, counters
  <1>4. InitAchieved(c)'
    BY <1>1, BeforeFiles
       DEF Turn, InitAchieved, MakingFiles, BeforeNetwork, BeforeRouter, RouterCreated,
           CertsTried, At
  <1>5. InitUnhindered(c) => InitUnhindered(c)'
    BY <1>1, BeforeFiles
       DEF Turn, Wipe, InitUnhindered, MakingFiles, BeforeNetwork, BeforeRouter, BeforeController,
           RouterCreated, At
  <1> QED
    BY <1>1, <1>3, <1>4, <1>5 DEF InitGoesOn, Calm, SameMarks, Call, On, Part

LEMMA WipeFailsSteps ==
    ASSUME NEW c \in Cli, Inits(c), WipeFails(c)
    PROVE  InitGoesOn(c)
  <1> USE Boxes DEF Inits
  <1> DEFINE k == [cmd[c] EXCEPT !.call = "make", !.on = "host", !.marks = @ \cup {"faulted"}]
  <1>1. /\ k \in Command /\ k.call = "make" /\ k.on = "host" /\ k.op = cmd[c].op
        /\ k.result = cmd[c].result /\ k.errors = cmd[c].errors
        /\ k.marks = cmd[c].marks \cup {"faulted"}
    <2>1. cmd[c] \in Command /\ "make" \in Call /\ "host" \in On /\ "faulted" \in Mark
      BY DEF TypeInv, CommandsOK, Call, On, Part, Mark
    <2> QED BY <2>1 DEF Command
  <1>2. cmd' = [cmd EXCEPT ![c] = k]
    BY DEF WipeFails
  <1> HIDE DEF k
  <1>3. /\ Turn(c, "make", "host") /\ cmd'[c].errors = cmd[c].errors
        /\ cmd'[c].marks = cmd[c].marks \cup {"faulted"}
    BY <1>1, <1>2, Replaced DEF Turn, TypeInv, CommandsOK
  <1>4. CommandsOK'
    BY <1>3, InitTurnOK DEF InitPlace, Part, WipeFails, At
  <1>5. TypeInv'
    BY <1>4, LostOK, ClosedSubset, BoundsAssumption
       DEF WipeFails, TypeInv, CountsOK, Fault
  <1>6. InitAchieved(c)'
    BY <1>3, BeforeFiles
       DEF Turn, InitAchieved, MakingFiles, BeforeNetwork, BeforeRouter, RouterCreated,
           CertsTried, At
  <1> QED
    BY <1>3, <1>5, <1>6 DEF InitGoesOn, Unfaulted, Call, On, Part

LEMMA MakeSteps ==
    ASSUME NEW c \in Cli, Inits(c), NEW f \in Part \ {"certs"}, Make(c, f)
    PROVE  InitGoesOn(c) \/ InitGivesUp(c)
  <1> USE Boxes DEF Inits
  <1>0. /\ At(c, "make", f) /\ UNCHANGED <<docker, counters>>
        /\ MakingFiles(c)
    BY DEF Make, MakingFiles, At
  <1>1. CASE Makeable(f)
    <2> DEFINE call == IF f = "config" THEN "create" ELSE "make"
               on == IF f = "config" THEN "network" ELSE AfterMaking[f]
    <2>1. /\ call \in Call \ {"idle"} /\ on \in On
          /\ InitPlace([errors |-> FALSE, call |-> call, on |-> on])
      BY BeforeFiles DEF Call, On, InitPlace
    <2>2. Turn(c, call, on) /\ Calm(c) /\ files' = files \cup {f}
      BY <1>1, <2>1, GotoTurns DEF Make, TypeInv, CommandsOK
    <2>3. CommandsOK'
      BY <1>0, <2>1, <2>2, InitTurnOK DEF Calm, SameMarks, At
    <2>4. FilesOK'
      <3>1. Parent[f] \in files \cup {f}
        BY <1>1, BeforeFiles DEF Makeable
      <3> QED BY <2>2, <3>1 DEF TypeInv, FilesOK, Closed
    <2>5. TypeInv'
      BY <1>0, <2>3, <2>4 DEF TypeInv, BoxesOK, CountsOK, docker, counters, Running
    <2>6. InitAchieved(c) => InitAchieved(c)'
      <3>1. CASE f = "config"
        BY <1>0, <2>2, <3>1, BeforeFiles
           DEF Turn, InitAchieved, MakingFiles, BeforeNetwork, BeforeRouter, RouterCreated,
               CertsTried, At
      <3>2. CASE f # "config"
        BY <1>0, <2>2, <3>2, BeforeFiles
           DEF Turn, InitAchieved, MakingFiles, BeforeNetwork, BeforeRouter, RouterCreated,
               CertsTried, At
      <3> QED BY <3>1, <3>2
    <2>7. InitUnhindered(c) => InitUnhindered(c)'
      <3>1. UNCHANGED <<network, box>>
        BY <1>0 DEF docker
      <3>2. CASE f = "config"
        BY <1>0, <2>2, <3>1, <3>2
           DEF Turn, InitUnhindered, MakingFiles, BeforeNetwork, BeforeRouter,
               BeforeController, RouterCreated, At
      <3>3. CASE f # "config"
        BY <1>0, <2>2, <3>1, <3>3, BeforeFiles
           DEF Turn, InitUnhindered, MakingFiles, BeforeNetwork, BeforeRouter,
               BeforeController, RouterCreated, At
      <3> QED BY <3>2, <3>3
    <2> QED
      BY <2>1, <2>2, <2>5, <2>6, <2>7 DEF InitGoesOn, Calm, SameMarks
  <1>2. CASE ~Makeable(f)
    <2>1. Ends(c, "failed") /\ SameMarks(c) /\ UNCHANGED files
      BY <1>2, EndEnds DEF Make, TypeInv, CommandsOK
    <2>2. TypeInv'
      BY <1>0, <2>1, EndsOK
         DEF TypeInv, FilesOK, Closed, BoxesOK, CountsOK, docker, counters, Running
    <2>3. ~InitUnhindered(c)
      BY <1>0, <1>2, BeforeFiles DEF InitUnhindered, Makeable, At
    <2> QED BY <2>1, <2>2, <2>3 DEF InitGivesUp
  <1> QED BY <1>1, <1>2

LEMMA CreateNetworkSteps ==
    ASSUME NEW c \in Cli, Inits(c), CreateNetwork(c)
    PROVE  InitGoesOn(c) \/ InitGivesUp(c)
  <1> USE Boxes DEF Inits
  <1>0. At(c, "create", "network") /\ UNCHANGED <<files, box, attached, stale, phase, counters>>
    BY DEF CreateNetwork
  <1>1. FilesOK' /\ BoxesOK' /\ CountsOK'
    BY <1>0 DEF TypeInv, FilesOK, Closed, BoxesOK, CountsOK, counters, Running
  <1>2. CASE ~network
    <2>1. Turn(c, "create", "router") /\ Calm(c) /\ network'
      BY <1>2, GotoTurns DEF CreateNetwork, TypeInv, CommandsOK, Call
    <2>2. TypeInv'
      BY <1>0, <1>1, <2>1, InitTurnOK DEF Calm, SameMarks, At, InitPlace, TypeInv, CreateNetwork
    <2>3. InitAchieved(c) => InitAchieved(c)'
      BY <1>0, <2>1
         DEF Turn, InitAchieved, MakingFiles, BeforeNetwork, BeforeRouter, RouterCreated,
             CertsTried, At
    <2>4. InitUnhindered(c) => InitUnhindered(c)'
      BY <1>0, <2>1
         DEF Turn, InitUnhindered, MakingFiles, BeforeNetwork, BeforeRouter,
             BeforeController, RouterCreated, At
    <2> QED BY <2>1, <2>2, <2>3, <2>4 DEF InitGoesOn, Calm, SameMarks, Call
  <1>3. CASE network
    <2>1. Ends(c, "failed") /\ SameMarks(c) /\ UNCHANGED network
      BY <1>3, EndEnds DEF CreateNetwork, TypeInv, CommandsOK
    <2>2. TypeInv'
      BY <1>1, <2>1, EndsOK DEF TypeInv
    <2>3. ~InitUnhindered(c)
      BY <1>0, <1>3 DEF InitUnhindered, BeforeNetwork
    <2> QED BY <2>1, <2>2, <2>3 DEF InitGivesUp
  <1> QED BY <1>2, <1>3

\* What follows the creation of a container.
CallAfterCreating(b) == IF b = "router" THEN "make" ELSE "start"
PlaceAfterCreating(b) == IF b = "router" THEN "certs" ELSE b

LEMMA CreateSteps ==
    ASSUME NEW c \in Cli, Inits(c), NEW b \in Site, Create(c, b)
    PROVE  InitGoesOn(c) \/ InitGivesUp(c)
  <1> USE Boxes DEF Inits
  <1>0. At(c, "create", b) /\ UNCHANGED <<files, network, attached, stale, phase, counters>>
    BY DEF Create
  <1>1. FilesOK' /\ CountsOK' /\ network' \in BOOLEAN
    BY <1>0 DEF TypeInv, FilesOK, Closed, CountsOK, counters
  <1>2. CASE box[b] = "absent" /\ Mounted(b) \subseteq files
    <2> DEFINE call == CallAfterCreating(b)
               on == PlaceAfterCreating(b)
    <2>1. /\ call \in Call \ {"idle"} /\ on \in On
          /\ InitPlace([errors |-> FALSE, call |-> call, on |-> on])
      BY DEF Call, On, InitPlace, Site, Part, CallAfterCreating, PlaceAfterCreating
    <2>2. Turn(c, call, on) /\ Calm(c) /\ box' = [box EXCEPT ![b] = "created"]
      BY <1>2, <2>1, GotoTurns
         DEF Create, AfterCreating, TypeInv, CommandsOK, CallAfterCreating, PlaceAfterCreating
    <2>3. b \notin stale /\ b \notin attached /\ Created(b)' /\ \A d \in Box : d # b => box'[d] = box[d]
      BY <1>0, <1>2, <2>2 DEF TypeInv, BoxesOK, Running, Created
    <2>4. BoxesOK'
      <3>1. box' \in [Box -> {"absent", "created", "running", "exited"}]
        BY <2>2 DEF TypeInv, BoxesOK
      <3>2. \A d \in Box : box[d] = "running" <=> box'[d] = "running"
        BY <1>2, <2>2, <2>3 DEF TypeInv, BoxesOK
      <3> QED BY <1>0, <3>1, <3>2 DEF TypeInv, BoxesOK, Running
    <2>5. TypeInv'
      BY <1>0, <1>1, <2>1, <2>2, <2>4, InitTurnOK DEF Calm, SameMarks, At, TypeInv
    <2>6. InitAchieved(c) => InitAchieved(c)'
      <3>1. CASE b = "router"
        BY <1>0, <2>2, <2>3, <3>1
           DEF Turn, InitAchieved, MakingFiles, BeforeNetwork, BeforeRouter, RouterCreated,
               CertsTried, At, CallAfterCreating, PlaceAfterCreating
      <3>2. CASE b = "controller"
        BY <1>0, <2>2, <2>3, <3>2
           DEF Turn, InitAchieved, MakingFiles, BeforeNetwork, BeforeRouter, RouterCreated,
               CertsTried, At, CallAfterCreating, PlaceAfterCreating, Calm, SameMarks, Unfaulted,
               Started
      <3> QED BY <3>1, <3>2 DEF Site
    <2>7. InitUnhindered(c) => InitUnhindered(c)'
      BY <1>0, <2>2, <2>3
         DEF Turn, InitUnhindered, MakingFiles, BeforeNetwork, BeforeRouter,
             BeforeController, RouterCreated, At, CallAfterCreating, PlaceAfterCreating, Site
    <2> QED BY <2>1, <2>2, <2>5, <2>6, <2>7 DEF InitGoesOn, Calm, SameMarks
  <1>3. CASE ~(box[b] = "absent" /\ Mounted(b) \subseteq files)
    <2>1. Ends(c, "failed") /\ SameMarks(c) /\ UNCHANGED box
      BY <1>3, EndEnds DEF Create, TypeInv, CommandsOK
    <2>2. TypeInv'
      BY <1>0, <1>1, <2>1, EndsOK DEF TypeInv, BoxesOK, Running
    <2>3. ~(InitAchieved(c) /\ InitUnhindered(c))
      <3> SUFFICES ASSUME InitAchieved(c), InitUnhindered(c) PROVE FALSE
        OBVIOUS
      <3>1. Part \ {"certs"} \subseteq files
        BY <1>0 DEF InitAchieved, At
      <3>2. box[b] = "absent"
        BY <1>0 DEF InitUnhindered, BeforeRouter, BeforeController, Site
      <3>3. Mounted(b) \subseteq Part \ {"certs"}
        BY MountedBox DEF Site, Part
      <3> QED BY <1>3, <3>1, <3>2, <3>3
    <2> QED BY <2>1, <2>2, <2>3 DEF InitGivesUp
  <1> QED BY <1>2, <1>3

LEMMA MakeCertsSteps ==
    ASSUME NEW c \in Cli, Inits(c), MakeCerts(c)
    PROVE  InitGoesOn(c)
  <1> USE Boxes DEF Inits
  <1>0. At(c, "make", "certs") /\ UNCHANGED <<docker, commands>>
    BY DEF MakeCerts
  <1> DEFINE k == [cmd[c] EXCEPT !.call = "start", !.on = "router",
                                 !.marks = @ \cup {m \in {"faulted"} : faults' # faults}]
  <1>1. /\ k \in Command /\ k.call = "start" /\ k.on = "router" /\ k.op = cmd[c].op
        /\ k.result = cmd[c].result /\ k.errors = cmd[c].errors
        /\ k.marks = cmd[c].marks \cup {m \in {"faulted"} : faults' # faults}
    <2>1. cmd[c] \in Command /\ "start" \in Call /\ "router" \in On /\ "faulted" \in Mark
      BY DEF TypeInv, CommandsOK, Call, On, Mark
    <2> QED BY <2>1 DEF Command
  <1>2. cmd' = [cmd EXCEPT ![c] = k]
    BY DEF MakeCerts
  <1> HIDE DEF k
  <1>3. /\ Turn(c, "start", "router") /\ cmd'[c].errors = cmd[c].errors
        /\ cmd[c].marks \subseteq cmd'[c].marks
        /\ faults' # faults => "faulted" \in cmd'[c].marks
        /\ "fresh" \in cmd'[c].marks => "fresh" \in cmd[c].marks
    BY <1>1, <1>2, Replaced DEF Turn, TypeInv, CommandsOK
  <1>4. /\ files \subseteq files' /\ files' \subseteq files \cup {"certs"}
        /\ "certs" \in files' => "certs" \in files \/ "dirs" \in files
        /\ faults' # faults \/ "dirs" \notin files \/ "certs" \in files'
        /\ faults' = faults \/ (faults < MaxFaults /\ faults' = faults + 1)
    <2>0. faults \in Nat
      BY BoundsAssumption DEF TypeInv, CountsOK
    <2>1. CASE files' = files \cup {f \in {"certs"} : "dirs" \in files} /\ UNCHANGED faults
      BY <2>1
    <2>2. CASE UNCHANGED files /\ Fault(c)
      BY <2>0, <2>2 DEF Fault
    <2> QED BY <2>1, <2>2 DEF MakeCerts
  <1>5. CommandsOK'
    BY <1>0, <1>3, InitTurnOK DEF InitPlace, At
  <1>6. FilesOK'
    BY <1>4 DEF TypeInv, FilesOK, Closed, Parent, Part
  <1>7. BoxesOK' /\ CountsOK' /\ network' \in BOOLEAN
    BY <1>0, <1>4, BoundsAssumption DEF TypeInv, BoxesOK, CountsOK, docker, Running
  <1>8. InitAchieved(c) => InitAchieved(c)'
    <2>1. InitAchieved(c) => Part \ {"certs"} \subseteq files /\ "dirs" \in files
      BY <1>0 DEF InitAchieved, At, Part
    <2>2. UNCHANGED <<box, network, stale>>
      BY <1>0 DEF docker
    <2> QED
      BY <1>0, <1>3, <1>4, <2>1, <2>2
         DEF Turn, InitAchieved, MakingFiles, BeforeNetwork, BeforeRouter, RouterCreated,
             CertsTried, At, Created, Unfaulted
  <1>9. InitUnhindered(c) => InitUnhindered(c)'
    BY <1>0, <1>3
       DEF Turn, InitUnhindered, MakingFiles, BeforeNetwork, BeforeRouter,
           BeforeController, RouterCreated, At, docker
  <1> QED
    BY <1>3, <1>5, <1>6, <1>7, <1>8, <1>9 DEF InitGoesOn, TypeInv, Call, On

\* What follows the start of a container.
CallAfterStarting(b) == IF b = "router" THEN "create" ELSE "report"
PlaceAfterStarting(b) == IF b = "router" THEN "controller" ELSE "none"

LEMMA StartSteps ==
    ASSUME NEW c \in Cli, Inits(c), NEW b \in Site, Start(c, b)
    PROVE  InitGoesOn(c) \/ InitGivesUp(c)
  <1> USE Boxes DEF Inits
  <1>0. At(c, "start", b) /\ UNCHANGED <<files, network, stale, counters>>
    BY DEF Start
  <1>1. FilesOK' /\ CountsOK' /\ network' \in BOOLEAN
    BY <1>0 DEF TypeInv, FilesOK, Closed, CountsOK, counters
  <1>2. CASE Startable(b)
    <2> DEFINE call == CallAfterStarting(b)
               on == PlaceAfterStarting(b)
    <2>1. /\ call \in Call \ {"idle"} /\ on \in On
          /\ InitPlace([errors |-> FALSE, call |-> call, on |-> on])
      BY DEF Call, On, InitPlace, Site, CallAfterStarting, PlaceAfterStarting
    <2>2. /\ Turn(c, call, on) /\ Calm(c)
          /\ box' = [box EXCEPT ![b] = "running"] /\ attached' = attached \cup {b}
          /\ phase' = IF b = "controller" /\ phase = "off" THEN "starting" ELSE phase
      BY <1>2, <2>1, GotoTurns
         DEF Start, TypeInv, CommandsOK, Site, CallAfterStarting, PlaceAfterStarting
    <2>3. box'[b] = "running" /\ \A d \in Box : d # b => box'[d] = box[d]
      BY <2>2 DEF TypeInv, BoxesOK
    <2>4. BoxesOK'
      <3>1. box' \in [Box -> {"absent", "created", "running", "exited"}]
        BY <2>2 DEF TypeInv, BoxesOK
      <3>2. Running \cup {b} = Running'
        BY <2>3 DEF Running
      <3>3. /\ phase' \in {"off", "starting", "waiting", "serving"}
            /\ phase' # "off" <=> box'["controller"] = "running"
        BY <2>2, <2>3 DEF TypeInv, BoxesOK, Site
      <3> QED BY <1>0, <2>2, <3>1, <3>2, <3>3 DEF TypeInv, BoxesOK
    <2>5. TypeInv'
      BY <1>0, <1>1, <2>1, <2>2, <2>4, InitTurnOK DEF Calm, SameMarks, At, TypeInv
    <2>6. InitAchieved(c) => InitAchieved(c)'
      <3>1. CASE b = "router"
        BY <1>0, <2>2, <2>3, <3>1
           DEF Turn, InitAchieved, MakingFiles, BeforeNetwork, BeforeRouter, RouterCreated,
               CertsTried, At, CallAfterStarting, PlaceAfterStarting, Started, Created,
               Calm, SameMarks, Unfaulted
      <3>2. CASE b = "controller"
        BY <1>0, <2>2, <2>3, <3>2
           DEF Turn, InitAchieved, MakingFiles, BeforeNetwork, BeforeRouter, RouterCreated,
               CertsTried, At, CallAfterStarting, PlaceAfterStarting, Started, Created,
               Calm, SameMarks, Unfaulted
      <3> QED BY <3>1, <3>2 DEF Site
    <2>7. InitUnhindered(c) => InitUnhindered(c)'
      BY <1>0, <2>2, <2>3
         DEF Turn, InitUnhindered, MakingFiles, BeforeNetwork, BeforeRouter,
             BeforeController, RouterCreated, At, CallAfterStarting, PlaceAfterStarting, Site
    <2> QED BY <2>1, <2>2, <2>5, <2>6, <2>7 DEF InitGoesOn, Calm, SameMarks
  <1>3. CASE ~Startable(b)
    <2>1. Ends(c, "failed") /\ SameMarks(c) /\ UNCHANGED <<box, attached, phase>>
      BY <1>3, EndEnds DEF Start, TypeInv, CommandsOK
    <2>2. TypeInv'
      BY <1>0, <1>1, <2>1, EndsOK DEF TypeInv, BoxesOK, Running
    <2>3. ~InitAchieved(c)
      <3> SUFFICES ASSUME InitAchieved(c) PROVE FALSE
        OBVIOUS
      <3>1. Part \ {"certs"} \subseteq files /\ network /\ Created(b)
        BY <1>0 DEF InitAchieved, At, Site, BeforeNetwork, MakingFiles, RouterCreated
      <3>2. Mounted(b) \subseteq Part \ {"certs"}
        BY MountedBox DEF Site, Part
      <3> QED BY <1>3, <3>1, <3>2 DEF Startable, Created
    <2> QED BY <2>1, <2>2, <2>3 DEF InitGivesUp
  <1> QED BY <1>2, <1>3

-----------------------------------------------------------------------------
(* delete, call by call.                                                   *)

\* A step of a delete: it keeps the types and its own invariant.
DeleteGoesOn(c) ==
    /\ TypeInv'
    /\ \E call \in Call \ {"idle"}, on \in On : Turn(c, call, on)
    /\ cmd[c].marks \subseteq cmd'[c].marks
    /\ Informed(c)' => Informed(c)
    /\ DeleteAchieved(c) /\ Informed(c)' => DeleteAchieved(c)'
    /\ DeleteAchieved(c) /\ Informed(c) /\ Unfaulted(c)' => Informed(c)'

Deletes(c) == TypeInv /\ cmd[c].op = "delete"

LEMMA DeleteTurnOK ==
    ASSUME NEW c \in Cli, Deletes(c), cmd[c].call # "idle", NEW call, NEW on,
           Turn(c, call, on), DeletePlace([call |-> call, on |-> on])
    PROVE  CommandsOK'
  <1>1. CommandsOK /\ cmd[c] \in Command /\ Placed(cmd[c])
    BY DEF Deletes, TypeInv, CommandsOK
  <1>2. DeletePlace(cmd'[c])
    BY DEF Turn, DeletePlace
  <1> QED BY <1>1, <1>2, TurnOK DEF Placed, Turn, Deletes

LEMMA AfterPlaced ==
    ASSUME NEW b \in Box
    PROVE  /\ After(b) = <<After(b)[1], After(b)[2]>>
           /\ After(b)[1] \in Call \ {"idle"} /\ After(b)[2] \in On
           /\ DeletePlace([call |-> After(b)[1], on |-> After(b)[2]])
  BY AfterBox DEF Box, Site, Call, On, DeletePlace

\* A delete is done with a container and goes on.
LEMMA GoOnAfter ==
    ASSUME TypeInv, NEW c \in Cli, NEW b \in Box, NEW failed \in BOOLEAN,
           GoOn(c, After(b), failed)
    PROVE  /\ Turn(c, After(b)[1], After(b)[2])
           /\ cmd'[c].errors = (cmd[c].errors \/ failed)
           /\ cmd'[c].marks = cmd[c].marks /\ cmd'[c].todo = cmd[c].todo
  <1> DEFINE call == After(b)[1]
             on == After(b)[2]
  <1>1. call \in Call /\ on \in On /\ After(b) = <<call, on>>
    BY AfterPlaced
  <1>2. cmd \in [Cli -> Command]
    BY DEF TypeInv, CommandsOK
  <1> HIDE DEF call, on
  <1>3. GoOn(c, <<call, on>>, failed)
    BY <1>1
  <1>4. /\ Turn(c, call, on) /\ cmd'[c].errors = (cmd[c].errors \/ failed)
        /\ cmd'[c].marks = cmd[c].marks /\ cmd'[c].todo = cmd[c].todo
    BY <1>1, <1>2, <1>3, GoOnTurns
  <1> QED BY <1>4 DEF call, on

\* The types, when no file changes.
LEMMA SameFiles ==
    ASSUME TypeInv, UNCHANGED <<files, counters>>, network' \in BOOLEAN, BoxesOK', CommandsOK'
    PROVE  TypeInv'
  BY DEF TypeInv, FilesOK, Closed, CountsOK, counters

LEMMA SameBoxes ==
    ASSUME BoxesOK, UNCHANGED <<box, attached, stale, phase>>
    PROVE  BoxesOK'
  BY DEF BoxesOK, Running

\* With b gone, delete has achieved what it should have by its next call.
LEMMA AfterAchieved ==
    ASSUME TypeInv, NEW c \in Cli, NEW b \in Box, cmd[c].on = b,
           cmd[c].call \in {"inspect", "stop", "remove"}, cmd[c].call = "inspect" => b \in Site,
           DeleteAchieved(c),
           Turn(c, After(b)[1], After(b)[2]), cmd'[c].todo = cmd[c].todo,
           box'[b] = "absent", \A d \in Box : d # b => box'[d] = box[d]
    PROVE  DeleteAchieved(c)'
  <1> USE Boxes
  <1>1. CASE b = "controller"
    BY <1>1, AfterBox
       DEF Turn, DeleteAchieved, OnController, OnProxies, OnRouter, At
  <1>2. CASE b = "router"
    BY <1>2, AfterBox
       DEF Turn, DeleteAchieved, OnController, OnProxies, OnRouter, At, Site
  <1>3. CASE b \in Service
    <2>1. cmd'[c].call = "next" /\ cmd'[c].on = "proxy"
      BY <1>3, AfterBox DEF Turn
    <2>2. cmd[c].call \in {"stop", "remove"} /\ OnProxies(c) /\ ~OnController(c)
      BY <1>3 DEF OnProxies, OnController
    <2>3. /\ box["controller"] = "absent" /\ b \notin cmd[c].todo
          /\ \A s \in Service : box[s] # "absent" <=> s \in Remaining(c)
      BY <2>2 DEF DeleteAchieved
    <2>4. Remaining(c) = cmd[c].todo \cup {b} /\ Remaining(c)' = cmd[c].todo
      BY <1>3, <2>1, <2>2 DEF Remaining
    <2>5. \A s \in Service : box'[s] # "absent" <=> s \in Remaining(c)'
      BY <2>3, <2>4
    <2>6. box'["controller"] = "absent"
      BY <1>3, <2>3
    <2> QED
      BY <2>1, <2>5, <2>6 DEF DeleteAchieved, OnController, OnProxies, OnRouter, At
  <1> QED BY <1>1, <1>2, <1>3 DEF Box, Site

LEMMA InspectSteps ==
    ASSUME NEW c \in Cli, Deletes(c), NEW b \in Box, Inspect(c, b)
    PROVE  DeleteGoesOn(c)
  <1> USE Boxes DEF Deletes
  <1>1. At(c, "inspect", b) /\ b \in Site /\ UNCHANGED <<files, docker, counters>>
    BY DEF Inspect
  <1>2. ASSUME NEW call \in Call \ {"idle"}, NEW on \in On,
               DeletePlace([call |-> call, on |-> on]), GoOn(c, <<call, on>>, FALSE)
        PROVE  TypeInv' /\ Turn(c, call, on) /\ Calm(c)
    <2>1. Turn(c, call, on) /\ Calm(c)
      BY <1>2, GoOnTurns DEF Calm, SameMarks, TypeInv, CommandsOK, Command
    <2> QED BY <1>1, <1>2, <2>1, DeleteTurnOK, SameFiles, SameBoxes DEF At, docker, TypeInv
  <1>3. CASE box[b] = "absent"
    <2>1. TypeInv' /\ Turn(c, After(b)[1], After(b)[2]) /\ Calm(c)
      BY <1>2, <1>3, AfterPlaced DEF Inspect
    <2>2. DeleteAchieved(c) => DeleteAchieved(c)'
      BY <1>1, <1>3, <2>1, AfterAchieved DEF At, docker, Calm
    <2> QED BY <2>1, <2>2, AfterPlaced DEF DeleteGoesOn, Calm, SameMarks, Informed
  <1>4. CASE box[b] # "absent"
    <2>1. TypeInv' /\ Turn(c, "stop", b) /\ Calm(c)
      BY <1>1, <1>2, <1>4 DEF Inspect, DeletePlace, Call, On
    <2>2. DeleteAchieved(c) => DeleteAchieved(c)'
      BY <1>1, <1>4, <2>1
         DEF Turn, DeleteAchieved, OnController, OnProxies, OnRouter, At, docker, Site
    <2> QED BY <2>1, <2>2 DEF DeleteGoesOn, Calm, SameMarks, Informed, Call, On
  <1> QED BY <1>3, <1>4

LEMMA StopSteps ==
    ASSUME NEW c \in Cli, Deletes(c), NEW b \in Box, Stop(c, b)
    PROVE  DeleteGoesOn(c)
  <1> USE Boxes DEF Deletes
  <1>1. At(c, "stop", b) /\ UNCHANGED <<files, network, counters>>
    BY DEF Stop
  <1>2. CASE box[b] = "absent"
    <2>1. Turn(c, After(b)[1], After(b)[2]) /\ cmd'[c].errors /\ cmd'[c].marks = cmd[c].marks
      <3>1. GoOn(c, After(b), TRUE)
        BY <1>2 DEF Stop
      <3> QED BY <3>1, GoOnAfter
    <2>2. TypeInv'
      BY <1>1, <1>2, <2>1, AfterPlaced, DeleteTurnOK, SameFiles, SameBoxes DEF At, Stop, TypeInv
    <2>3. ~DeleteAchieved(c)
      BY <1>1, <1>2 DEF DeleteAchieved, At
    <2> QED BY <2>1, <2>2, <2>3, AfterPlaced DEF DeleteGoesOn, Informed
  <1>3. CASE box[b] # "absent"
    <2>1. Turn(c, "remove", b) /\ Calm(c)
      BY <1>3, GoOnTurns DEF Stop, TypeInv, CommandsOK, Command, Call, Calm, SameMarks
    <2>2. /\ BoxesOK'
          /\ box'[b] = IF box[b] = "running" THEN "exited" ELSE box[b]
          /\ \A d \in Box : d # b => box'[d] = box[d]
          /\ attached' \subseteq attached
      BY <1>3, HaltedOK DEF Stop, TypeInv
    <2>3. TypeInv'
      BY <1>1, <2>1, <2>2, DeleteTurnOK, SameFiles DEF At, DeletePlace, TypeInv
    <2>4. box'[b] \notin {"absent", "running"} /\ \A d \in Box : box'[d] = "absent" <=> box[d] = "absent"
      BY <1>3, <2>2
    <2>5. DeleteAchieved(c) => DeleteAchieved(c)'
      <3>1. OnController(c)' = OnController(c) /\ OnRouter(c)' = OnRouter(c)
        BY <1>1, <2>1 DEF Turn, OnController, OnRouter, At
      <3>2. OnProxies(c)' = OnProxies(c) /\ Remaining(c)' = Remaining(c)
        BY <1>1, <2>1 DEF Turn, OnProxies, Remaining, At, Calm
      <3> QED
        BY <1>1, <2>1, <2>4, <3>1, <3>2 DEF DeleteAchieved, Turn, At, Calm
    <2> QED BY <2>1, <2>3, <2>5 DEF DeleteGoesOn, Calm, SameMarks, Informed, Call, On
  <1> QED BY <1>2, <1>3

LEMMA RemoveSteps ==
    ASSUME NEW c \in Cli, Deletes(c), NEW b \in Box, Remove(c, b)
    PROVE  DeleteGoesOn(c)
  <1> USE Boxes DEF Deletes
  <1> DEFINE refused == box[b] \in {"absent", "running"}
  <1>1. /\ At(c, "remove", b) /\ UNCHANGED <<files, network, attached, stale, phase, counters>>
        /\ box' = IF refused THEN box ELSE [box EXCEPT ![b] = "absent"]
    BY DEF Remove
  <1>2. /\ Turn(c, After(b)[1], After(b)[2]) /\ cmd'[c].errors = (cmd[c].errors \/ refused)
        /\ cmd'[c].marks = cmd[c].marks /\ cmd'[c].todo = cmd[c].todo
    <2>1. GoOn(c, After(b), refused) /\ refused \in BOOLEAN
      BY DEF Remove
    <2> HIDE DEF refused
    <2> QED BY <2>1, GoOnAfter
  <1>3. CASE refused
    <2>1. TypeInv'
      BY <1>1, <1>2, <1>3, AfterPlaced, DeleteTurnOK, SameFiles, SameBoxes DEF At, TypeInv
    <2>2. ~DeleteAchieved(c)
      BY <1>1, <1>3 DEF DeleteAchieved, At
    <2> QED BY <1>2, <1>3, <2>1, <2>2, AfterPlaced DEF DeleteGoesOn, Informed
  <1>4. CASE ~refused
    <2>1. box'[b] = "absent" /\ \A d \in Box : d # b => box'[d] = box[d]
      BY <1>1, <1>4 DEF TypeInv, BoxesOK
    <2>2. BoxesOK'
      <3>1. box' \in [Box -> {"absent", "created", "running", "exited"}]
        BY <1>1 DEF TypeInv, BoxesOK
      <3>2. \A d \in Box : box[d] = "running" <=> box'[d] = "running"
        BY <1>4, <2>1
      <3> QED BY <1>1, <3>1, <3>2 DEF TypeInv, BoxesOK, Running
    <2>3. TypeInv'
      BY <1>1, <1>2, <2>2, AfterPlaced, DeleteTurnOK, SameFiles DEF At, TypeInv
    <2>4. DeleteAchieved(c) => DeleteAchieved(c)'
      BY <1>1, <1>2, <2>1, AfterAchieved DEF At
    <2> QED BY <1>2, <1>4, <2>3, <2>4, AfterPlaced DEF DeleteGoesOn, Informed
  <1> HIDE DEF refused
  <1> QED BY <1>3, <1>4

LEMMA ListSteps ==
    ASSUME NEW c \in Cli, Deletes(c), List(c)
    PROVE  DeleteGoesOn(c)
  <1> USE Boxes DEF Deletes
  <1> DEFINE todo == {s \in Service : box[s] # "absent"}
             k == [cmd[c] EXCEPT !.call = "next", !.on = "proxy", !.todo = todo]
  <1>1. At(c, "list", "proxies") /\ UNCHANGED <<files, docker, counters>>
    BY DEF List
  <1>2. /\ k \in Command /\ k.call = "next" /\ k.on = "proxy" /\ k.op = cmd[c].op
        /\ k.result = cmd[c].result /\ k.errors = cmd[c].errors /\ k.marks = cmd[c].marks
        /\ k.todo = todo
    <2>1. cmd[c] \in Command /\ todo \in SUBSET Service /\ "next" \in Call /\ "proxy" \in On
      BY DEF TypeInv, CommandsOK, Call, On
    <2> HIDE DEF todo, Deletes
    <2> QED BY <2>1 DEF Command
  <1>3. cmd' = [cmd EXCEPT ![c] = k]
    BY DEF List
  <1> HIDE DEF k
  <1>4. Turn(c, "next", "proxy") /\ SameMarks(c) /\ cmd'[c].todo = todo
    BY <1>2, <1>3, Replaced DEF Turn, SameMarks, TypeInv, CommandsOK
  <1>5. TypeInv'
    BY <1>1, <1>4, DeleteTurnOK, SameFiles, SameBoxes DEF At, DeletePlace, docker, TypeInv
  <1>6. DeleteAchieved(c) => DeleteAchieved(c)'
    <2>1. DeleteAchieved(c) => box'["controller"] = "absent"
      BY <1>1 DEF DeleteAchieved, OnController, At, docker
    <2>2. Remaining(c)' = todo /\ OnProxies(c)'
      BY <1>4 DEF Remaining, Turn, OnProxies
    <2>3. \A s \in Service : box'[s] # "absent" <=> s \in Remaining(c)'
      BY <1>1, <2>2 DEF docker
    <2> QED BY <1>4, <2>1, <2>2, <2>3 DEF DeleteAchieved, Turn, OnController, At
  <1> QED BY <1>4, <1>5, <1>6 DEF DeleteGoesOn, SameMarks, Informed, Call, On

LEMMA NextProxySteps ==
    ASSUME NEW c \in Cli, Deletes(c), NextProxy(c)
    PROVE  DeleteGoesOn(c)
  <1> USE Boxes DEF Deletes
  <1>1. At(c, "next", "proxy") /\ UNCHANGED <<files, docker, counters>>
    BY DEF NextProxy
  <1>2. DeleteAchieved(c) =>
            /\ box["controller"] = "absent"
            /\ \A s \in Service : box[s] # "absent" <=> s \in cmd[c].todo
    BY <1>1 DEF DeleteAchieved, OnController, OnProxies, Remaining, At
  <1>3. CASE cmd[c].todo = {} /\ Goto(c, "inspect", "router")
    <2>1. Turn(c, "inspect", "router") /\ Calm(c)
      BY <1>3, GotoTurns DEF TypeInv, CommandsOK, Call
    <2>2. TypeInv'
      BY <1>1, <2>1, DeleteTurnOK, SameFiles, SameBoxes DEF At, DeletePlace, docker, TypeInv
    <2>3. DeleteAchieved(c) => DeleteAchieved(c)'
      BY <1>1, <1>2, <1>3, <2>1
         DEF DeleteAchieved, Turn, OnController, OnProxies, OnRouter, At, docker
    <2> QED BY <2>1, <2>2, <2>3 DEF DeleteGoesOn, Calm, SameMarks, Informed, Call
  <1>4. ASSUME NEW s \in cmd[c].todo,
               cmd' = [cmd EXCEPT ![c].call = "stop", ![c].on = s, ![c].todo = @ \ {s}]
        PROVE  DeleteGoesOn(c)
    <2> DEFINE k == [cmd[c] EXCEPT !.call = "stop", !.on = s, !.todo = @ \ {s}]
    <2>0. cmd[c] \in Command /\ cmd[c].todo \subseteq Service /\ s \in Service /\ s \in On
      BY DEF Command, TypeInv, CommandsOK
    <2>1. /\ k \in Command /\ k.call = "stop" /\ k.on = s /\ k.op = cmd[c].op
          /\ k.result = cmd[c].result /\ k.errors = cmd[c].errors /\ k.marks = cmd[c].marks
          /\ k.todo = cmd[c].todo \ {s}
      BY <2>0 DEF Command, Call
    <2>2. cmd' = [cmd EXCEPT ![c] = k]
      BY <1>4
    <2> HIDE DEF k
    <2>3. Turn(c, "stop", s) /\ SameMarks(c) /\ cmd'[c].todo = cmd[c].todo \ {s}
      BY <2>1, <2>2, Replaced DEF Turn, SameMarks, TypeInv, CommandsOK
    <2>4. TypeInv'
      BY <1>1, <2>0, <2>3, DeleteTurnOK, SameFiles, SameBoxes DEF At, DeletePlace, docker, TypeInv
    <2>5. DeleteAchieved(c) => DeleteAchieved(c)'
      <3>1. Remaining(c)' = cmd[c].todo /\ OnProxies(c)'
        BY <2>0, <2>3 DEF Remaining, Turn, OnProxies
      <3>2. DeleteAchieved(c) => box'[s] # "absent" /\ box'["controller"] = "absent"
        BY <1>1, <1>2, <2>0 DEF docker
      <3> QED
        BY <1>1, <1>2, <2>0, <2>3, <3>1, <3>2
           DEF DeleteAchieved, Turn, OnController, At, docker
    <2> QED BY <2>0, <2>3, <2>4, <2>5 DEF DeleteGoesOn, SameMarks, Informed, Call
  <1> QED BY <1>3, <1>4 DEF NextProxy

LEMMA InspectNetworkSteps ==
    ASSUME NEW c \in Cli, Deletes(c), InspectNetwork(c)
    PROVE  DeleteGoesOn(c)
  <1> USE Boxes DEF Deletes
  <1> DEFINE call == IF network THEN "disconnect" ELSE "remove"
             on == IF network THEN "network" ELSE "files"
  <1>1. At(c, "inspect", "network") /\ UNCHANGED <<files, docker, counters>>
    BY DEF InspectNetwork
  <1>2. Turn(c, call, on) /\ Calm(c)
    BY GotoTurns DEF InspectNetwork, TypeInv, CommandsOK, Call, On
  <1>3. TypeInv'
    BY <1>1, <1>2, DeleteTurnOK, SameFiles, SameBoxes DEF At, DeletePlace, docker, TypeInv
  <1>4. DeleteAchieved(c) => DeleteAchieved(c)'
    BY <1>1, <1>2
       DEF DeleteAchieved, Turn, OnController, OnProxies, OnRouter, At, docker
  <1> QED BY <1>2, <1>3, <1>4 DEF DeleteGoesOn, Calm, SameMarks, Informed, Call, On

LEMMA DisconnectSteps ==
    ASSUME NEW c \in Cli, Deletes(c), Disconnect(c)
    PROVE  DeleteGoesOn(c)
  <1> USE Boxes DEF Deletes
  <1> DEFINE on == IF network THEN "network" ELSE "files"
  <1>1. /\ At(c, "disconnect", "network") /\ UNCHANGED <<files, network, box, stale, phase, counters>>
        /\ IF network THEN attached' = {} ELSE UNCHANGED attached
    BY DEF Disconnect
  <1>2. /\ Turn(c, "remove", on) /\ cmd'[c].errors = (cmd[c].errors \/ ~network)
        /\ cmd'[c].marks = cmd[c].marks /\ cmd'[c].todo = cmd[c].todo
    BY GoOnTurns DEF Disconnect, TypeInv, CommandsOK, Call, On
  <1>3. TypeInv'
    <2>1. BoxesOK'
      BY <1>1 DEF TypeInv, BoxesOK, Running
    <2> QED BY <1>1, <1>2, <2>1, DeleteTurnOK, SameFiles DEF At, DeletePlace, TypeInv
  <1>4. DeleteAchieved(c) => network /\ DeleteAchieved(c)'
    BY <1>1, <1>2
       DEF DeleteAchieved, Turn, OnController, OnProxies, OnRouter, At
  <1> QED BY <1>2, <1>3, <1>4 DEF DeleteGoesOn, Informed, Call, On

LEMMA RemoveNetworkSteps ==
    ASSUME NEW c \in Cli, Deletes(c), RemoveNetwork(c)
    PROVE  DeleteGoesOn(c)
  <1> USE Boxes DEF Deletes
  <1> DEFINE refused == ~network \/ attached # {}
  <1>1. /\ At(c, "remove", "network") /\ UNCHANGED <<files, box, attached, stale, phase, counters>>
        /\ network' = (network /\ refused)
    BY DEF RemoveNetwork
  <1>2. /\ Turn(c, "remove", "files") /\ cmd'[c].errors = (cmd[c].errors \/ refused)
        /\ cmd'[c].marks = cmd[c].marks /\ cmd'[c].todo = cmd[c].todo
    <2>1. /\ GoOn(c, <<"remove", "files">>, refused) /\ refused \in BOOLEAN
          /\ cmd \in [Cli -> Command]
      BY DEF RemoveNetwork, TypeInv, CommandsOK
    <2> HIDE DEF refused
    <2> QED BY <2>1, GoOnTurns DEF Call, On
  <1>3. TypeInv'
    <2>1. BoxesOK' /\ network' \in BOOLEAN
      BY <1>1, SameBoxes DEF TypeInv
    <2> QED BY <1>1, <1>2, <2>1, DeleteTurnOK, SameFiles DEF At, DeletePlace, TypeInv
  <1>4. DeleteAchieved(c) => ~refused /\ DeleteAchieved(c)'
    BY <1>1, <1>2
       DEF DeleteAchieved, Turn, OnController, OnProxies, OnRouter, At
  <1> QED BY <1>2, <1>3, <1>4 DEF DeleteGoesOn, Informed, Call, On

LEMMA RemoveFilesSteps ==
    ASSUME NEW c \in Cli, Deletes(c), RemoveFiles(c)
    PROVE  DeleteGoesOn(c)
  <1> USE Boxes DEF Deletes
  <1>1. At(c, "remove", "files") /\ files' = {} /\ UNCHANGED <<network, box, attached, phase, counters>>
    BY DEF RemoveFiles
  <1>2. Turn(c, "report", "none") /\ Calm(c)
    BY GotoTurns DEF RemoveFiles, TypeInv, CommandsOK, Call, On
  <1>3. TypeInv'
    BY <1>1, <1>2, DeleteTurnOK, LostOK, NoFilesOK
       DEF At, DeletePlace, TypeInv, RemoveFiles, CountsOK, counters
  <1>4. DeleteAchieved(c) => DeleteAchieved(c)'
    BY <1>1, <1>2
       DEF DeleteAchieved, Turn, OnController, OnProxies, OnRouter, At
  <1> QED BY <1>2, <1>3, <1>4 DEF DeleteGoesOn, Calm, SameMarks, Informed, Call, On

LEMMA DeleteCallFailsSteps ==
    ASSUME NEW c \in Cli, Deletes(c), DeleteCallFails(c)
    PROVE  DeleteGoesOn(c)
  <1> USE Boxes DEF Deletes
  <1> DEFINE inspecting == cmd[c].call = "inspect"
             call == OnError(c)[1]
             on == OnError(c)[2]
             marks == cmd[c].marks \cup {"faulted"} \cup {m \in {"uninspected"} : inspecting}
             errors == cmd[c].errors \/ ~inspecting
             k == [cmd[c] EXCEPT !.call = call, !.on = on, !.errors = errors, !.marks = marks]
  <1>1. /\ cmd[c] \in Command /\ cmd[c].call \in {"inspect", "stop", "remove", "list", "disconnect"}
        /\ DeletePlace(cmd[c])
    BY DEF DeleteCallFails, TypeInv, CommandsOK, Placed
  <1>2. /\ call \in Call \ {"idle"} /\ on \in On
        /\ DeletePlace([call |-> call, on |-> on])
    <2>1. CASE cmd[c].call = "list" \/ cmd[c].on = "network" \/ cmd[c].on = "files"
      BY <2>1 DEF OnError, Call, On, DeletePlace
    <2>2. CASE ~(cmd[c].call = "list" \/ cmd[c].on = "network" \/ cmd[c].on = "files")
      <3>1. cmd[c].on \in Box /\ OnError(c) = After(cmd[c].on)
        BY <1>1, <2>2 DEF DeletePlace, OnError
      <3> QED BY <3>1, AfterPlaced
    <2> QED BY <2>1, <2>2
  <1>3. marks \subseteq Mark /\ errors \in BOOLEAN
    BY <1>1 DEF Mark, Command
  <1>4. cmd' = [cmd EXCEPT ![c] = k]
    BY DEF DeleteCallFails
  <1>5. /\ k \in Command /\ k.call = call /\ k.on = on /\ k.op = cmd[c].op
        /\ k.result = cmd[c].result /\ k.errors = errors /\ k.marks = marks
    <2> HIDE DEF call, on, marks, errors
    <2> QED BY <1>1, <1>2, <1>3 DEF Command
  <1> HIDE DEF k
  <1>6. Turn(c, call, on) /\ cmd'[c].errors = errors /\ cmd'[c].marks = marks
    BY <1>4, <1>5, Replaced DEF Turn, TypeInv, CommandsOK
  <1>7. TypeInv'
    <2>1. CommandsOK'
      BY <1>1, <1>2, <1>6, DeleteTurnOK
    <2>2. FilesOK'
      BY ClosedSubset DEF DeleteCallFails, TypeInv, FilesOK, Closed
    <2> QED
      BY <2>1, <2>2, LostOK, BoundsAssumption DEF DeleteCallFails, TypeInv, CountsOK, Fault
  <1>8. ~Informed(c)' /\ ~Unfaulted(c)'
    BY <1>6 DEF Informed, Unfaulted
  <1> QED BY <1>2, <1>6, <1>7, <1>8 DEF DeleteGoesOn

-----------------------------------------------------------------------------
(* All steps.                                                              *)

\* That an init which fails without a fault was not fresh, for one process.
FailureOK(c) ==
    cmd[c].op = "init" /\ cmd[c].result = "failed" /\ Alone(c) /\ Unfaulted(c)
        => "fresh" \notin cmd[c].marks

\* A step of one command cannot disturb another: of the two none is alone.
LEMMA OwnStep ==
    ASSUME IInv, TypeInv', NEW c \in Cli, Active(c), \A d \in Cli : d # c => cmd'[d] = cmd[d],
           Active(c)' => cmd[c].marks \subseteq cmd'[c].marks,
           InitOK(c)', DeleteOK(c)', FailureOK(c)'
    PROVE  IInv'
  <1>1. Apart'
    BY DEF IInv, Apart, Active, Alone
  <1>2. ASSUME NEW d \in Cli, d # c
        PROVE  InitOK(d)' /\ DeleteOK(d)' /\ FailureOK(d)'
    <2>1. cmd'[d] = cmd[d]
      BY <1>2
    <2>2. ~Doing(d, "init")' /\ ~Doing(d, "delete")'
      BY <1>2, <2>1 DEF IInv, Apart, Active, Alone, Doing
    <2>3. FailureOK(d)'
      BY <2>1 DEF IInv, InitFailsOnlyOnLeftovers, FailureOK, Alone, Unfaulted
    <2> QED BY <2>2, <2>3 DEF InitOK, DeleteOK
  <1>3. \A d \in Cli : InitOK(d)' /\ DeleteOK(d)' /\ FailureOK(d)'
    BY <1>2
  <1> QED
    BY <1>1, <1>3
       DEF IInv, InitInv, DeleteInv, InitFailsOnlyOnLeftovers, FailureOK, Alone, Unfaulted

\* A command that is on its way has no result yet.
LEMMA NoResult ==
    ASSUME TypeInv, NEW c \in Cli, Active(c)
    PROVE  cmd[c].result = "none" /\ cmd[c].op \in {"init", "delete"}
  BY DEF TypeInv, CommandsOK, Placed, Active

LEMMA InitGoingOn ==
    ASSUME IInv, NEW c \in Cli, Active(c), cmd[c].op = "init", InitGoesOn(c)
    PROVE  IInv'
  <1>1. /\ \A d \in Cli : d # c => cmd'[d] = cmd[d]
        /\ cmd'[c].op = "init" /\ cmd'[c].result = "none"
        /\ cmd[c].marks \subseteq cmd'[c].marks /\ TypeInv'
    BY NoResult DEF InitGoesOn, Turn, IInv
  <1>2. InitOK(c)'
    <2> SUFFICES ASSUME Doing(c, "init")'
                 PROVE  /\ InitAchieved(c)'
                        /\ "fresh" \in cmd'[c].marks /\ Unfaulted(c)' => InitUnhindered(c)'
      BY DEF InitOK
    <2>1. Doing(c, "init")
      BY <1>1 DEF Doing, Alone, Active
    <2>2. InitAchieved(c) /\ ("fresh" \in cmd[c].marks /\ Unfaulted(c) => InitUnhindered(c))
      BY <2>1 DEF IInv, InitInv, InitOK
    <2>3. "fresh" \in cmd'[c].marks => "fresh" \in cmd[c].marks
      BY DEF InitGoesOn
    <2> QED BY <1>1, <2>2, <2>3 DEF InitGoesOn, Unfaulted
  <1> QED BY <1>1, <1>2, OwnStep DEF DeleteOK, FailureOK, Doing, InitGoesOn

LEMMA DeleteGoingOn ==
    ASSUME IInv, NEW c \in Cli, Active(c), cmd[c].op = "delete", DeleteGoesOn(c)
    PROVE  IInv'
  <1>1. /\ \A d \in Cli : d # c => cmd'[d] = cmd[d]
        /\ cmd'[c].op = "delete" /\ cmd[c].marks \subseteq cmd'[c].marks /\ TypeInv'
    BY DEF DeleteGoesOn, Turn
  <1>2. DeleteOK(c)'
    <2> SUFFICES ASSUME Doing(c, "delete")'
                 PROVE  /\ Unfaulted(c)' => Informed(c)'
                        /\ Informed(c)' => DeleteAchieved(c)'
      BY DEF DeleteOK
    <2>1. Doing(c, "delete")
      BY <1>1 DEF Doing, Alone, Active
    <2>2. (Unfaulted(c) => Informed(c)) /\ (Informed(c) => DeleteAchieved(c))
      BY <2>1 DEF IInv, DeleteInv, DeleteOK
    <2> QED BY <1>1, <2>2 DEF DeleteGoesOn, Unfaulted
  <1> QED BY <1>1, <1>2, OwnStep DEF InitOK, FailureOK, Doing

LEMMA Ending ==
    ASSUME IInv, NEW c \in Cli, Active(c), TypeInv', NEW result, Ends(c, result), FailureOK(c)'
    PROVE  IInv'
  BY OwnStep DEF Ends, Active, InitOK, DeleteOK, Doing

\* The calls of one command are not those of the other.
LEMMA OpOfCall ==
    ASSUME TypeInv, NEW c \in Cli
    PROVE  /\ cmd[c].call \in {"wipe", "make", "create", "start"} => cmd[c].op = "init"
           /\ cmd[c].call \in {"inspect", "stop", "remove", "list", "next", "disconnect"}
                => cmd[c].op = "delete"
  BY DEF TypeInv, CommandsOK, Placed, InitPlace, DeletePlace

LEMMA InitSteps ==
    ASSUME IInv, NEW c \in Cli, InitStep(c)
    PROVE  IInv'
  <1>1. TypeInv
    BY DEF IInv
  <1>2. cmd[c].call \in {"wipe", "make", "create", "start"}
    BY DEF InitStep, Wipe, WipeFails, CreateNetwork, MakeCerts, Make, Create, Start, At
  <1>3. Active(c) /\ cmd[c].op = "init" /\ Inits(c)
    BY <1>1, <1>2, OpOfCall DEF Active, Inits
  <1>4. InitGoesOn(c) \/ InitGivesUp(c)
    BY <1>3, WipeSteps, WipeFailsSteps, MakeSteps, CreateNetworkSteps, CreateSteps,
       MakeCertsSteps, StartSteps
       DEF InitStep
  <1>5. CASE InitGivesUp(c)
    <2>1. Alone(c)' /\ Unfaulted(c)' => "fresh" \notin cmd'[c].marks
      BY <1>3, <1>5
         DEF InitGivesUp, SameMarks, Alone, Unfaulted, IInv, InitInv, InitOK, Doing
    <2> QED BY <1>3, <1>5, <2>1, Ending DEF InitGivesUp, FailureOK
  <1> QED BY <1>3, <1>4, <1>5, InitGoingOn

LEMMA DeleteSteps ==
    ASSUME IInv, NEW c \in Cli, DeleteStep(c)
    PROVE  IInv'
  <1>1. TypeInv
    BY DEF IInv
  <1>2. cmd[c].call \in {"inspect", "stop", "remove", "list", "next", "disconnect"}
    BY DEF DeleteStep, List, NextProxy, InspectNetwork, Disconnect, RemoveNetwork, RemoveFiles,
           DeleteCallFails, Inspect, Stop, Remove, At
  <1>3. Active(c) /\ cmd[c].op = "delete" /\ Deletes(c)
    BY <1>1, <1>2, OpOfCall DEF Active, Deletes
  <1>4. DeleteGoesOn(c)
    BY <1>3, ListSteps, NextProxySteps, InspectNetworkSteps, DisconnectSteps,
       RemoveNetworkSteps, RemoveFilesSteps, DeleteCallFailsSteps, InspectSteps, StopSteps,
       RemoveSteps
       DEF DeleteStep
  <1> QED BY <1>3, <1>4, DeleteGoingOn

LEMMA ReportSteps ==
    ASSUME IInv, NEW c \in Cli, Report(c)
    PROVE  IInv'
  <1> DEFINE result == IF cmd[c].errors THEN "failed" ELSE "ok"
  <1>1. TypeInv /\ Active(c) /\ UNCHANGED <<files, docker, counters>>
    BY DEF IInv, Report, At, Active
  <1>2. Ends(c, result)
    BY <1>1, EndEnds DEF Report, TypeInv, CommandsOK
  <1>3. TypeInv'
    BY <1>1, <1>2, EndsOK, SameFiles, SameBoxes DEF docker, TypeInv
  <1>4. FailureOK(c)'
    <2>1. CASE cmd[c].op = "init"
      BY <1>1, <1>2, <2>1 DEF Ends, FailureOK, Report, At, TypeInv, CommandsOK, Placed, InitPlace
    <2>2. CASE cmd[c].op # "init"
      BY <1>2, <2>2 DEF Ends, FailureOK
    <2> QED BY <2>1, <2>2
  <1> QED BY <1>1, <1>2, <1>3, <1>4, Ending

LEMMA AbortSteps ==
    ASSUME IInv, NEW c \in Cli, Abort(c)
    PROVE  IInv'
  <1> DEFINE marks == cmd[c].marks \cup {"faulted"}
             k == [NoCommand EXCEPT !.op = cmd[c].op, !.result = "failed", !.marks = marks]
  <1>1. TypeInv /\ Active(c) /\ UNCHANGED <<files, docker, commands>> /\ cmd[c] \in Command
    BY DEF IInv, Abort, TypeInv, CommandsOK
  <1>2. marks \in SUBSET Mark /\ cmd[c].op \in {"none", "init", "delete"}
    BY <1>1 DEF Command, Mark
  <1>3. cmd' = [cmd EXCEPT ![c] = k]
    BY DEF Abort
  <1>4. /\ k \in Command /\ k.call = "idle" /\ k.op = cmd[c].op /\ k.result = "failed"
        /\ k.marks = marks
    <2> HIDE DEF marks
    <2> QED BY <1>2 DEF NoCommand, Command, Call, On
  <1> HIDE DEF k
  <1>5. Ends(c, "failed") /\ cmd'[c].marks = marks
    BY <1>1, <1>3, <1>4, Replaced DEF Ends, TypeInv, CommandsOK
  <1>6. TypeInv'
    <2>1. CommandsOK' /\ BoxesOK' /\ network' \in BOOLEAN
      BY <1>1, <1>5, EndsOK, SameBoxes DEF docker, TypeInv
    <2>2. FilesOK' /\ CountsOK'
      BY <1>1, BoundsAssumption DEF Abort, Fault, TypeInv, FilesOK, Closed, CountsOK
    <2> QED BY <2>1, <2>2 DEF TypeInv
  <1>7. FailureOK(c)'
    BY <1>5 DEF FailureOK, Unfaulted
  <1> QED BY <1>1, <1>5, <1>6, <1>7, Ending

LEMMA BeginSteps ==
    ASSUME IInv, NEW c \in Cli, NEW op \in {"init", "delete"}, Begin(c, op)
    PROVE  IInv'
  <1> USE Boxes
  <1> DEFINE marks == MarksAtBegin(c, op)
             first == IF op = "init" THEN "wipe" ELSE "inspect"
             place == IF op = "init" THEN "none" ELSE "controller"
             k == [NoCommand EXCEPT !.op = op, !.call = first, !.on = place, !.marks = marks]
  <1>1. TypeInv /\ UNCHANGED <<files, docker, faults>> /\ cmd \in [Cli -> Command]
    BY DEF IInv, Begin, TypeInv, CommandsOK
  <1>2. marks \in SUBSET Mark /\ first \in Call /\ place \in On
    BY DEF MarksAtBegin, Mark, Call, On
  <1>3. /\ k \in Command /\ k.op = op /\ k.call = first /\ k.on = place
        /\ k.todo = {} /\ k.errors = FALSE /\ k.result = "none" /\ k.marks = marks
    <2> HIDE DEF marks, first, place
    <2> QED BY <1>2 DEF NoCommand, Command
  <1>4. cmd' = [d \in Cli |-> IF d = c THEN k
                             ELSE IF Active(d) THEN [cmd[d] EXCEPT !.marks = @ \cup {"overlapped"}]
                             ELSE cmd[d]]
    BY DEF Begin
  <1> HIDE DEF k
  <1>5. cmd'[c] = k
    BY <1>4
  <1>6. \A d \in Cli : d # c /\ ~Active(d) => cmd'[d] = cmd[d]
    BY <1>4
  <1>7. ASSUME NEW d \in Cli, d # c, Active(d)
        PROVE  /\ cmd'[d] \in Command /\ ~Alone(d)' /\ Placed(cmd'[d])
    <2>1. cmd'[d] = [cmd[d] EXCEPT !.marks = @ \cup {"overlapped"}] /\ cmd[d] \in Command
      BY <1>1, <1>4, <1>7
    <2>2. /\ cmd'[d] \in Command /\ "overlapped" \in cmd'[d].marks
          /\ cmd'[d].call = cmd[d].call /\ cmd'[d].on = cmd[d].on /\ cmd'[d].op = cmd[d].op
          /\ cmd'[d].errors = cmd[d].errors /\ cmd'[d].result = cmd[d].result
      BY <2>1 DEF Command, Mark
    <2> QED BY <1>1, <2>2 DEF Alone, TypeInv, CommandsOK, Placed, InitPlace, DeletePlace
  <1>8. TypeInv'
    <2>1. Placed(k)
      BY <1>3 DEF Placed, InitPlace, DeletePlace
    <2>2. \A d \in Cli : cmd'[d] \in Command /\ Placed(cmd'[d])
      BY <1>1, <1>3, <1>5, <1>6, <1>7, <2>1 DEF TypeInv, CommandsOK
    <2>3. CommandsOK'
      BY <1>4, <2>2 DEF CommandsOK
    <2>4. CountsOK'
      BY <1>1, BoundsAssumption DEF Begin, TypeInv, CountsOK
    <2> QED BY <1>1, <2>3, <2>4, SameBoxes DEF docker, TypeInv, FilesOK, Closed
  <1>9. Apart'
    <2> SUFFICES ASSUME NEW d \in Cli, NEW e \in Cli, d # e, Active(d)', Active(e)'
                 PROVE  ~Alone(d)'
      BY DEF Apart
    <2>1. CASE d = c
      <3>1. Active(e) /\ e # c
        BY <1>6, <2>1 DEF Active
      <3>2. "overlapped" \in marks
        BY <3>1 DEF MarksAtBegin
      <3> QED BY <1>3, <1>5, <2>1, <3>2 DEF Alone
    <2>2. CASE d # c
      BY <1>6, <1>7, <2>2 DEF Active
    <2> QED BY <2>1, <2>2
  <1>10. \A d \in Cli : d # c => InitOK(d)' /\ DeleteOK(d)' /\ FailureOK(d)'
    <2> TAKE d \in Cli
    <2> HAVE d # c
    <2>1. CASE Active(d)
      BY <1>7, <2>1 DEF InitOK, DeleteOK, Doing, FailureOK
    <2>2. CASE ~Active(d)
      BY <1>6, <2>2
         DEF Active, InitOK, DeleteOK, Doing, FailureOK, IInv, InitFailsOnlyOnLeftovers, Alone,
             Unfaulted
    <2> QED BY <2>1, <2>2
  <1>11. InitOK(c)' /\ DeleteOK(c)' /\ FailureOK(c)'
    <2>1. FailureOK(c)'
      BY <1>3, <1>5 DEF FailureOK
    <2>2. CASE op = "init"
      <3>1. InitAchieved(c)'
        BY <1>3, <1>5, <2>2
           DEF InitAchieved, MakingFiles, BeforeNetwork, BeforeRouter, RouterCreated,
               CertsTried, At
      <3>2. "fresh" \in marks => InitUnhindered(c)'
        <4>1. "fresh" \in marks => ~network' /\ \A b \in Site : box'[b] = "absent"
          BY <1>1 DEF MarksAtBegin, docker
        <4> QED
          BY <1>3, <1>5, <2>2, <4>1 DEF InitUnhindered, MakingFiles, At
      <3> QED BY <1>3, <1>5, <2>1, <2>2, <3>1, <3>2 DEF InitOK, DeleteOK, Doing
    <2>3. CASE op = "delete"
      <3>1. DeleteAchieved(c)'
        BY <1>3, <1>5, <2>3 DEF DeleteAchieved, OnController, OnProxies, OnRouter, At
      <3>2. Informed(c)'
        <4>1. "uninspected" \notin marks
          BY DEF MarksAtBegin
        <4> QED BY <1>3, <1>5, <4>1 DEF Informed
      <3> QED BY <1>3, <1>5, <2>1, <2>3, <3>1, <3>2 DEF InitOK, DeleteOK, Doing
    <2> QED BY <2>2, <2>3
  <1> QED
    BY <1>8, <1>9, <1>10, <1>11
       DEF IInv, InitInv, DeleteInv, InitFailsOnlyOnLeftovers, FailureOK, Alone, Unfaulted

\* The containers take nothing from an init and bring nothing back to a delete.
LEMMA EnvSteps ==
    ASSUME IInv, Env
    PROVE  IInv'
  <1> USE Boxes
  <1>1. TypeInv /\ TypeInv' /\ EnvEffect
    BY EnvStep DEF IInv
  <1>2. UNCHANGED <<files, network, cmd>>
    BY <1>1 DEF EnvEffect
  <1>3. \A b \in Site : /\ box'[b] = "absent" <=> box[b] = "absent"
                        /\ Started(b) => Started(b)'
                        /\ Created(b) => Created(b)'
    BY <1>1 DEF EnvEffect, Started, Created
  <1>4. ASSUME NEW c \in Cli
        PROVE  InitOK(c)' /\ DeleteOK(c)'
    <2>1. InitAchieved(c) => InitAchieved(c)'
      BY <1>2, <1>3
         DEF InitAchieved, MakingFiles, BeforeNetwork, BeforeRouter, RouterCreated,
             CertsTried, At, Unfaulted
    <2>2. InitUnhindered(c) => InitUnhindered(c)'
      BY <1>2, <1>3
         DEF InitUnhindered, MakingFiles, BeforeNetwork, BeforeRouter, BeforeController,
             RouterCreated, At
    <2>3. DeleteAchieved(c) => DeleteAchieved(c)'
      <3> SUFFICES ASSUME DeleteAchieved(c) PROVE DeleteAchieved(c)'
        OBVIOUS
      <3>1. OnController(c)' = OnController(c) /\ OnProxies(c)' = OnProxies(c)
            /\ OnRouter(c)' = OnRouter(c) /\ Remaining(c)' = Remaining(c)
        BY <1>2 DEF OnController, OnProxies, OnRouter, Remaining
      <3>2. ~OnController(c) => \A s \in Service : box'[s] = box[s]
        BY <1>1 DEF DeleteAchieved, EnvEffect
      <3>3. ~OnController(c) => attached' \subseteq attached
        BY <1>1 DEF DeleteAchieved, EnvEffect
      <3>4. cmd[c].call \in {"stop", "remove"} /\ cmd[c].on \in Box =>
                 box'[cmd[c].on] = box[cmd[c].on]
                    \/ (box[cmd[c].on] = "running" /\ box'[cmd[c].on] = "exited")
        BY <1>1, <3>2 DEF EnvEffect, OnController, Box, Site
      <3>5. cmd[c].call = "stop" => cmd[c].on \in Box
        BY <1>1 DEF TypeInv, CommandsOK, Placed, InitPlace, DeletePlace
      <3>6. /\ cmd[c].call = "stop" => box'[cmd[c].on] # "absent"
            /\ cmd[c].call = "remove" /\ cmd[c].on \in Box => box'[cmd[c].on] \notin {"absent", "running"}
        BY <3>4, <3>5 DEF DeleteAchieved
      <3>7. At(c, "remove", "network") => ~OnController(c) /\ attached' = {}
        BY <3>3 DEF DeleteAchieved, At, OnController
      <3>8. ~OnController(c) /\ ~OnProxies(c) => \A s \in Service : box'[s] = "absent"
        BY <3>2 DEF DeleteAchieved
      <3>9. OnProxies(c) /\ cmd[c].call # "list" =>
                \A s \in Service : box'[s] # "absent" <=> s \in Remaining(c)
        <4>1. OnProxies(c) => ~OnController(c)
          BY DEF OnProxies, OnController
        <4> QED BY <3>2, <4>1 DEF DeleteAchieved
      <3>10. cmd' = cmd /\ files' = files /\ network' = network
        BY <1>2
      <3> QED
        BY <1>3, <3>1, <3>6, <3>7, <3>8, <3>9, <3>10 DEF DeleteAchieved, At
    <2> QED
      BY <1>2, <2>1, <2>2, <2>3
         DEF IInv, InitInv, DeleteInv, InitOK, DeleteOK, Doing, Active, Alone, Unfaulted,
             Informed
  <1> QED
    BY <1>1, <1>2, <1>4
       DEF IInv, InitInv, DeleteInv, InitFailsOnlyOnLeftovers, Apart, Active, Alone, Unfaulted

LEMMA InitIInv == Init => IInv
  <1> SUFFICES ASSUME Init PROVE IInv
    OBVIOUS
  <1> USE Boxes DEF Init
  <1>1. NoCommand \in Command /\ NoCommand.call = "idle" /\ NoCommand.result = "none"
    BY DEF NoCommand, Command, Call, On
  <1>2. \A c \in Cli : cmd[c] = NoCommand
    OBVIOUS
  <1>3. CommandsOK
    BY <1>1, <1>2 DEF CommandsOK, Placed
  <1>4. BoxesOK /\ FilesOK /\ CountsOK /\ network \in BOOLEAN
    <2>1. commands = 0 /\ faults = 0 /\ files = {} /\ network \in BOOLEAN
      OBVIOUS
    <2>2. FilesOK /\ CountsOK
      BY <2>1, BoundsAssumption DEF FilesOK, Closed, CountsOK
    <2>3. /\ box \in [Box -> {"absent", "created", "running", "exited"}]
          /\ \A b \in Box : box[b] = "absent"
      OBVIOUS
    <2> QED BY <2>1, <2>2, <2>3 DEF BoxesOK, Running
  <1>5. TypeInv
    BY <1>3, <1>4 DEF TypeInv
  <1> QED
    BY <1>1, <1>2, <1>5
       DEF IInv, Apart, Active, InitInv, InitOK, DeleteInv, DeleteOK, Doing,
           InitFailsOnlyOnLeftovers

LEMMA StutterIInv == IInv /\ UNCHANGED vars => IInv'
  <1> SUFFICES ASSUME IInv, UNCHANGED vars PROVE IInv'
    OBVIOUS
  <1>1. UNCHANGED <<files, docker, counters, cmd>>
    BY DEF vars, docker, counters
  <1>2. TypeInv'
    BY <1>1, SameFiles, SameBoxes DEF IInv, TypeInv, CommandsOK, docker
  <1>3. \A c \in Cli : InitOK(c)' = InitOK(c) /\ DeleteOK(c)' = DeleteOK(c)
    BY <1>1
       DEF docker, InitOK, DeleteOK, Doing, Active, Alone, Unfaulted, Informed, InitAchieved,
           InitUnhindered, DeleteAchieved, MakingFiles, BeforeNetwork, BeforeRouter,
           BeforeController, RouterCreated, CertsTried, At, Started, Created, OnController,
           OnProxies, OnRouter, Remaining
  <1> QED
    BY <1>1, <1>2, <1>3
       DEF IInv, InitInv, DeleteInv, InitFailsOnlyOnLeftovers, Apart, Active, Alone, Unfaulted

\* The invariant is inductive.
THEOREM Invariance == Spec => []IInv
  <1>1. Init => IInv
    BY InitIInv
  <1>2. IInv /\ [Next]_vars => IInv'
    BY StutterIInv, InitSteps, DeleteSteps, ReportSteps, AbortSteps, BeginSteps, EnvSteps
       DEF Next, Env
  <1> QED BY <1>1, <1>2, PTL DEF Spec

\* The host's files, Docker's network and containers and the controller's process keep
\* to their kinds, and the process to its running container (TypeOK).
THEOREM TypeCorrect == Spec => []TypeOK
  <1>1. IInv => TypeOK
    BY DEF IInv, TypeInv, FilesOK, BoxesOK, CountsOK, TypeOK
  <1> QED BY <1>1, Invariance, PTL

\* "Skupper resources are now removed" is true whatever the commands before have left,
\* and without a fault it is what delete reports (DeleteLeavesNothing).
THEOREM RemovedIsTrue == Spec => []DeleteLeavesNothing
  <1>1. IInv => DeleteLeavesNothing
    <2> SUFFICES ASSUME IInv, NEW c \in Cli, Reporting(c, "delete"), Alone(c)
                 PROVE  /\ ~cmd[c].errors /\ "uninspected" \notin cmd[c].marks =>
                                files = {} /\ ~network /\ \A b \in Box : box[b] = "absent"
                        /\ Unfaulted(c) => ~cmd[c].errors
      BY DEF DeleteLeavesNothing
    <2>1. DeleteOK(c) /\ Doing(c, "delete")
      BY DEF IInv, DeleteInv, Reporting, At, Doing, Active
    <2>2. ~OnController(c) /\ ~OnProxies(c) /\ ~OnRouter(c) /\ cmd[c].call = "report"
      BY DEF Reporting, At, OnController, OnProxies, OnRouter
    <2>3. Informed(c) => files = {} /\ ~network /\ \A b \in Box : box[b] = "absent"
      BY <2>1, <2>2 DEF DeleteOK, DeleteAchieved, Box, Site
    <2> QED BY <2>1, <2>3 DEF DeleteOK, Informed
  <1> QED BY <1>1, Invariance, PTL

\* "Skupper is now installed" is true: network and files are there, and the containers
\* were started on these files (SuccessIsASite).
THEOREM InstalledIsTrue == Spec => []SuccessIsASite
  <1>1. IInv => SuccessIsASite
    <2> SUFFICES ASSUME IInv, NEW c \in Cli, Reporting(c, "init"), Alone(c)
                 PROVE  /\ network
                        /\ Part \ {"certs"} \subseteq files
                        /\ Unfaulted(c) => "certs" \in files
                        /\ stale = {}
                        /\ \A b \in Site : box[b] \in {"running", "exited"}
      BY DEF SuccessIsASite
    <2>1. InitAchieved(c)
      BY DEF IInv, InitInv, InitOK, Reporting, At, Doing, Active
    <2>2. Started("router") /\ Started("controller")
      BY <2>1
         DEF InitAchieved, Reporting, At, BeforeRouter, BeforeNetwork, MakingFiles, RouterCreated
    <2>3. stale = {}
      BY <2>2 DEF IInv, TypeInv, BoxesOK, Started, Site
    <2> QED
      BY <2>1, <2>2, <2>3
         DEF InitAchieved, Reporting, At, BeforeNetwork, MakingFiles, CertsTried, Started, Site
  <1> QED BY <1>1, Invariance, PTL

\* Files that an earlier init has left do not make the next one fail: without a fault
\* only the network or a container of the site does (InitFailsOnlyOnLeftovers).
THEOREM InitCanBeRepeated == Spec => []InitFailsOnlyOnLeftovers
  BY Invariance, PTL DEF IInv
=============================================================================
