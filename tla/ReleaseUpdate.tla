--------------------------- MODULE ReleaseUpdate ---------------------------
(***************************************************************************)
(* Offline updates of ConsolePi+ itself.                                   *)
(*                                                                         *)
(* The administrator uploads a signed package and asks for its             *)
(* installation (app.py).  consolepi-release-runner start looks at the     *)
(* status file, which is the only lock, and spawns a detached worker; the  *)
(* worker announces what it does in that file, has consolepi-release       *)
(* inspect and install the package, whose install.sh --update replaces     *)
(* programs, VERSION and web application one after the other, and reboots. *)
(* Nothing is undone when the installation stops half way.                 *)
(*                                                                         *)
(* Between the check of start and the first state its worker writes, a     *)
(* second start finds nothing running.  Nothing prevents that: what holds  *)
(* then, and what holds until and after it, is told apart by the history   *)
(* variable race.                                                          *)
(***************************************************************************)
EXTENDS Naturals

CONSTANTS
    Package,        \* uploaded files; each upload gets a fresh random name
    NoPackage,
    Version,        \* the version in the signed manifest of each package
    Factory,        \* the version the device is delivered with
    Browser,        \* browser sessions of the administrator
    Job,            \* installation requests: the start command, then its worker
    MaxKills        \* bound on power failures and restarts of the web service

ASSUME VersionAssumption == Factory \in Nat \ {0} /\ Version \in [Package -> Nat \ {0}]
ASSUME NoPackageAssumption == NoPackage \notin Package
ASSUME KillBoundAssumption == MaxKills \in Nat

\* What install.sh replaces, and the version of a part that is half copied.
Part == {"programs", "version", "web"}
Partial == 0

VARIABLES
    uploads,    \* the packages in release-uploads
    used,       \* names given to uploads so far
    candidate,  \* the package each browser session may install
    status,     \* release-update-status.json; "stale" is "rebooting" for over 45 s
    tree,       \* the version of each part installed on the device
    record,     \* the version in installed.json, 0 before the first update
    settings,   \* consolepi.conf: as packaged, or as the administrator chose
    job,        \* the process of each request
    race,       \* history: "on" from a start that overtakes another one until
                \* no job is left, then "over" until an update has completed
    kills       \* counter of the bound

web == <<uploads, used, candidate>>
device == <<tree, record, settings>>
vars == <<web, status, device, job, race, kills>>

NoJob == [pc |-> "idle", package |-> NoPackage]

StartPc == {"retire", "spawn", "run"}
InstallerPc == {"programs", "copying programs", "version", "web", "copying web", "checks"}
WorkerPc == {"inspect", "prepare"} \union InstallerPc
                \union {"record", "unlink", "announce", "sleep", "report"}
Status == {"idle", "verifying", "installing", "failed", "rebooting", "stale", "torn"}

TypeOK ==
    /\ uploads \in SUBSET Package /\ used \in SUBSET Package
    /\ candidate \in [Browser -> Package \union {NoPackage}]
    /\ status \in Status
    /\ tree \in [Part -> Nat] /\ record \in Nat
    /\ settings \in {"packaged", "chosen"}
    /\ job \in [Job -> [pc: {"idle"} \union StartPc \union WorkerPc,
                        package: Package \union {NoPackage}]]
    /\ \A j \in Job : job[j].pc # "idle" => job[j].package \in Package
    /\ race \in {"none", "on", "over"}
    /\ kills \in Nat

Init ==
    /\ uploads = {} /\ used = {} /\ candidate = [b \in Browser |-> NoPackage]
    /\ status = "idle"
    /\ tree = [part \in Part |-> Factory] /\ record = 0
    /\ settings = "packaged"
    /\ job = [j \in Job |-> NoJob] /\ race = "none"
    /\ kills = 0

\* Mutant: any other version will do.
NewerOrOlder(p) == Version[p] # tree["version"]
\* What consolepi-release inspect and install ask of a package.
Newer(p) == Version[p] > tree["version"]
Installable(p) == p \in uploads /\ Newer(p)

\* Mutant: a start looks for workers that install and not for a reboot ahead.
BusyInstalling == status \in {"verifying", "installing", "torn"}
\* The states in which start refuses; a torn file it cannot read.
Busy == status \in {"verifying", "installing", "rebooting", "torn"}

At(j, pc) == job[j].pc = pc
Goto(j, pc) == job' = [job EXCEPT ![j].pc = pc] /\ race' = race
Become(jobs) ==
    /\ job' = jobs
    /\ race' = IF race = "on" /\ \A i \in Job : jobs[i].pc = "idle" THEN "over" ELSE race
End(j) == Become([job EXCEPT ![j] = NoJob])

-----------------------------------------------------------------------------
(* The web interface.                                                      *)

\* A package that passes the inspection becomes the candidate of its session
\* and replaces the one before, whoever is using that.
Upload(b, p) ==
    /\ p \notin used /\ Newer(p)
    /\ uploads' = (uploads \ {candidate[b]}) \union {p}
    /\ used' = used \union {p}
    /\ candidate' = [candidate EXCEPT ![b] = p]
    /\ UNCHANGED <<status, device, job, race, kills>>

\* The answer to a started installation clears the candidate; it may reach
\* the browser late or never.
Answer(b) ==
    /\ \E j \in Job : job[j].package = candidate[b] /\ job[j].pc \notin {"idle", "retire", "spawn"}
    /\ candidate' = [candidate EXCEPT ![b] = NoPackage]
    /\ UNCHANGED <<uploads, used, status, device, job, race, kills>>

\* The administrator asks for transcripts of console sessions.
LogsConfigure ==
    /\ settings = "packaged"
    /\ settings' = "chosen"
    /\ UNCHANGED <<web, status, tree, record, job, race, kills>>

-----------------------------------------------------------------------------
(* consolepi-release-runner start.                                         *)

\* Another start is still on its way to the status file.
Overtakes == \E i \in Job : job[i].pc \in StartPc

\* Mutant: the session's package is not looked for.
StartCheckAny(b, j) ==
    /\ At(j, "idle")
    /\ ~Busy
    /\ job' = [job EXCEPT ![j] = [pc |-> "spawn", package |-> candidate[b]]]
    /\ race' = IF Overtakes THEN "on" ELSE race
    /\ UNCHANGED <<web, status, device, kills>>

StartCheck(b, j) ==
    /\ At(j, "idle") /\ candidate[b] # NoPackage
    /\ ~Busy
    /\ job' = [job EXCEPT ![j] = [pc |-> IF status = "stale" THEN "retire" ELSE "spawn",
                                  package |-> candidate[b]]]
    /\ race' = IF Overtakes THEN "on" ELSE race
    /\ UNCHANGED <<web, status, device, kills>>

\* Mutant: the marker stays.
RetireNothing(j) ==
    /\ At(j, "retire")
    /\ Goto(j, "spawn")
    /\ UNCHANGED <<web, status, device, kills>>

\* The marker of an update that ended in a reboot is put away.
Retire(j) ==
    /\ At(j, "retire")
    /\ status' = "idle"
    /\ Goto(j, "spawn")
    /\ UNCHANGED <<web, device, kills>>

Spawn(j) ==
    /\ At(j, "spawn")
    /\ IF job[j].package \in uploads THEN Goto(j, "run") ELSE End(j)
    /\ UNCHANGED <<web, status, device, kills>>

-----------------------------------------------------------------------------
(* consolepi-release-runner run, and consolepi-release.                    *)

\* A worker whose package has gone ends before it writes anything.
RunBegin(j) ==
    /\ At(j, "run")
    /\ \/ /\ job[j].package \in uploads
          /\ status' = "verifying"
          /\ Goto(j, "inspect")
       \/ /\ job[j].package \notin uploads
          /\ End(j)
          /\ UNCHANGED status
    /\ UNCHANGED <<web, device, kills>>

Inspect(j) ==
    /\ At(j, "inspect")
    /\ \/ /\ Installable(job[j].package)
          /\ status' = "installing"
          /\ Goto(j, "prepare")
       \/ /\ ~Installable(job[j].package)
          /\ status' = "failed"
          /\ End(j)
    /\ UNCHANGED <<web, device, kills>>

\* Reads and checks the package once more, unpacks it, and install.sh backs up
\* what it is going to replace.
Prepare(j) ==
    /\ At(j, "prepare")
    /\ Goto(j, IF Installable(job[j].package) THEN "programs" ELSE "report")
    /\ UNCHANGED <<web, status, device, kills>>

\* install.sh: file after file of a part is replaced.  The file of settings
\* goes first.
BeginCopy(j, part, copying) ==
    /\ At(j, part)
    /\ tree' = [tree EXCEPT ![part] = Partial]
    /\ settings' = IF part = "programs" THEN "packaged" ELSE settings
    /\ Goto(j, copying)
    /\ UNCHANGED <<web, status, record, kills>>

\* The files of two installers may mix; VERSION is a single one.
EndCopy(j, copying, part, next) ==
    /\ At(j, copying)
    /\ \/ tree' = [tree EXCEPT ![part] = Version[job[j].package]]
       \/ /\ part # "version" /\ \E i \in Job \ {j} : ~At(i, "idle")
          /\ tree' = [tree EXCEPT ![part] = Partial]
    /\ Goto(j, next)
    /\ UNCHANGED <<web, status, record, settings, kills>>

\* Mutant: installed.json is left to the next boot.
ChecksUnrecorded(j) ==
    /\ At(j, "checks")
    /\ Goto(j, "unlink")
    /\ UNCHANGED <<web, status, device, kills>>

\* visudo, auth sync, nginx -t, sshd -t, access migrate.
Checks(j) ==
    /\ At(j, "checks")
    /\ Goto(j, "record")
    /\ UNCHANGED <<web, status, device, kills>>

\* Mutant: the return code of the installer is not looked at.
InstallerStopsUnseen(j) ==
    /\ job[j].pc \in {"prepare", "record"} \union InstallerPc
    /\ Goto(j, "unlink")
    /\ UNCHANGED <<web, status, device, kills>>

\* Mutant: the exception of the timeout is not caught and ends the worker.
InstallerStopsUncaught(j) ==
    /\ job[j].pc \in {"prepare", "record"} \union InstallerPc
    /\ End(j)
    /\ UNCHANGED <<web, status, device, kills>>

\* A command of install.sh fails, or its time is over; so may unpacking.
InstallerStops(j) ==
    /\ job[j].pc \in {"prepare", "record"} \union InstallerPc
    /\ Goto(j, "report")
    /\ UNCHANGED <<web, status, device, kills>>

Installer(j) ==
    \/ BeginCopy(j, "programs", "copying programs")
    \/ EndCopy(j, "copying programs", "programs", "version")
    \/ EndCopy(j, "version", "version", "web")
    \/ BeginCopy(j, "web", "copying web")
    \/ EndCopy(j, "copying web", "web", "checks")
    \/ Checks(j)
    \/ InstallerStops(j)

Record(j) ==
    /\ At(j, "record")
    /\ record' = Version[job[j].package]
    /\ Goto(j, "unlink")
    /\ UNCHANGED <<web, status, tree, settings, kills>>

Report(j) ==
    /\ At(j, "report")
    /\ status' = "failed"
    /\ End(j)
    /\ UNCHANGED <<web, device, kills>>

Unlink(j) ==
    /\ At(j, "unlink")
    /\ uploads' = uploads \ {job[j].package}
    /\ Goto(j, "announce")
    /\ UNCHANGED <<used, candidate, status, device, kills>>

Announce(j) ==
    /\ At(j, "announce")
    /\ status' = "rebooting"
    /\ job' = [job EXCEPT ![j].pc = "sleep"]
    /\ race' = IF race = "over" THEN "none" ELSE race
    /\ UNCHANGED <<web, device, kills>>

\* The reboot ends every process; a refused one ends only the worker.
Reboot(j) ==
    /\ At(j, "sleep")
    /\ \/ Become([i \in Job |-> NoJob])
       \/ End(j)
    /\ UNCHANGED <<web, status, device, kills>>

\* A job at one of its writes of the status file, what it writes there, and
\* where it goes on.
Writes(j) ==
    \/ job[j].pc \in {"retire", "inspect", "report", "announce"}
    \/ At(j, "run") /\ job[j].package \in uploads

Written(j) ==
    CASE At(j, "retire") -> "idle"
      [] At(j, "run") -> "verifying"
      [] At(j, "inspect") -> IF Installable(job[j].package) THEN "installing" ELSE "failed"
      [] At(j, "report") -> "failed"
      [] At(j, "announce") -> "rebooting"

After(j) ==
    CASE At(j, "retire") -> [job[j] EXCEPT !.pc = "spawn"]
      [] At(j, "run") -> [job[j] EXCEPT !.pc = "inspect"]
      [] At(j, "inspect") -> IF Installable(job[j].package)
                             THEN [job[j] EXCEPT !.pc = "prepare"] ELSE NoJob
      [] At(j, "report") -> NoJob
      [] At(j, "announce") -> [job[j] EXCEPT !.pc = "sleep"]

\* Two jobs write the same temporary file: i renames it under its name, with the
\* one text or the other, or the longer one's end behind the shorter one, and j
\* finds it gone and ends.
WritesCollide(i, j) ==
    /\ i # j /\ Writes(i) /\ Writes(j)
    /\ status' \in {Written(i), Written(j), "torn"}
    /\ Become([job EXCEPT ![i] = After(i), ![j] = NoJob])
    /\ UNCHANGED <<web, device, kills>>

-----------------------------------------------------------------------------
(* The rest of the device.                                                 *)

\* A power failure, or a restart of consolepi-web.service: start, worker and
\* installer belong to its control group and end with it.
Restart ==
    /\ kills < MaxKills
    /\ kills' = kills + 1
    /\ Become([j \in Job |-> NoJob])
    /\ UNCHANGED <<web, status, device>>

\* The marker is older than 45 s; the worker slept for 5.
Age ==
    /\ status = "rebooting" /\ \A j \in Job : ~At(j, "sleep")
    /\ status' = "stale"
    /\ UNCHANGED <<web, device, job, race, kills>>

-----------------------------------------------------------------------------
Start(j) == Retire(j) \/ Spawn(j)
Run(j) ==
    \/ RunBegin(j) \/ Inspect(j) \/ Prepare(j) \/ Installer(j) \/ Record(j)
    \/ Report(j) \/ Unlink(j) \/ Announce(j) \/ Reboot(j)

Next ==
    \/ \E b \in Browser : \/ \E p \in Package : Upload(b, p)
                          \/ \E j \in Job : StartCheck(b, j)
                          \/ Answer(b)
    \/ LogsConfigure
    \/ \E j \in Job : Start(j) \/ Run(j)
    \/ \E i, j \in Job : WritesCollide(i, j)
    \/ Restart \/ Age

Spec == Init /\ [][Next]_vars

\* A process that has started goes on, though not each one if there are two:
\* what it waits for answers or is given up after 240 s and 300 s.  Clocks go
\* on, too.  Nobody has to ask for anything.
Fairness == WF_vars(Age) /\ WF_vars(\E j \in Job : Start(j) \/ Run(j))
FairSpec == Spec /\ Fairness

-----------------------------------------------------------------------------
(* Properties.                                                             *)

Consistent == \A part \in Part : tree[part] = tree["version"]

\* "Instalace aktualizace jiz probiha", release-runner:96: whoever asks, no two
\* workers verify, install or are about to reboot.
OneInstaller ==
    \A i, j \in Job : job[i].pc \in WorkerPc /\ job[j].pc \in WorkerPc => i = j

\* The status file is a lock for every start that does not overtake another
\* one, although one process reads it and another one writes it, and it
\* outlives crashes, reboots and an overtaking before.
LockKept == race # "on" => OneInstaller

\* An update is reported completed, or the device ready for the next one, only
\* while programs, VERSION and web application are of one version: a device
\* left half updated by a failure, a timeout or a crash says so until a later
\* update has completed.  Starts that overtook each other (race) take that away
\* until the next completed update.
ReportedTrue ==
    race = "none" => (status \in {"idle", "rebooting", "stale"} => Consistent)

\* A completed update is the one installed.json names, until starts overtake
\* each other and from the next completed one on.
CompletedIsRecorded ==
    race = "none" => (status \in {"rebooting", "stale"} => record = tree["version"])

\* No order of uploads, installations and failures takes VERSION back,
\* although it is compared long before it is written; only workers of starts
\* that overtook each other do.
VersionGrows == [][race' # "on" => tree'["version"] >= tree["version"]]_vars

\* While the machine stays up, an installation that has announced itself ends
\* in a state in which the next one can be started; of two workers of starts
\* that overtook each other the one may reboot under the other.
BusyEndsIfUp == Busy ~> (~Busy \/ kills > 0 \/ race # "none")

\* An update leaves the configuration alone: "instalovat podepsanou
\* aktualizaci bez zmeny provozni konfigurace", install.sh:23.
SettingsKept == [][settings = "chosen" => settings' = "chosen"]_vars

-----------------------------------------------------------------------------
(* The inductive invariant.                                                *)

JobAlone == \A i, j \in Job : job[i].pc # "idle" /\ job[j].pc # "idle" => i = j

\* The state file shows what the worker is doing; a start has found no worker.
StatusShows ==
    \A j \in Job :
        /\ At(j, "retire") => status = "stale"
        /\ job[j].pc \in {"spawn", "run"} => status \in {"idle", "failed"}
        /\ At(j, "inspect") => status = "verifying"
        /\ job[j].pc \in WorkerPc \ {"inspect", "sleep"} => status = "installing"
        /\ At(j, "sleep") => status = "rebooting"

\* The parts an installer has passed have the version of its package, which
\* until then was newer than the device's.
Progress ==
    \A j \in Job :
        LET v == Version[job[j].package]
        IN  /\ job[j].pc \in {"programs", "copying programs", "version"} => v > tree["version"]
            /\ job[j].pc \in {"version", "web", "copying web", "checks", "record", "unlink", "announce"}
                  => tree["programs"] = v
            /\ job[j].pc \in {"web", "copying web", "checks", "record", "unlink", "announce"}
                  => tree["version"] = v
            /\ job[j].pc \in {"checks", "record", "unlink", "announce"} => tree["web"] = v
            /\ job[j].pc \in {"unlink", "announce"} => record = v

\* VERSION is never half copied, and the web application is replaced after it.
WebBehind == tree["version"] # Partial /\ (race = "none" => tree["web"] <= tree["version"])

Core == JobAlone /\ StatusShows /\ Progress
InductiveInv ==
    /\ TypeOK
    /\ race # "on" => Core
    /\ ReportedTrue /\ CompletedIsRecorded /\ WebBehind

-----------------------------------------------------------------------------
(* The abstract specification.                                             *)

Word == CASE status = "idle" -> "ready"
          [] status \in {"verifying", "installing"} -> "busy"
          [] status = "failed" -> "failed"
          [] status \in {"rebooting", "stale"} -> "done"
          [] status = "torn" -> "lost"

Promise == INSTANCE ReleasePromise
    WITH First <- Factory, word <- Word, installed <- tree["version"], whole <- Consistent

\* Until starts overtake each other, and from the next completed update on, each
\* step of start, worker and installer is one of the promise or changes nothing
\* of it, whatever fails or is cut off: the device changes only while the status
\* file says so.
PromiseKept ==
    Promise!Init /\ [][race' = "none" => Promise!Next \/ UNCHANGED Promise!vars]_vars
=============================================================================
