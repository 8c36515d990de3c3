------------------------ MODULE ReleaseUpdateProofs ------------------------
(***************************************************************************)
(* Proofs about ReleaseUpdate: types; the inductive invariant; the status  *)
(* file as a lock for starts that do not overtake each other, a truthful   *)
(* status file, a VERSION that never goes back and the refinement of       *)
(* ReleasePromise, each outside the time starts that did overtake each     *)
(* other spoil.                                                            *)
(***************************************************************************)
EXTENDS ReleaseUpdate, TLAPS

\* A job that goes on keeps its package, one that ends has none.
LEMMA GotoType ==
    ASSUME TypeOK, NEW j \in Job, job[j].pc # "idle",
           NEW pc \in {"idle"} \union StartPc \union WorkerPc, Goto(j, pc)
    PROVE  /\ job' \in [Job -> [pc: {"idle"} \union StartPc \union WorkerPc,
                                package: Package \union {NoPackage}]]
           /\ \A i \in Job : job'[i].pc # "idle" => job'[i].package \in Package
           /\ race' \in {"none", "on", "over"}
BY DEF TypeOK, Goto

LEMMA EndType ==
    ASSUME TypeOK, NEW j \in Job, End(j)
    PROVE  /\ job' \in [Job -> [pc: {"idle"} \union StartPc \union WorkerPc,
                                package: Package \union {NoPackage}]]
           /\ \A i \in Job : job'[i].pc # "idle" => job'[i].package \in Package
           /\ race' \in {"none", "on", "over"}
BY DEF TypeOK, End, Become, NoJob

LEMMA AllEndType ==
    ASSUME TypeOK, Become([j \in Job |-> NoJob])
    PROVE  /\ job' \in [Job -> [pc: {"idle"} \union StartPc \union WorkerPc,
                                package: Package \union {NoPackage}]]
           /\ \A i \in Job : job'[i].pc # "idle" => job'[i].package \in Package
           /\ race' \in {"none", "on", "over"}
BY DEF TypeOK, Become, NoJob

\* consolepi-release-runner, consolepi-release and install.sh: what the steps
\* of a job write has its type.
LEMMA JobTypes ==
    ASSUME TypeOK, NEW j \in Job, Start(j) \/ Run(j)
    PROVE  TypeOK'
<1> USE DEF StartPc, WorkerPc, InstallerPc, At, web, device
<1>0. job[j] \in [pc: {"idle"} \union StartPc \union WorkerPc, package: Package \union {NoPackage}]
  BY DEF TypeOK
<1>1. CASE Retire(j)
  <2>1. Goto(j, "spawn") /\ job[j].pc # "idle"
    BY <1>1 DEF Retire
  <2>. QED BY <1>1, <2>1, GotoType DEF TypeOK, Retire, Status
<1>2. CASE Spawn(j)
  <2>1. job[j].pc # "idle" /\ (Goto(j, "run") \/ End(j))
    BY <1>2 DEF Spawn
  <2>. QED BY <1>2, <2>1, GotoType, EndType DEF TypeOK, Spawn
<1>3. CASE RunBegin(j)
  <2>1. job[j].pc # "idle" /\ (Goto(j, "inspect") \/ End(j))
    BY <1>3 DEF RunBegin
  <2>. QED BY <1>3, <2>1, GotoType, EndType DEF TypeOK, RunBegin, Status
<1>4. CASE Inspect(j)
  <2>1. job[j].pc # "idle" /\ (Goto(j, "prepare") \/ End(j))
    BY <1>4 DEF Inspect
  <2>. QED BY <1>4, <2>1, GotoType, EndType DEF TypeOK, Inspect, Status
<1>5. CASE Prepare(j)
  <2>1. job[j].pc # "idle" /\ (Goto(j, "programs") \/ Goto(j, "report"))
    BY <1>5 DEF Prepare
  <2>. QED BY <1>5, <2>1, GotoType DEF TypeOK, Prepare
<1>6. CASE Installer(j)
  <2>1. ASSUME NEW part \in Part, NEW copying \in InstallerPc, part \in InstallerPc,
               BeginCopy(j, part, copying)
        PROVE  TypeOK'
    <3>1. job[j].pc # "idle" /\ Goto(j, copying)
      BY <2>1 DEF BeginCopy
    <3>2. tree' \in [Part -> Nat] /\ settings' \in {"packaged", "chosen"}
      BY <2>1 DEF BeginCopy, TypeOK, Partial
    <3>. QED BY <2>1, <3>1, <3>2, GotoType DEF TypeOK, BeginCopy
  <2>2. ASSUME NEW part \in Part, NEW copying \in InstallerPc, NEW next \in InstallerPc,
               EndCopy(j, copying, part, next)
        PROVE  TypeOK'
    <3>1. job[j].pc # "idle" /\ Goto(j, next)
      BY <2>2 DEF EndCopy
    <3>2. tree' \in [Part -> Nat]
      <4>1. job[j].package \in Package
        BY <3>1 DEF TypeOK
      <4>2. Version[job[j].package] \in Nat
        BY <4>1, VersionAssumption
      <4>3. \E left \in Nat : tree' = [tree EXCEPT ![part] = left]
        BY <2>2, <4>2 DEF EndCopy, Partial
      <4>4. tree \in [Part -> Nat]
        BY DEF TypeOK
      <4>5. tree' \in [Part -> Nat]
        BY <4>3, <4>4
      <4>. QED BY <4>5
    <3>. QED BY <2>2, <3>1, <3>2, GotoType DEF TypeOK, EndCopy
  <2>3. CASE Checks(j)
    <3>1. job[j].pc # "idle" /\ Goto(j, "record")
      BY <2>3 DEF Checks
    <3>. QED BY <2>3, <3>1, GotoType DEF TypeOK, Checks
  <2>4. CASE InstallerStops(j)
    <3>1. job[j].pc # "idle" /\ Goto(j, "report")
      BY <2>4 DEF InstallerStops
    <3>. QED BY <2>4, <3>1, GotoType DEF TypeOK, InstallerStops
  <2>. QED BY <1>6, <2>1, <2>2, <2>3, <2>4 DEF Installer, Part
<1>7. CASE Record(j)
  <2>1. job[j].pc # "idle" /\ Goto(j, "unlink")
    BY <1>7 DEF Record
  <2>2. record' \in Nat
    BY <1>7, <2>1, VersionAssumption DEF Record, TypeOK
  <2>. QED BY <1>7, <2>1, <2>2, GotoType DEF TypeOK, Record
<1>8. CASE Report(j)
  BY <1>8, EndType DEF TypeOK, Report, Status
<1>9. CASE Unlink(j)
  <2>1. job[j].pc # "idle" /\ Goto(j, "announce")
    BY <1>9 DEF Unlink
  <2>. QED BY <1>9, <2>1, GotoType DEF TypeOK, Unlink
<1>10. CASE Announce(j)
  <2>1. /\ job' \in [Job -> [pc: {"idle"} \union StartPc \union WorkerPc,
                             package: Package \union {NoPackage}]]
        /\ \A i \in Job : job'[i].pc # "idle" => job'[i].package \in Package
    BY <1>10 DEF TypeOK, Announce
  <2>. QED BY <1>10, <2>1 DEF TypeOK, Announce, Status
<1>11. CASE Reboot(j)
  BY <1>11, EndType, AllEndType DEF TypeOK, Reboot
<1>. QED
  BY <1>1, <1>2, <1>3, <1>4, <1>5, <1>6, <1>7, <1>8, <1>9, <1>10, <1>11 DEF Start, Run

\* So does a collision of two writes.
LEMMA CollideTypes ==
    ASSUME TypeOK, NEW i \in Job, NEW j \in Job, WritesCollide(i, j)
    PROVE  TypeOK'
<1> USE DEF StartPc, WorkerPc, InstallerPc, At
<1>1. Written(i) \in Status /\ Written(j) \in Status
  BY DEF WritesCollide, Writes, Written, Status
<1>2. After(i) = NoJob \/ After(i) \in {[job[i] EXCEPT !.pc = pc] :
                                           pc \in {"spawn", "inspect", "prepare", "sleep"}}
  BY DEF WritesCollide, Writes, After
<1>3. job[i] \in [pc: {"idle"} \union StartPc \union WorkerPc, package: Package \union {NoPackage}]
      /\ job[i].package \in Package
  BY DEF TypeOK, WritesCollide, Writes
<1>4. /\ After(i) \in [pc: {"idle"} \union StartPc \union WorkerPc, package: Package \union {NoPackage}]
      /\ (After(i).pc # "idle" => After(i).package \in Package)
  <2>1. CASE After(i) = NoJob
    BY <2>1 DEF NoJob
  <2>2. ASSUME NEW pc \in {"spawn", "inspect", "prepare", "sleep"}, After(i) = [job[i] EXCEPT !.pc = pc]
        PROVE  <1>4!1 /\ After(i).package \in Package
    BY <1>3, <2>2
  <2>. QED BY <1>2, <2>1, <2>2
<1>5. job' = [job EXCEPT ![i] = After(i), ![j] = NoJob] /\ race' \in {"none", "on", "over"}
  BY DEF WritesCollide, Become, TypeOK
<1>6. /\ job' \in [Job -> [pc: {"idle"} \union StartPc \union WorkerPc,
                           package: Package \union {NoPackage}]]
      /\ \A k \in Job : job'[k].pc # "idle" => job'[k].package \in Package
  BY <1>4, <1>5 DEF TypeOK, NoJob
<1>7. status' \in Status
  BY <1>1 DEF WritesCollide, Status
<1>. QED BY <1>5, <1>6, <1>7 DEF TypeOK, WritesCollide, web, device

\* The web interface, the clock and the world keep the types, too.
LEMMA TypeStep == TypeOK /\ [Next]_vars => TypeOK'
<1> SUFFICES ASSUME TypeOK, [Next]_vars PROVE TypeOK'
  OBVIOUS
<1> USE DEF web, device
<1>1. ASSUME NEW b \in Browser, NEW p \in Package, Upload(b, p) PROVE TypeOK'
  BY <1>1 DEF TypeOK, Upload
<1>2. ASSUME NEW b \in Browser, NEW j \in Job, StartCheck(b, j) PROVE TypeOK'
  <2>1. candidate[b] \in Package
    BY <1>2 DEF TypeOK, StartCheck
  <2>. QED BY <1>2, <2>1 DEF TypeOK, StartCheck, StartPc
<1>3. ASSUME NEW b \in Browser, Answer(b) PROVE TypeOK'
  BY <1>3 DEF TypeOK, Answer
<1>4. CASE LogsConfigure
  BY <1>4 DEF TypeOK, LogsConfigure
<1>5. CASE Restart
  BY <1>5, AllEndType DEF TypeOK, Restart
<1>6. CASE Age
  BY <1>6 DEF TypeOK, Age, Status
<1>7. CASE UNCHANGED vars
  BY <1>7 DEF TypeOK, vars
<1>. QED BY <1>1, <1>2, <1>3, <1>4, <1>5, <1>6, <1>7, JobTypes, CollideTypes DEF Next

LEMMA TypeInit == Init => TypeOK
BY VersionAssumption DEF Init, TypeOK, NoJob, Status, Part

\* Every variable of the update keeps its type.
THEOREM TypeCorrect == Spec => []TypeOK
BY TypeInit, TypeStep, PTL DEF Spec

-----------------------------------------------------------------------------
(* The inductive invariant.                                                *)

\* What the invariant says of one job.
Shown(j) ==
    /\ At(j, "retire") => status = "stale"
    /\ job[j].pc \in {"spawn", "run"} => status \in {"idle", "failed"}
    /\ At(j, "inspect") => status = "verifying"
    /\ job[j].pc \in WorkerPc \ {"inspect", "sleep"} => status = "installing"
    /\ At(j, "sleep") => status = "rebooting"

Passed(j) ==
    LET v == Version[job[j].package]
    IN  /\ job[j].pc \in {"programs", "copying programs", "version"} => v > tree["version"]
        /\ job[j].pc \in {"version", "web", "copying web", "checks", "record", "unlink", "announce"}
              => tree["programs"] = v
        /\ job[j].pc \in {"web", "copying web", "checks", "record", "unlink", "announce"}
              => tree["version"] = v
        /\ job[j].pc \in {"checks", "record", "unlink", "announce"} => tree["web"] = v
        /\ job[j].pc \in {"unlink", "announce"} => record = v

\* What the status file promises when no update is shown to run.
Reported ==
    race = "none" =>
        /\ status \in {"idle", "rebooting", "stale"} => Consistent
        /\ status \in {"rebooting", "stale"} => record = tree["version"]

LEMMA CoreParts == Core <=> JobAlone /\ \A j \in Job : Shown(j) /\ Passed(j)
BY DEF Core, StatusShows, Progress, Shown, Passed

\* Nothing is said of a job that does not run.
LEMMA IdleParts ==
    ASSUME NEW j \in Job, job[j].pc = "idle"
    PROVE  Shown(j) /\ Passed(j)
BY DEF Shown, Passed, At, WorkerPc, InstallerPc

\* When the only running job makes a step, only that job need be looked at.
LEMMA OneStep ==
    ASSUME TypeOK, JobAlone, NEW j \in Job, job[j].pc # "idle",
           (\E pc \in {"idle"} \union StartPc \union WorkerPc : Goto(j, pc)) \/ End(j)
    PROVE  /\ JobAlone'
           /\ \A i \in Job \ {j} : job'[i].pc = "idle" /\ Shown(i)' /\ Passed(i)'
<1>1. \A i \in Job \ {j} : job[i].pc = "idle"
  BY DEF JobAlone
<1>2. \A i \in Job \ {j} : job'[i] = job[i]
  BY DEF TypeOK, Goto, End, Become
<1>3. \A i \in Job \ {j} : job'[i].pc = "idle"
  BY <1>1, <1>2
<1>4. \A i \in Job \ {j} : Shown(i)' /\ Passed(i)'
  BY <1>3 DEF Shown, Passed, At, WorkerPc, InstallerPc
<1>. QED BY <1>3, <1>4 DEF JobAlone

LEMMA GotoJob ==
    ASSUME TypeOK, NEW j \in Job, NEW pc, Goto(j, pc)
    PROVE  job'[j].pc = pc /\ job'[j].package = job[j].package /\ race' = race
BY DEF TypeOK, Goto

LEMMA EndJob ==
    ASSUME TypeOK, NEW j \in Job, End(j)
    PROVE  job'[j].pc = "idle" /\ (race' = "none" => race = "none")
BY DEF TypeOK, End, Become, NoJob

LEMMA NoneRuns ==
    ASSUME \A i \in Job : job'[i].pc = "idle"
    PROVE  JobAlone' /\ \A i \in Job : Shown(i)' /\ Passed(i)'
BY DEF JobAlone, Shown, Passed, At, WorkerPc, InstallerPc

\* CoreParts for the state after a step.
LEMMA CorePartsNext ==
    ASSUME JobAlone', \A j \in Job : Shown(j)' /\ Passed(j)'
    PROVE  Core'
BY DEF Core, JobAlone, StatusShows, Progress, Shown, Passed, At, WorkerPc, InstallerPc

\* A step of the only running job that leaves the device alone.
LEMMA RunnerCore ==
    ASSUME TypeOK, Core, Reported, NEW j \in Job,
           \/ Retire(j) \/ Spawn(j) \/ RunBegin(j) \/ Inspect(j) \/ Prepare(j)
           \/ Record(j) \/ Report(j) \/ Unlink(j) \/ Announce(j) \/ Reboot(j)
    PROVE  Core' /\ Reported'
<1> USE DEF At, StartPc, WorkerPc, InstallerPc, web, device
<1>0. JobAlone /\ Shown(j) /\ Passed(j) /\ Reported
  BY CoreParts
<1>1. ASSUME NEW pc \in {"idle"} \union StartPc \union WorkerPc, job[j].pc # "idle", Goto(j, pc),
             Shown(j)', Passed(j)', Reported'
      PROVE  Core' /\ Reported'
  BY <1>0, <1>1, OneStep, CorePartsNext
<1>2. ASSUME job[j].pc # "idle", End(j), Reported'
      PROVE  Core' /\ Reported'
  <2>1. JobAlone' /\ \A i \in Job \ {j} : Shown(i)' /\ Passed(i)'
    BY <1>0, <1>2, OneStep
  <2>2. Shown(j)' /\ Passed(j)'
    BY <1>2, EndJob DEF Shown, Passed
  <2>. QED BY <1>2, <2>1, <2>2, CorePartsNext
<1>3. CASE Retire(j)
  <2>0. job[j].pc # "idle"
    BY <1>3 DEF Retire
  <2>1. CASE Goto(j, "spawn")
    <3>1. job'[j].pc = "spawn" /\ job'[j].package = job[j].package /\ race' = race
      BY <2>1, GotoJob
    <3>2. Shown(j)' /\ Passed(j)' /\ Reported'
      BY <1>0, <1>3, <2>1, <3>1 DEF Retire, Shown, Passed, Reported, Consistent, Part
    <3>. QED BY <1>1, <2>0, <2>1, <3>2
  <2>. QED BY <1>3, <2>1 DEF Retire
<1>4. CASE Spawn(j)
  <2>0. job[j].pc # "idle"
    BY <1>4 DEF Spawn
  <2>1. CASE Goto(j, "run")
    <3>1. job'[j].pc = "run" /\ job'[j].package = job[j].package /\ race' = race
      BY <2>1, GotoJob
    <3>2. Shown(j)' /\ Passed(j)' /\ Reported'
      BY <1>0, <1>4, <2>1, <3>1 DEF Spawn, Shown, Passed, Reported, Consistent, Part, Goto, End, Become, NoJob, TypeOK
    <3>. QED BY <1>1, <2>0, <2>1, <3>2
  <2>2. CASE End(j)
    <3>1. Reported'
      BY <1>0, <1>4, <2>2 DEF Spawn, Reported, Consistent, Shown, Goto, End, Become, NoJob, TypeOK
    <3>. QED BY <1>2, <2>0, <2>2, <3>1
  <2>. QED BY <1>4, <2>1, <2>2 DEF Spawn
<1>5. CASE RunBegin(j)
  <2>0. job[j].pc # "idle"
    BY <1>5 DEF RunBegin
  <2>1. CASE Goto(j, "inspect")
    <3>1. job'[j].pc = "inspect" /\ job'[j].package = job[j].package /\ race' = race
      BY <2>1, GotoJob
    <3>3. ~End(j)
      BY <3>1, EndJob
    <3>2. Shown(j)' /\ Passed(j)' /\ Reported'
      BY <1>0, <1>5, <3>1, <3>3 DEF RunBegin, Shown, Passed, Reported
    <3>. QED BY <1>1, <2>0, <2>1, <3>2
  <2>2. CASE End(j)
    <3>1. Reported'
      BY <1>0, <1>5, <2>2 DEF RunBegin, Reported, Consistent, Shown, Goto, End, Become, NoJob, TypeOK
    <3>. QED BY <1>2, <2>0, <2>2, <3>1
  <2>. QED BY <1>5, <2>1, <2>2 DEF RunBegin
<1>6. CASE Inspect(j)
  <2>0. job[j].pc # "idle"
    BY <1>6 DEF Inspect
  <2>1. CASE Goto(j, "prepare")
    <3>1. job'[j].pc = "prepare" /\ job'[j].package = job[j].package /\ race' = race
      BY <2>1, GotoJob
    <3>3. ~End(j)
      BY <3>1, EndJob
    <3>2. Shown(j)' /\ Passed(j)' /\ Reported'
      BY <1>0, <1>6, <3>1, <3>3 DEF Inspect, Shown, Passed, Reported
    <3>. QED BY <1>1, <2>0, <2>1, <3>2
  <2>2. CASE End(j)
    <3>1. Reported'
      BY <1>0, <1>6, <2>2 DEF Inspect, Reported, Consistent, Shown, Goto, End, Become, NoJob, TypeOK
    <3>. QED BY <1>2, <2>0, <2>2, <3>1
  <2>. QED BY <1>6, <2>1, <2>2 DEF Inspect
<1>7. CASE Prepare(j)
  <2>0. job[j].pc # "idle"
    BY <1>7 DEF Prepare
  <2>1. CASE Goto(j, "programs")
    <3>1. job'[j].pc = "programs" /\ job'[j].package = job[j].package /\ race' = race
      BY <2>1, GotoJob
    <3>3. Installable(job[j].package)
      <4>1. ~Goto(j, "report")
        BY <3>1, GotoJob
      <4>. QED BY <1>7, <4>1 DEF Prepare
    <3>2. Shown(j)' /\ Passed(j)' /\ Reported'
      BY <1>0, <1>7, <3>1, <3>3 DEF Prepare, Shown, Passed, Reported, Consistent, Installable, Newer
    <3>. QED BY <1>1, <2>0, <2>1, <3>2
  <2>2. CASE Goto(j, "report")
    <3>1. job'[j].pc = "report" /\ job'[j].package = job[j].package /\ race' = race
      BY <2>2, GotoJob
    <3>2. Shown(j)' /\ Passed(j)' /\ Reported'
      BY <1>0, <1>7, <2>2, <3>1 DEF Prepare, Shown, Passed, Reported, Consistent, Part, Installable, Newer, Goto, End, Become, NoJob, TypeOK
    <3>. QED BY <1>1, <2>0, <2>2, <3>2
  <2>. QED BY <1>7, <2>1, <2>2 DEF Prepare
<1>8. CASE Record(j)
  <2>0. job[j].pc # "idle"
    BY <1>8 DEF Record
  <2>1. CASE Goto(j, "unlink")
    <3>1. job'[j].pc = "unlink" /\ job'[j].package = job[j].package /\ race' = race
      BY <2>1, GotoJob
    <3>2. Shown(j)' /\ Passed(j)' /\ Reported'
      BY <1>0, <1>8, <2>1, <3>1 DEF Record, Shown, Passed, Reported, Consistent, Part
    <3>. QED BY <1>1, <2>0, <2>1, <3>2
  <2>. QED BY <1>8, <2>1 DEF Record
<1>9. CASE Unlink(j)
  <2>0. job[j].pc # "idle"
    BY <1>9 DEF Unlink
  <2>1. CASE Goto(j, "announce")
    <3>1. job'[j].pc = "announce" /\ job'[j].package = job[j].package /\ race' = race
      BY <2>1, GotoJob
    <3>2. Shown(j)' /\ Passed(j)' /\ Reported'
      BY <1>0, <1>9, <2>1, <3>1 DEF Unlink, Shown, Passed, Reported, Consistent, Part
    <3>. QED BY <1>1, <2>0, <2>1, <3>2
  <2>. QED BY <1>9, <2>1 DEF Unlink
<1>10. CASE Announce(j)
  <2>0. job[j].pc # "idle"
    BY <1>10 DEF Announce
  <2>1. job'[j].pc = "sleep" /\ job'[j].package = job[j].package
    BY <1>10 DEF Announce, TypeOK
  \* The parts are those of its package, whatever was reported before.
  <2>2. Consistent' /\ record' = tree'["version"]
    BY <1>0, <1>10 DEF Announce, Passed, Consistent, Part
  <2>3. Shown(j)' /\ Passed(j)' /\ Reported'
    BY <1>10, <2>1, <2>2 DEF Announce, Shown, Passed, Reported
  <2>4. JobAlone' /\ \A i \in Job \ {j} : Shown(i)' /\ Passed(i)'
    <3>1. \A i \in Job \ {j} : job'[i].pc = "idle"
      BY <1>0, <1>10 DEF Announce, TypeOK, JobAlone
    <3>. QED BY <3>1 DEF JobAlone, Shown, Passed
  <2>. QED BY <2>3, <2>4, CorePartsNext
<1>11. CASE Report(j)
  <2>1. job[j].pc # "idle" /\ End(j) /\ Reported'
    BY <1>11 DEF Report, Reported
  <2>. QED BY <1>2, <2>1
<1>12. CASE Reboot(j)
  <2>1. Reported'
    BY <1>0, <1>12 DEF Reboot, Reported, Consistent, End, Become
  <2>2. CASE End(j)
    BY <1>2, <1>12, <2>1, <2>2 DEF Reboot
  <2>3. CASE Become([i \in Job |-> NoJob])
    BY <2>1, <2>3, NoneRuns, CorePartsNext DEF Become, NoJob
  <2>. QED BY <1>12, <2>2, <2>3 DEF Reboot
<1>. QED BY <1>3, <1>4, <1>5, <1>6, <1>7, <1>8, <1>9, <1>10, <1>11, <1>12

\* install.sh: while it changes the device the status is "installing".
LEMMA InstallerCore ==
    ASSUME TypeOK, Core, NEW j \in Job, Installer(j)
    PROVE  Core' /\ Reported' /\ tree'["version"] >= tree["version"]
<1> USE DEF At, StartPc, WorkerPc, InstallerPc, web, device
<1>0. JobAlone /\ Shown(j) /\ Passed(j)
  BY CoreParts
<1>1. status = "installing" /\ status' = status /\ job[j].pc # "idle"
  BY <1>0 DEF Shown, Installer, BeginCopy, EndCopy, Checks, InstallerStops
<1>2. Reported'
  BY <1>1 DEF Reported
<1>3. Version[job[j].package] \in Nat /\ tree \in [Part -> Nat] /\ tree["version"] >= tree["version"]
  <2>1. tree["version"] \in Nat
    BY DEF TypeOK, Part
  <2>2. job[j].package \in Package
    BY <1>1 DEF TypeOK
  <2>3. tree \in [Part -> Nat]
    BY DEF TypeOK
  <2>4. tree["version"] >= tree["version"]
    BY <2>1
  <2>. QED BY <2>2, <2>3, <2>4, VersionAssumption
\* No other job whose files could mix with those of this one.
<1>12. \A i \in Job \ {j} : At(i, "idle")
  BY <1>0, <1>1 DEF JobAlone
<1>4. ASSUME NEW pc \in InstallerPc \union {"record", "report"}, Goto(j, pc), Passed(j)'
      PROVE  Core' /\ Reported'
  <2>1. Shown(j)'
    BY <1>1, <1>4, GotoJob DEF Shown
  <2>. QED BY <1>0, <1>1, <1>2, <1>4, <2>1, OneStep, CorePartsNext
<1>5. CASE BeginCopy(j, "programs", "copying programs")
  <2>1. Goto(j, "copying programs")
    BY <1>5 DEF BeginCopy
  <2>2. job'[j].pc = "copying programs" /\ job'[j].package = job[j].package
    BY <2>1, GotoJob
  <2>3. tree'["version"] = tree["version"] /\ record' = record /\ job[j].pc = "programs"
    BY <1>3, <1>5 DEF BeginCopy, Part
  <2>4. Passed(j)'
    BY <1>0, <2>2, <2>3 DEF Passed
  <2>5. tree'["version"] >= tree["version"]
    BY <1>3, <2>3 DEF Part
  <2>. QED BY <1>4, <2>1, <2>4, <2>5
<1>6. CASE EndCopy(j, "copying programs", "programs", "version")
  <2>1. Goto(j, "version")
    BY <1>6 DEF EndCopy
  <2>2. job'[j].pc = "version" /\ job'[j].package = job[j].package
    BY <2>1, GotoJob
  <2>3. tree'["version"] = tree["version"] /\ tree'["programs"] = Version[job[j].package] /\ record' = record /\ job[j].pc = "copying programs"
    BY <1>3, <1>6, <1>12 DEF EndCopy, Part
  <2>4. Passed(j)'
    BY <1>0, <2>2, <2>3 DEF Passed
  <2>5. tree'["version"] >= tree["version"]
    BY <1>3, <2>3 DEF Part
  <2>. QED BY <1>4, <2>1, <2>4, <2>5
<1>7. CASE EndCopy(j, "version", "version", "web")
  <2>1. Goto(j, "web")
    BY <1>7 DEF EndCopy
  <2>2. job'[j].pc = "web" /\ job'[j].package = job[j].package
    BY <2>1, GotoJob
  <2>3. Passed(j)' /\ tree'["version"] >= tree["version"]
    BY <1>0, <1>3, <1>7, <2>2 DEF Passed, EndCopy, Part
  <2>. QED BY <1>4, <2>1, <2>3
<1>8. CASE BeginCopy(j, "web", "copying web")
  <2>1. Goto(j, "copying web")
    BY <1>8 DEF BeginCopy
  <2>2. job'[j].pc = "copying web" /\ job'[j].package = job[j].package
    BY <2>1, GotoJob
  <2>3. tree'["version"] = tree["version"] /\ tree'["programs"] = tree["programs"] /\ record' = record /\ job[j].pc = "web"
    BY <1>3, <1>8 DEF BeginCopy, Part
  <2>4. Passed(j)'
    BY <1>0, <2>2, <2>3 DEF Passed
  <2>5. tree'["version"] >= tree["version"]
    BY <1>3, <2>3 DEF Part
  <2>. QED BY <1>4, <2>1, <2>4, <2>5
<1>9. CASE EndCopy(j, "copying web", "web", "checks")
  <2>1. Goto(j, "checks")
    BY <1>9 DEF EndCopy
  <2>2. job'[j].pc = "checks" /\ job'[j].package = job[j].package
    BY <2>1, GotoJob
  <2>3. tree'["version"] = tree["version"] /\ tree'["programs"] = tree["programs"] /\ tree'["web"] = Version[job[j].package] /\ record' = record /\ job[j].pc = "copying web"
    BY <1>3, <1>9, <1>12 DEF EndCopy, Part
  <2>4. Passed(j)'
    BY <1>0, <2>2, <2>3 DEF Passed
  <2>5. tree'["version"] >= tree["version"]
    BY <1>3, <2>3 DEF Part
  <2>. QED BY <1>4, <2>1, <2>4, <2>5
<1>10. CASE Checks(j)
  <2>1. Goto(j, "record")
    BY <1>10 DEF Checks
  <2>2. job'[j].pc = "record" /\ job'[j].package = job[j].package
    BY <2>1, GotoJob
  <2>3. Passed(j)' /\ tree'["version"] >= tree["version"]
    BY <1>0, <1>3, <1>10, <2>2 DEF Passed, Checks, Part
  <2>. QED BY <1>4, <2>1, <2>3
<1>11. CASE InstallerStops(j)
  <2>1. Goto(j, "report")
    BY <1>11 DEF InstallerStops
  <2>2. job'[j].pc = "report" /\ job'[j].package = job[j].package
    BY <2>1, GotoJob
  <2>3. tree' = tree /\ record' = record
    BY <1>3, <1>11 DEF InstallerStops, Part
  <2>4. Passed(j)'
    BY <1>0, <2>2, <2>3 DEF Passed
  <2>5. tree'["version"] >= tree["version"]
    BY <1>3, <2>3 DEF Part
  <2>. QED BY <1>4, <2>1, <2>4, <2>5
<1>. QED BY <1>5, <1>6, <1>7, <1>8, <1>9, <1>10, <1>11 DEF Installer

\* Once starts have overtaken each other that is over when no job is left, and
\* forgotten only when a later update has been announced as completed.
LEMMA RaceStep ==
    ASSUME TypeOK, [Next]_vars
    PROVE  /\ race = "on" => \/ race' = "on"
                             \/ race' = "over" /\ \A i \in Job : job'[i].pc = "idle"
           /\ race = "over" => race' # "none" \/ \E j \in Job : Announce(j)
<1> USE DEF web, device, At
<1>1. ASSUME NEW j \in Job, End(j) \/ Become([i \in Job |-> NoJob])
      PROVE  /\ race = "on" => \/ race' = "on"
                               \/ race' = "over" /\ \A i \in Job : job'[i].pc = "idle"
             /\ race = "over" => race' # "none"
  BY <1>1 DEF End, Become, NoJob
<1>2. ASSUME NEW j \in Job, Start(j) \/ Run(j), ~Announce(j), race' # race
      PROVE  End(j) \/ Become([i \in Job |-> NoJob])
  BY <1>2 DEF Start, Run, Retire, Spawn, RunBegin, Inspect, Prepare, Installer, BeginCopy, EndCopy,
     Checks, InstallerStops, Record, Report, Unlink, Reboot, Goto
<1>3. CASE \E j \in Job : Start(j) \/ Run(j)
  <2>1. PICK j \in Job : Start(j) \/ Run(j)
    BY <1>3
  <2>2. CASE Announce(j)
    BY <2>2 DEF Announce
  <2>3. CASE ~Announce(j)
    BY <1>1, <1>2, <2>1, <2>3
  <2>. QED BY <2>2, <2>3
<1>4. CASE \E i, j \in Job : WritesCollide(i, j)
  <2>1. PICK i \in Job, j \in Job : WritesCollide(i, j)
    BY <1>4
  <2>. QED BY <2>1 DEF WritesCollide, Become
<1>5. CASE Restart
  BY <1>5 DEF Restart, Become, NoJob
<1>6. ASSUME NEW b \in Browser, NEW j \in Job, StartCheck(b, j)
      PROVE  race' = race \/ race' = "on"
  BY <1>6 DEF StartCheck
<1>7. CASE \/ \E b \in Browser : (\E p \in Package : Upload(b, p)) \/ Answer(b)
           \/ LogsConfigure \/ Age \/ UNCHANGED vars
  BY <1>7 DEF Upload, Answer, LogsConfigure, Age, vars
<1>. QED BY <1>3, <1>4, <1>5, <1>6, <1>7 DEF Next

\* The steps of a device on which no two jobs run.
LEMMA CoreStep ==
    ASSUME TypeOK, Core, Reported, race # "on", [Next]_vars
    PROVE  /\ race' # "on" => Core' /\ tree'["version"] >= tree["version"]
           /\ Reported'
<1> USE DEF At, web, device
<1>0. JobAlone /\ \A j \in Job : Shown(j) /\ Passed(j)
  BY CoreParts
<1>1. tree["version"] >= tree["version"]
  <2>1. tree["version"] \in Nat
    BY DEF TypeOK, Part
  <2>. QED BY <2>1
\* A step that changes neither a job nor what the invariant says of jobs.
<1>2. ASSUME UNCHANGED <<job, status, tree, record, race>>
      PROVE  Core' /\ Reported' /\ tree'["version"] >= tree["version"]
  <2>1. Core'
    BY <1>2 DEF Core, JobAlone, StatusShows, Progress
  <2>2. Reported'
    BY <1>2 DEF Reported, Consistent
  <2>. QED BY <1>1, <1>2, <2>1, <2>2
<1>3. ASSUME NEW b \in Browser, NEW p \in Package, Upload(b, p)
      PROVE  Core' /\ Reported' /\ tree'["version"] >= tree["version"]
  BY <1>2, <1>3 DEF Upload
<1>4. ASSUME NEW b \in Browser, NEW j \in Job, StartCheck(b, j)
      PROVE  /\ race' # "on" => Core' /\ tree'["version"] >= tree["version"]
             /\ Reported'
  <2>0. Reported' /\ tree' = tree
    BY <1>4 DEF StartCheck, Reported, Consistent
  <2> SUFFICES ASSUME race' # "on" PROVE Core'
    BY <1>1, <2>0
  \* The status leaves no worker that could be running, and race no start.
  <2>1. \A i \in Job : job[i].pc = "idle"
    <3> SUFFICES ASSUME NEW i \in Job PROVE job[i].pc = "idle"
      OBVIOUS
    <3>1. job[i].pc \notin StartPc /\ status \notin {"verifying", "installing", "rebooting"}
      BY <1>4 DEF StartCheck, Overtakes, Busy
    <3>2. job[i].pc \notin WorkerPc
      BY <1>0, <3>1 DEF Shown, WorkerPc, InstallerPc
    <3>. QED BY <3>1, <3>2 DEF TypeOK
  <2>2. \A i \in Job \ {j} : job'[i].pc = "idle"
    BY <1>4, <2>1 DEF StartCheck, TypeOK
  <2>3. job'[j].pc = IF status = "stale" THEN "retire" ELSE "spawn"
    BY <1>4 DEF StartCheck, TypeOK
  <2>4. JobAlone'
    BY <2>2 DEF JobAlone
  <2>5. \A i \in Job \ {j} : Shown(i)' /\ Passed(i)'
    BY <2>2 DEF Shown, Passed, WorkerPc, InstallerPc
  <2>6. status \in {"idle", "failed", "stale"}
    BY <1>4 DEF StartCheck, Busy, TypeOK, Status
  <2>7. Shown(j)' /\ Passed(j)'
    <3>1. status' = status
      BY <1>4 DEF StartCheck
    <3>2. CASE status = "stale"
      BY <2>3, <3>1, <3>2 DEF Shown, Passed, WorkerPc, InstallerPc
    <3>3. CASE status \in {"idle", "failed"}
      BY <2>3, <3>1, <3>3 DEF Shown, Passed, WorkerPc, InstallerPc
    <3>. QED BY <2>6, <3>2, <3>3
  <2>. QED BY <2>4, <2>5, <2>7, CorePartsNext
<1>5. ASSUME NEW b \in Browser, Answer(b)
      PROVE  Core' /\ Reported' /\ tree'["version"] >= tree["version"]
  BY <1>2, <1>5 DEF Answer
<1>6. CASE LogsConfigure
  BY <1>2, <1>6 DEF LogsConfigure
<1>7. ASSUME NEW j \in Job, Start(j) \/ Run(j)
      PROVE  Core' /\ Reported' /\ tree'["version"] >= tree["version"]
  <2>1. CASE Installer(j)
    BY <2>1, InstallerCore
  <2>2. CASE \/ Retire(j) \/ Spawn(j) \/ RunBegin(j) \/ Inspect(j) \/ Prepare(j)
             \/ Record(j) \/ Report(j) \/ Unlink(j) \/ Announce(j) \/ Reboot(j)
    <3>1. Core' /\ Reported'
      BY <2>2, RunnerCore
    <3>2. tree' = tree
      BY <2>2 DEF Retire, Spawn, RunBegin, Inspect, Prepare, Record, Report, Unlink, Announce,
         Reboot
    <3>. QED BY <1>1, <3>1, <3>2
  <2>. QED BY <1>7, <2>1, <2>2 DEF Start, Run
<1>8. CASE Restart
  <2>1. Reported' /\ tree' = tree
    BY <1>8 DEF Restart, Become, Reported, Consistent
  <2>2. \A i \in Job : job'[i].pc = "idle"
    BY <1>8 DEF Restart, Become, NoJob
  <2>. QED BY <1>1, <2>1, <2>2, NoneRuns, CorePartsNext
<1>9. CASE Age
  <2>1. \A i \in Job : job[i].pc = "idle"
    <3> SUFFICES ASSUME NEW i \in Job PROVE job[i].pc = "idle"
      OBVIOUS
    <3>. QED BY <1>0, <1>9 DEF Age, Shown, TypeOK, StartPc, WorkerPc, InstallerPc
  <2>2. \A i \in Job : job'[i].pc = "idle"
    BY <1>9, <2>1 DEF Age
  <2>3. Reported' /\ tree' = tree
    BY <1>9 DEF Age, Reported, Consistent
  <2>. QED BY <1>1, <2>2, <2>3, NoneRuns, CorePartsNext
<1>10. CASE UNCHANGED vars
  BY <1>2, <1>10 DEF vars
\* A collision takes two running jobs.
<1>11. ASSUME NEW i \in Job, NEW j \in Job, WritesCollide(i, j)
       PROVE  FALSE
  BY <1>0, <1>11 DEF WritesCollide, Writes, JobAlone
<1>. QED BY <1>3, <1>4, <1>5, <1>6, <1>7, <1>8, <1>9, <1>10, <1>11 DEF Next

\* install.sh: VERSION is one file, never a part of one.
LEMMA VersionWhole ==
    ASSUME TypeOK, tree["version"] # Partial, [Next]_vars
    PROVE  tree'["version"] # Partial
<1> USE DEF web, device, At
<1>1. CASE tree' = tree
  BY <1>1
<1>2. ASSUME NEW j \in Job, NEW part \in {"programs", "web"}, NEW copying,
             BeginCopy(j, part, copying)
      PROVE  tree'["version"] # Partial
  BY <1>2 DEF BeginCopy, TypeOK, Part
<1>3. ASSUME NEW j \in Job, NEW part \in {"programs", "web"}, NEW copying, NEW next,
             EndCopy(j, copying, part, next)
      PROVE  tree'["version"] # Partial
  BY <1>3 DEF EndCopy, TypeOK, Part
<1>4. ASSUME NEW j \in Job, EndCopy(j, "version", "version", "web")
      PROVE  tree'["version"] # Partial
  <2>1. job[j].package \in Package
    BY <1>4 DEF EndCopy, TypeOK
  <2>2. Version[job[j].package] # 0
    BY <2>1, VersionAssumption
  <2>. QED BY <1>4, <2>2 DEF EndCopy, TypeOK, Part, Partial
<1>5. ASSUME NEW j \in Job, Start(j) \/ Run(j)
      PROVE  tree'["version"] # Partial
  <2>1. CASE Installer(j)
    <3>1. CASE Checks(j) \/ InstallerStops(j)
      BY <1>1, <3>1 DEF Checks, InstallerStops
    <3>. QED BY <1>2, <1>3, <1>4, <2>1, <3>1 DEF Installer
  <2>2. CASE ~Installer(j)
    BY <1>1, <1>5, <2>2 DEF Start, Run, Retire, Spawn, RunBegin, Inspect, Prepare, Record, Report,
       Unlink, Announce, Reboot
  <2>. QED BY <2>1, <2>2
<1>6. CASE ~\E j \in Job : Start(j) \/ Run(j)
  BY <1>1, <1>6 DEF Next, Upload, StartCheck, Answer, LogsConfigure, WritesCollide, Restart, Age, vars
<1>. QED BY <1>5, <1>6

\* Nor does the web application overtake VERSION.
LEMMA WebStep ==
    ASSUME InductiveInv, race = "none", [Next]_vars, race' = "none"
    PROVE  tree'["web"] <= tree'["version"]
<1> USE DEF web, device, At
<1>1. /\ tree \in [Part -> Nat] /\ tree["web"] \in Nat /\ tree["version"] \in Nat
      /\ tree["web"] <= tree["version"]
  BY DEF InductiveInv, TypeOK, Part, WebBehind
<1>2. CASE tree' = tree
  BY <1>1, <1>2
<1>3. ASSUME NEW j \in Job, NEW part \in {"programs", "web"}, NEW copying,
             BeginCopy(j, part, copying)
      PROVE  tree'["web"] <= tree'["version"]
  BY <1>1, <1>3 DEF BeginCopy, Part, Partial
<1>4. ASSUME NEW j \in Job, EndCopy(j, "copying programs", "programs", "version")
      PROVE  tree'["web"] <= tree'["version"]
  BY <1>1, <1>4 DEF EndCopy, Part, Partial
<1>5. ASSUME NEW j \in Job, job[j].pc \in {"version", "copying web"}
      PROVE  /\ Version[job[j].package] \in Nat
             /\ At(j, "version") => Version[job[j].package] > tree["version"]
             /\ At(j, "copying web") => tree["version"] = Version[job[j].package]
  <2>1. job[j].package \in Package
    BY <1>5 DEF InductiveInv, TypeOK
  <2>2. Passed(j)
    BY CoreParts DEF InductiveInv
  <2>. QED BY <1>5, <2>1, <2>2, VersionAssumption DEF Passed
<1>6. ASSUME NEW j \in Job, EndCopy(j, "version", "version", "web")
      PROVE  tree'["web"] <= tree'["version"]
  <2>1. tree'["version"] = Version[job[j].package] /\ tree'["web"] = tree["web"]
    BY <1>1, <1>6 DEF EndCopy, Part
  <2>2. Version[job[j].package] \in Nat /\ Version[job[j].package] > tree["version"]
    BY <1>5, <1>6 DEF EndCopy
  <2>. QED BY <1>1, <2>1, <2>2
<1>7. ASSUME NEW j \in Job, EndCopy(j, "copying web", "web", "checks")
      PROVE  tree'["web"] <= tree'["version"]
  <2>1. Version[job[j].package] = tree["version"]
    BY <1>5, <1>7 DEF EndCopy
  <2>2. tree'["version"] = tree["version"]
    BY <1>1, <1>7 DEF EndCopy, Part
  <2>3. tree'["web"] \in {tree["version"], 0}
    BY <1>1, <1>7, <2>1 DEF EndCopy, Part, Partial
  <2>. QED BY <1>1, <2>2, <2>3
<1>8. ASSUME NEW j \in Job, Start(j) \/ Run(j)
      PROVE  tree'["web"] <= tree'["version"]
  <2>1. CASE Installer(j)
    <3>1. CASE Checks(j) \/ InstallerStops(j)
      BY <1>2, <3>1 DEF Checks, InstallerStops
    <3>. QED BY <1>3, <1>4, <1>6, <1>7, <2>1, <3>1 DEF Installer
  <2>2. CASE ~Installer(j)
    BY <1>2, <1>8, <2>2 DEF Start, Run, Retire, Spawn, RunBegin, Inspect, Prepare, Record, Report,
       Unlink, Announce, Reboot
  <2>. QED BY <2>1, <2>2
<1>9. CASE ~\E j \in Job : Start(j) \/ Run(j)
  BY <1>2, <1>9 DEF Next, Upload, StartCheck, Answer, LogsConfigure, WritesCollide, Restart, Age, vars
<1>. QED BY <1>8, <1>9

\* A completed update is one in one piece: it ends what a race has left.
LEMMA AnnounceHeals ==
    ASSUME InductiveInv, race # "on", NEW j \in Job, Announce(j)
    PROVE  /\ \A part \in Part : tree[part] = Version[job[j].package]
           /\ tree' = tree
           /\ tree["version"] \in Nat
<1>1. Passed(j)
  BY CoreParts DEF InductiveInv
<1>. QED BY <1>1 DEF Passed, Announce, At, Part, InductiveInv, TypeOK, device

LEMMA InvStep ==
    ASSUME InductiveInv, [Next]_vars
    PROVE  /\ InductiveInv'
           /\ race' # "on" => tree'["version"] >= tree["version"] \/ race = "on"
<1>1. TypeOK /\ TypeOK' /\ (race # "on" => Core) /\ Reported /\ WebBehind
  BY TypeStep DEF InductiveInv, Reported, ReportedTrue, CompletedIsRecorded
<1>2. CASE race = "on"
  <2>1. race' = "on" \/ (race' = "over" /\ \A i \in Job : job'[i].pc = "idle")
    BY <1>1, <1>2, RaceStep
  <2>2. (race' # "on" => Core') /\ race' # "none"
    BY <2>1, NoneRuns, CorePartsNext
  <2>3. tree'["version"] # Partial
    BY <1>1, VersionWhole DEF WebBehind
  <2>. QED BY <1>1, <1>2, <2>2, <2>3 DEF InductiveInv, ReportedTrue, CompletedIsRecorded, WebBehind
<1>3. CASE race # "on"
  <2>1. Core
    BY <1>1, <1>3
  <2>2. (race' # "on" => Core' /\ tree'["version"] >= tree["version"]) /\ Reported'
    BY <1>1, <1>3, <2>1, CoreStep
  <2>3. ReportedTrue' /\ CompletedIsRecorded'
    BY <2>2 DEF Reported, ReportedTrue, CompletedIsRecorded
  <2>4. tree'["version"] # Partial
    BY <1>1, VersionWhole DEF WebBehind
  <2>5. ASSUME race' = "none" PROVE tree'["web"] <= tree'["version"]
    <3>1. CASE race = "none"
      BY <2>5, <3>1, WebStep
    <3>2. CASE race = "over"
      <4>1. PICK j \in Job : Announce(j)
        BY <1>1, <2>5, <3>2, RaceStep
      <4>. QED BY <1>3, <4>1, AnnounceHeals DEF Part
    <3>. QED BY <1>1, <1>3, <3>1, <3>2 DEF TypeOK
  <2>. QED BY <1>1, <2>2, <2>3, <2>4, <2>5 DEF InductiveInv, WebBehind
<1>. QED BY <1>2, <1>3

\* A device as delivered is of one version and nothing runs.
LEMMA InvInit == Init => InductiveInv
<1> SUFFICES ASSUME Init PROVE InductiveInv
  OBVIOUS
<1>1. \A j \in Job : job[j].pc = "idle"
  BY DEF Init, NoJob
<1>2. Consistent /\ status = "idle"
  BY DEF Init, Consistent, Part
<1>3. Core
  BY <1>1 DEF Core, JobAlone, StatusShows, Progress, At, WorkerPc, InstallerPc
<1>4. WebBehind
  BY VersionAssumption DEF Init, WebBehind, Part, Partial
<1>. QED BY <1>2, <1>3, <1>4, TypeInit DEF InductiveInv, ReportedTrue, CompletedIsRecorded

\* Types, one running job, a status file that shows it, and an installer whose
\* finished parts are those of its package, but for jobs that overtook each
\* other; and what the status file says until then.
THEOREM InductiveInvCorrect == Spec => []InductiveInv
<1>1. InductiveInv /\ [Next]_vars => InductiveInv'
  BY InvStep
<1>. QED BY <1>1, InvInit, PTL DEF Spec

\* consolepi-release-runner: the status file excludes a second worker for every
\* start that does not overtake another one, through crashes, failures, reboots
\* and after starts that did.
THEOREM LockKeptCorrect == Spec => []LockKept
<1>1. InductiveInv => LockKept
  <2>1. "idle" \notin WorkerPc
    BY DEF WorkerPc, InstallerPc
  <2>. QED BY <2>1 DEF InductiveInv, Core, JobAlone, LockKept, OneInstaller
<1>. QED BY <1>1, InductiveInvCorrect, PTL

\* What the web interface reports as completed is completely installed, until
\* starts overtake each other and again from the next completed update on.
THEOREM ReportedTrueCorrect == Spec => []ReportedTrue
<1>1. InductiveInv => ReportedTrue
  BY DEF InductiveInv
<1>. QED BY <1>1, InductiveInvCorrect, PTL

\* ... and is what installed.json names.
THEOREM CompletedIsRecordedCorrect == Spec => []CompletedIsRecorded
<1>1. InductiveInv => CompletedIsRecorded
  BY DEF InductiveInv
<1>. QED BY <1>1, InductiveInvCorrect, PTL

\* Replacing a part ends no job.
LEMMA LastEnds ==
    ASSUME TypeOK, [Next]_vars, \A i \in Job : job'[i].pc = "idle"
    PROVE  tree' = tree
<1> USE DEF web, device, At
<1>1. ASSUME NEW j \in Job, NEW pc \in InstallerPc, Goto(j, pc)
      PROVE  FALSE
  <2>1. job'[j].pc = pc
    BY <1>1, GotoJob
  <2>. QED BY <2>1 DEF InstallerPc
<1>2. ASSUME NEW j \in Job, Start(j) \/ Run(j)
      PROVE  tree' = tree
  <2>1. CASE Installer(j)
    <3>1. \/ Checks(j) \/ InstallerStops(j)
          \/ Goto(j, "copying programs") \/ Goto(j, "version") \/ Goto(j, "web")
          \/ Goto(j, "copying web") \/ Goto(j, "checks")
      BY <2>1 DEF Installer, BeginCopy, EndCopy
    <3>. QED BY <1>1, <3>1 DEF Checks, InstallerStops, InstallerPc
  <2>2. CASE ~Installer(j)
    BY <1>2, <2>2 DEF Start, Run, Retire, Spawn, RunBegin, Inspect, Prepare, Record, Report,
       Unlink, Announce, Reboot
  <2>. QED BY <2>1, <2>2
<1>3. CASE ~\E j \in Job : Start(j) \/ Run(j)
  BY <1>3 DEF Next, Upload, StartCheck, Answer, LogsConfigure, WritesCollide, Restart, Age, vars
<1>. QED BY <1>2, <1>3

\* consolepi-release install and install.sh: the version compared before the
\* backup is still the device's when VERSION is replaced, but for workers of
\* starts that overtook each other.
THEOREM VersionGrowsCorrect == Spec => VersionGrows
<1>1. InductiveInv /\ [Next]_vars => [race' # "on" => tree'["version"] >= tree["version"]]_vars
  <2> SUFFICES ASSUME InductiveInv, [Next]_vars, race' # "on"
               PROVE  tree'["version"] >= tree["version"]
    OBVIOUS
  <2>1. CASE race # "on"
    BY <2>1, InvStep
  \* The last job of a race ends.
  <2>2. CASE race = "on"
    <3>1. \A i \in Job : job'[i].pc = "idle"
      BY <2>2, RaceStep DEF InductiveInv
    <3>2. tree["version"] \in Nat
      BY DEF InductiveInv, TypeOK, Part
    <3>3. tree' = tree
      BY <3>1, LastEnds DEF InductiveInv
    <3>. QED BY <3>2, <3>3
  <2>. QED BY <2>1, <2>2
<1>. QED BY <1>1, InductiveInvCorrect, PTL DEF Spec, VersionGrows

-----------------------------------------------------------------------------
(* The status file keeps ReleasePromise.                                   *)

LEMMA Words ==
    /\ status = "idle" => Word = "ready"
    /\ status \in {"verifying", "installing"} => Word = "busy"
    /\ status = "failed" => Word = "failed"
    /\ status \in {"rebooting", "stale"} => Word = "done"
BY DEF Word

LEMMA WordsNext ==
    /\ status' = "idle" => Word' = "ready"
    /\ status' \in {"verifying", "installing"} => Word' = "busy"
    /\ status' = "failed" => Word' = "failed"
    /\ status' \in {"rebooting", "stale"} => Word' = "done"
BY DEF Word

LEMMA SameWord == status' = status => Word' = Word
BY DEF Word

LEMMA SameTree == tree' = tree => Consistent' = Consistent
BY DEF Consistent

\* In one piece: the programs and the web application are of VERSION.
LEMMA Pieces ==
    /\ Consistent <=> tree["programs"] = tree["version"] /\ tree["web"] = tree["version"]
    /\ Consistent' <=> tree'["programs"] = tree'["version"] /\ tree'["web"] = tree'["version"]
    /\ Consistent \in BOOLEAN /\ Consistent' \in BOOLEAN
BY DEF Consistent, Part

\* What a step of the promise may do, in terms of this module.
MayMend ==
    \/ tree'["version"] = tree["version"] /\ ~Consistent'
    \/ tree'["version"] = tree["version"] /\ ~Consistent /\ Consistent'
    \/ tree'["version"] > tree["version"] /\ ~Consistent /\ ~Consistent'

LEMMA MendIsPromised ==
    ASSUME Word = "busy", Word' = "busy", MayMend
    PROVE  Promise!Next
<1>1. CASE tree'["version"] = tree["version"] /\ ~Consistent'
  BY <1>1 DEF Promise!Next, Promise!Break
<1>2. CASE tree'["version"] = tree["version"] /\ ~Consistent /\ Consistent'
  BY <1>2 DEF Promise!Next, Promise!Mend
<1>3. CASE tree'["version"] > tree["version"] /\ ~Consistent /\ ~Consistent'
  <2>1. Consistent' = Consistent
    BY <1>3, Pieces
  <2>. QED BY <1>3, <2>1 DEF Promise!Next, Promise!Advance
<1>. QED BY <1>1, <1>2, <1>3 DEF MayMend

\* install.sh: programs, then VERSION, then the web application.
LEMMA InstallerPromised ==
    ASSUME TypeOK, Core, WebBehind, race = "none", NEW j \in Job, Installer(j)
    PROVE  Promise!Next \/ UNCHANGED Promise!vars
<1> DEFINE v == Version[job[j].package]
<1> USE DEF At
<1>0. Shown(j) /\ Passed(j)
  BY CoreParts
<1>1. status = "installing" /\ status' = status /\ job[j].pc # "idle"
  BY <1>0 DEF Shown, Installer, BeginCopy, EndCopy, Checks, InstallerStops, web, device,
              WorkerPc, InstallerPc
<1>2. Word = "busy" /\ Word' = "busy"
  BY <1>1, Words, WordsNext
<1>3. /\ tree \in [Part -> Nat] /\ v \in Nat \ {0}
      /\ tree["programs"] \in Nat /\ tree["version"] \in Nat /\ tree["web"] \in Nat
  <2>1. tree \in [Part -> Nat]
    BY DEF TypeOK
  <2>2. job[j].package \in Package
    BY <1>1 DEF TypeOK
  <2>3. v \in Nat \ {0}
    BY <2>2, VersionAssumption
  <2>. QED BY <2>1, <2>3 DEF Part
<1>4. MayMend => Promise!Next \/ UNCHANGED Promise!vars
  BY <1>2, MendIsPromised
<1>11. \A i \in Job \ {j} : At(i, "idle")
  BY <1>1, CoreParts DEF JobAlone
<1>5. CASE BeginCopy(j, "programs", "copying programs")
  <2>1. /\ tree'["programs"] = 0 /\ tree'["version"] = tree["version"]
        /\ tree'["web"] = tree["web"] /\ v > tree["version"]
    BY <1>0, <1>3, <1>5 DEF BeginCopy, Part, Partial, Passed
  <2>2. tree["version"] # 0
    BY DEF WebBehind, Partial
  <2>3. ~Consistent'
    BY <1>3, <2>1, <2>2, Pieces
  <2>. QED BY <1>4, <2>1, <2>3 DEF MayMend
<1>6. CASE EndCopy(j, "copying programs", "programs", "version")
  <2>1. /\ tree'["programs"] = v /\ tree'["version"] = tree["version"]
        /\ tree'["web"] = tree["web"] /\ v > tree["version"]
    BY <1>0, <1>3, <1>6, <1>11 DEF EndCopy, Part, Passed
  <2>2. ~Consistent'
    BY <1>3, <2>1, Pieces
  <2>. QED BY <1>4, <2>1, <2>2 DEF MayMend
<1>7. CASE EndCopy(j, "version", "version", "web")
  <2>1. /\ tree'["programs"] = tree["programs"] /\ tree'["version"] = v
        /\ tree'["web"] = tree["web"] /\ v > tree["version"] /\ tree["programs"] = v
    BY <1>0, <1>3, <1>7, <1>11 DEF EndCopy, Part, Passed
  <2>2. tree["web"] < v
    BY <1>3, <2>1 DEF WebBehind
  <2>3. ~Consistent /\ ~Consistent'
    BY <1>3, <2>1, <2>2, Pieces
  <2>. QED BY <1>4, <2>1, <2>3 DEF MayMend
<1>8. CASE BeginCopy(j, "web", "copying web")
  <2>1. /\ tree'["version"] = tree["version"] /\ tree'["web"] = 0 /\ tree["version"] = v
    BY <1>0, <1>3, <1>8 DEF BeginCopy, Part, Partial, Passed
  <2>2. ~Consistent'
    BY <1>3, <2>1, Pieces
  <2>. QED BY <1>4, <2>1, <2>2 DEF MayMend
<1>9. CASE EndCopy(j, "copying web", "web", "checks")
  <2>1. /\ tree'["programs"] = tree["programs"] /\ tree'["version"] = tree["version"]
        /\ tree'["web"] = v /\ tree["version"] = v /\ tree["programs"] = v
    BY <1>0, <1>3, <1>9, <1>11 DEF EndCopy, Part, Passed
  <2>2. Consistent'
    BY <1>3, <2>1, Pieces
  <2>3. CASE Consistent
    <3>1. Consistent' = Consistent /\ Word' = Word
      BY <1>2, <2>2, <2>3, Pieces
    <3>. QED BY <2>1, <2>2, <3>1 DEF Promise!vars
  <2>4. CASE ~Consistent
    BY <1>4, <2>1, <2>2, <2>4 DEF MayMend
  <2>. QED BY <2>3, <2>4
<1>10. CASE Checks(j) \/ InstallerStops(j)
  <2>1. tree' = tree
    BY <1>10 DEF Checks, InstallerStops, device
  <2>2. Word' = Word
    BY <1>2
  <2>. QED BY <2>1, <2>2, SameTree DEF Promise!vars
<1>. QED BY <1>5, <1>6, <1>7, <1>8, <1>9, <1>10 DEF Installer

\* The other steps leave the device alone; the status goes through the words.
LEMMA RunnerPromised ==
    ASSUME TypeOK, Core, NEW j \in Job, Start(j) \/ Run(j), ~Installer(j)
    PROVE  Promise!Next \/ UNCHANGED Promise!vars
<1> USE DEF At, device
<1>0. Shown(j) /\ Passed(j)
  BY CoreParts
<1>1. tree' = tree
  BY DEF Start, Run, Retire, Spawn, RunBegin, Inspect, Prepare, Record, Report, Unlink,
         Announce, Reboot
<1>2. Consistent' = Consistent /\ tree'["version"] = tree["version"]
  BY <1>1, SameTree
<1>3. CASE status' = status
  BY <1>2, <1>3, SameWord DEF Promise!vars
<1>4. CASE Retire(j)
  <2>1. Word = "done" /\ Word' = "ready"
    BY <1>0, <1>4, Words, WordsNext DEF Retire, Shown
  <2>. QED BY <1>2, <2>1 DEF Promise!Next, Promise!Acknowledge
<1>5. CASE RunBegin(j) /\ status' = "verifying"
  <2>1. Word \in {"ready", "failed"} /\ Word' = "busy"
    BY <1>0, <1>5, Words, WordsNext DEF RunBegin, Shown
  <2>. QED BY <1>2, <2>1 DEF Promise!Next, Promise!Begin
<1>6. CASE Inspect(j)
  <2>1. Word = "busy" /\ Word' \in {"busy", "failed"}
    BY <1>0, <1>6, Words, WordsNext DEF Inspect, Shown
  <2>2. CASE Word' = "busy"
    BY <1>2, <2>1, <2>2 DEF Promise!vars
  <2>3. CASE Word' = "failed"
    BY <1>2, <2>1, <2>3 DEF Promise!Next, Promise!Fail
  <2>. QED BY <2>1, <2>2, <2>3
<1>7. CASE Report(j)
  <2>1. Word = "busy" /\ Word' = "failed"
    BY <1>0, <1>7, Words, WordsNext DEF Report, Shown, WorkerPc
  <2>. QED BY <1>2, <2>1 DEF Promise!Next, Promise!Fail
<1>8. CASE Announce(j)
  <2>1. Word = "busy" /\ Word' = "done"
    BY <1>0, <1>8, Words, WordsNext DEF Announce, Shown, WorkerPc
  <2>2. Consistent
    BY <1>0, <1>8, Pieces DEF Announce, Passed
  <2>. QED BY <1>2, <2>1, <2>2 DEF Promise!Next, Promise!Finish
<1>9. CASE Spawn(j) \/ RunBegin(j) \/ Prepare(j) \/ Record(j) \/ Unlink(j) \/ Reboot(j)
  BY <1>3, <1>5, <1>9 DEF Spawn, RunBegin, Prepare, Record, Unlink, Reboot
<1>. QED BY <1>4, <1>6, <1>7, <1>8, <1>9 DEF Start, Run

\* start, the worker and install.sh: until starts overtake each other, and from
\* the next completed update on, the device changes only while the status says
\* that an update is under way, VERSION only grows and only between the programs
\* and the web application, and "completed" is said of a device in one piece;
\* failures, crashes and reboots included.
THEOREM PromiseKeptCorrect == Spec => PromiseKept
<1>1. Init => Promise!Init
  <2> SUFFICES ASSUME Init PROVE Promise!Init
    OBVIOUS
  <2>1. tree = [part \in Part |-> Factory] /\ status = "idle"
    BY DEF Init
  <2>2. tree["version"] = Factory /\ tree["web"] = Factory /\ tree["programs"] = Factory
    BY <2>1 DEF Part
  <2>3. Consistent = TRUE
    BY <2>2, Pieces
  <2>. QED BY <2>1, <2>2, <2>3, Words DEF Promise!Init
<1>2. InductiveInv /\ [Next]_vars =>
        [race' = "none" => Promise!Next \/ UNCHANGED Promise!vars]_vars
  <2> SUFFICES ASSUME InductiveInv, [Next]_vars, race' = "none"
               PROVE  Promise!Next \/ UNCHANGED Promise!vars
    OBVIOUS
  <2>0. TypeOK /\ race \in {"none", "on", "over"} /\ WebBehind
    BY DEF InductiveInv, TypeOK
  <2>1. race # "on"
    BY <2>0, RaceStep
  <2>2. Core
    BY <2>1 DEF InductiveInv
  <2>3. CASE race = "over"
    <3>1. PICK j \in Job : Announce(j)
      BY <2>0, <2>3, RaceStep
    <3>2. Start(j) \/ Run(j)
      BY <3>1 DEF Run
    <3>3. ~Installer(j)
      BY <3>1 DEF Announce, Installer, BeginCopy, EndCopy, Checks, InstallerStops, At, InstallerPc
    <3>. QED BY <2>0, <2>2, <3>2, <3>3, RunnerPromised
  <2>4. CASE race = "none"
    <3>1. CASE UNCHANGED <<tree, status>>
      BY <3>1, SameTree, SameWord DEF Promise!vars
    <3>2. CASE \E j \in Job : Start(j) \/ Run(j)
      BY <2>0, <2>2, <2>4, <3>2, InstallerPromised, RunnerPromised
    <3>3. CASE Age
      <4>1. Word = "done" /\ Word' = "done" /\ tree' = tree
        BY <3>3, Words, WordsNext DEF Age, device
      <4>. QED BY <4>1, SameTree DEF Promise!vars
    <3>4. CASE \E i, j \in Job : WritesCollide(i, j)
      <4>1. FALSE
        BY <2>2, <3>4 DEF Core, JobAlone, WritesCollide, Writes, At
      <4>. QED BY <4>1
    <3>5. CASE \/ \E b \in Browser : \/ \E p \in Package : Upload(b, p)
                                     \/ \E j \in Job : StartCheck(b, j)
                                     \/ Answer(b)
               \/ LogsConfigure \/ Restart \/ UNCHANGED vars
      BY <3>1, <3>5 DEF Upload, StartCheck, Answer, LogsConfigure, Restart, vars, device
    <3>. QED BY <3>2, <3>3, <3>4, <3>5 DEF Next
  <2>. QED BY <2>0, <2>1, <2>3, <2>4
<1>. QED BY <1>1, <1>2, InductiveInvCorrect, PTL DEF Spec, PromiseKept

=============================================================================
