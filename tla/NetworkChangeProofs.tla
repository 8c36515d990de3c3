------------------------ MODULE NetworkChangeProofs ------------------------
(***************************************************************************)
(* Theorems about NetworkChange for every set of networks, tokens and      *)
(* workers and every bound.                                                *)
(***************************************************************************)
EXTENDS NetworkChange, TLAPS

USE NetAssumption, TokenAssumption, BoundAssumption

\* The types of all variables but the processes.
StoreType ==
    /\ state \in Change \union {NoChange}
    /\ profile \in Profile
    /\ nftables \in Ruleset /\ ruleset \in Ruleset /\ sources \in SUBSET Net
    /\ nftCandidate \in BOOLEAN
    /\ network \in Net \union {NoNet}
    /\ applyTimer \in Token \union {NoToken} /\ rollbackTimer \in Token \union {NoToken}
    /\ rollbackFailed \in BOOLEAN
    /\ events \in 0..MaxEvents
    /\ used \in SUBSET Token /\ trusted \in SUBSET Profile /\ abandoned \in SUBSET {"restore", "apply"}
    /\ faults \in 0..MaxFaults /\ reboots \in 0..MaxReboots
    /\ edits \in 0..MaxEdits /\ leases \in 0..MaxLeases

ActivationType ==
    /\ activation \in Process(ActivationPc)
    /\ activation.pc # "idle" => activation.change \in Change
RollbackType ==
    /\ rollback \in Process(RollbackPc)
    /\ rollback.pc \notin {"idle", "read"} => rollback.change \in Change
RequestType ==
    /\ request \in [Worker -> Process(RequestPc)]
    /\ \A w \in Worker :
        /\ request[w].pc \in ApplyPc => request[w].token \in Token
        /\ request[w].pc \in ConfirmPc => request[w].change \in Change
MigrateType == migrate \in Process(MigratePc)

LEMMA TypeParts ==
    TypeOK <=> StoreType /\ ActivationType /\ RollbackType /\ RequestType /\ MigrateType
  BY DEF TypeOK, LocalsOK, StoreType, ActivationType, RollbackType, RequestType, MigrateType

\* A pending STATE file holds a whole record.
LEMMA PendingIsChange ==
    ASSUME NEW c \in Change \union {NoChange}, c.phase # "none"
    PROVE  c \in Change
  BY DEF NoChange

LEMMA IdleIsProcess ==
    ASSUME NEW pcs, "idle" \in pcs
    PROVE  Idle \in Process(pcs)
  BY DEF Idle, Process, Ruleset

\* What moving one worker on does to the types of all of them.
LEMMA BecomeType ==
    ASSUME RequestType, NEW w \in Worker, NEW r \in Process(RequestPc), Become(w, r),
           r.pc \in ApplyPc => r.token \in Token,
           r.pc \in ConfirmPc => r.change \in Change
    PROVE  RequestType'
  BY DEF Become, RequestType

LEMMA GotoType ==
    ASSUME RequestType, NEW w \in Worker, NEW pc \in RequestPc, Goto(w, pc),
           pc \in ApplyPc => request[w].token \in Token,
           pc \in ConfirmPc => request[w].change \in Change
    PROVE  RequestType'
  BY DEF Goto, RequestType, Process

LEMMA NotifyType ==
    ASSUME events \in 0..MaxEvents, Notify
    PROVE  events' \in 0..MaxEvents
  BY DEF Notify

LEMMA FaultType ==
    ASSUME faults \in 0..MaxFaults, Fault
    PROVE  faults' \in 0..MaxFaults
  BY DEF Fault

LEMMA YieldsType ==
    ASSUME NEW p \in Profile
    PROVE  Yields(p) \subseteq Net
  BY DEF Yields, Profile

\* Loading a ruleset, or failing to, keeps the types of what it touches.
LEMMA InstallType ==
    ASSUME StoreType, NEW rules \in Ruleset, UpdateFirewall(rules) \/ CandidateLost
    PROVE  nftables' \in Ruleset /\ ruleset' \in Ruleset /\ nftCandidate' \in BOOLEAN
  BY DEF UpdateFirewall, InstallRules, CandidateLost, StoreType

-----------------------------------------------------------------------------
LEMMA InitType == Init => TypeOK
<1> SUFFICES ASSUME Init PROVE TypeOK
  OBVIOUS
<1>1. network \in Net
  BY YieldsType DEF Init
<1>2. StoreType
  <2>1. state \in Change \union {NoChange} /\ profile \in Profile /\ sources \in SUBSET Net
    BY DEF Init
  <2>2. nftables \in Ruleset /\ ruleset \in Ruleset /\ network \in Net \union {NoNet}
    BY <1>1 DEF Init, Ruleset
  <2>3. rollbackFailed \in BOOLEAN /\ abandoned \in SUBSET {"restore", "apply"} /\ nftCandidate \in BOOLEAN
    BY DEF Init
  <2>4. used \in SUBSET Token /\ trusted \in SUBSET Profile
    BY DEF Init
  <2>5. /\ events \in 0..MaxEvents
        /\ faults \in 0..MaxFaults /\ reboots \in 0..MaxReboots
        /\ edits \in 0..MaxEdits /\ leases \in 0..MaxLeases
    BY DEF Init
  <2>. QED BY <2>1, <2>2, <2>3, <2>4, <2>5 DEF Init, StoreType
<1>3. ActivationType /\ RollbackType /\ MigrateType /\ RequestType
  BY DEF Init, ActivationType, RollbackType, MigrateType, RequestType, Idle, Process, Ruleset,
         ActivationPc, RollbackPc, MigratePc, RequestPc, ApplyPc, ConfirmPc, EditPc
<1>. QED BY <1>2, <1>3, TypeParts

-----------------------------------------------------------------------------
(* One lemma per process: its steps keep every type.                       *)

Types == StoreType /\ ActivationType /\ RollbackType /\ RequestType /\ MigrateType

LEMMA ActivateTypes ==
    ASSUME Types, ActivateStart \/ ActivateStep
    PROVE  Types'
<1>1. CASE ActivateStart
  <2>1. ActivationType'
    <3>1. CASE state.phase # "none" /\ state.token = applyTimer
      <4>1. state \in Change
        BY <3>1, PendingIsChange DEF Types, StoreType
      <4>2. activation' = [Idle EXCEPT !.pc = "arm", !.change = state]
        BY <1>1, <3>1 DEF ActivateStart
      <4>. QED BY <4>1, <4>2 DEF ActivationType, Idle, Process, Ruleset, ActivationPc
    <3>2. CASE ~(state.phase # "none" /\ state.token = applyTimer)
      <4>1. activation' = Idle
        BY <1>1, <3>2 DEF ActivateStart
      <4>. QED BY <4>1, IdleIsProcess DEF ActivationType, Idle, ActivationPc
    <3>. QED BY <3>1, <3>2
  <2>. QED BY <1>1, <2>1 DEF ActivateStart, Types, StoreType, RollbackType, RequestType,
              MigrateType, disk, kernel, history, counters
<1>2. CASE ActivateArm
  <2>1. ActivationType'
    BY <1>2 DEF ActivateArm, Types, ActivationType, Idle, Process, Ruleset, ActivationPc
  <2>2. rollbackTimer' \in Token \union {NoToken}
    BY <1>2 DEF ActivateArm, Types, StoreType, ActivationType, Change
  <2>. QED BY <1>2, <2>1, <2>2 DEF ActivateArm, Types, StoreType, RollbackType, RequestType,
              MigrateType, disk, kernel, units, history, counters
<1>3. CASE ActivateModify
  BY <1>3 DEF ActivateModify, Types, StoreType, ActivationType, RollbackType, RequestType, MigrateType, disk, kernel, units, history, counters, Idle, Process, Ruleset, ActivationPc, Change, Fault
<1>4. CASE ActivateUp
  <2>1. network' \in Net \union {NoNet} /\ ActivationType'
    <3>1. ASSUME NEW n \in Yields(profile),
                 network' = n, activation' = [activation EXCEPT !.pc = "render", !.rules = {n}]
          PROVE  network' \in Net /\ ActivationType'
      BY <1>4, <3>1, YieldsType
         DEF ActivateUp, Types, StoreType, ActivationType, Process, Ruleset, ActivationPc
    <3>2. ASSUME network' = NoNet, activation' = Idle
          PROVE  ActivationType'
      BY <3>2, IdleIsProcess DEF ActivationType, Idle, ActivationPc
    <3>. QED BY <1>4, <3>1, <3>2 DEF ActivateUp
  <2>2. events' \in 0..MaxEvents
    BY <1>4, NotifyType DEF ActivateUp, Types, StoreType
  <2>3. faults' \in 0..MaxFaults /\ <<reboots, edits, leases>>' = <<reboots, edits, leases>>
    BY <1>4, FaultType DEF ActivateUp, Types, StoreType, counters
  <2>. QED BY <1>4, <2>1, <2>2, <2>3 DEF ActivateUp, Types, StoreType, RollbackType, RequestType,
              MigrateType, disk, units, history
<1>5. CASE ActivateRender
  <2>1. ActivationType'
    BY <1>5 DEF ActivateRender, Types, StoreType, ActivationType, Process, Ruleset, ActivationPc,
         Render
  <2>. QED BY <1>5, <2>1 DEF ActivateRender, WriteCandidate, Types, StoreType, RollbackType, RequestType,
              MigrateType, disk, kernel, units, history, counters
<1>6. CASE ActivateInstall
  <2>1. ActivationType'
    <3>1. CASE activation' = [activation EXCEPT !.pc = "commit"]
      BY <1>6, <3>1 DEF ActivateInstall, Types, ActivationType, Process, ActivationPc
    <3>2. CASE activation' = Idle
      BY <3>2, IdleIsProcess DEF ActivationType, ActivationPc, Idle
    <3>. QED BY <1>6, <3>1, <3>2 DEF ActivateInstall
  <2>2. nftables' \in Ruleset /\ ruleset' \in Ruleset /\ nftCandidate' \in BOOLEAN
    BY <1>6, InstallType DEF ActivateInstall, Types, ActivationType, Process
  <2>. QED BY <1>6, <2>1, <2>2 DEF ActivateInstall, Types, StoreType, RollbackType, RequestType,
              MigrateType, units, history, counters
<1>7. CASE ActivateCommit
  BY <1>7 DEF ActivateCommit, Types, StoreType, ActivationType, RollbackType, RequestType, MigrateType, disk, kernel, units, history, counters, Idle, Process, Ruleset, ActivationPc, Change
<1>. QED BY <1>1, <1>2, <1>3, <1>4, <1>5, <1>6, <1>7 DEF ActivateStep

LEMMA RestoreTypes ==
    ASSUME Types, RollbackStart \/ RestoreStep
    PROVE  Types'
<1>1. CASE RollbackStart
  <2>1. RollbackType'
    BY <1>1 DEF RollbackStart, RollbackType, Idle, Process, Ruleset, RollbackPc, Types
  <2>2. rollbackFailed' \in BOOLEAN
    BY <1>1 DEF RollbackStart
  <2>. QED BY <1>1, <2>1, <2>2 DEF RollbackStart, Types, StoreType, ActivationType, RequestType,
              MigrateType, disk, kernel, history, counters
<1>2. CASE RestoreRead
  <2>1. RollbackType'
    BY <1>2, PendingIsChange, IdleIsProcess
       DEF RestoreRead, RollbackType, Idle, Process, Ruleset, RollbackPc, Types, StoreType
  <2>2. rollbackFailed' \in BOOLEAN
    BY <1>2 DEF RestoreRead, Types, StoreType
  <2>. QED BY <1>2, <2>1, <2>2 DEF RestoreRead, Types, StoreType, ActivationType, RequestType,
              MigrateType, disk, kernel, history, counters
<1>3. ASSUME RestoreFails
      PROVE  /\ RollbackType' /\ rollbackFailed' \in BOOLEAN /\ abandoned' \in SUBSET {"restore", "apply"}
             /\ faults' \in 0..MaxFaults
             /\ reboots' = reboots /\ edits' = edits /\ leases' = leases
  BY <1>3, FaultType DEF RestoreFails, Abandon, RollbackType, Idle, Process, Ruleset, RollbackPc, Types,
     StoreType
<1>4. CASE RestoreModify
  <2>1. RollbackType' /\ profile' \in Profile
    BY <1>3, <1>4 DEF RestoreModify, RollbackType, Process, Ruleset, RollbackPc, Types, StoreType,
       Change
  <2>2. rollbackFailed' \in BOOLEAN /\ abandoned' \in SUBSET {"restore", "apply"}
    BY <1>3, <1>4 DEF RestoreModify, Types, StoreType
  <2>3. /\ faults' \in 0..MaxFaults /\ reboots' = reboots /\ edits' = edits /\ leases' = leases
    BY <1>3, <1>4 DEF RestoreModify, Types, StoreType, counters
  <2>. QED BY <1>4, <2>1, <2>2, <2>3 DEF RestoreModify, Types, StoreType, ActivationType,
              RequestType, MigrateType, kernel
<1>5. CASE RestoreUp
  <2>1. RollbackType' /\ network' \in Net \union {NoNet}
    BY <1>3, <1>5, YieldsType DEF RestoreUp, RollbackType, Process, Ruleset, RollbackPc, Types,
       StoreType
  <2>2. rollbackFailed' \in BOOLEAN /\ abandoned' \in SUBSET {"restore", "apply"}
    BY <1>3, <1>5 DEF RestoreUp, Types, StoreType
  <2>3. /\ faults' \in 0..MaxFaults /\ reboots' = reboots /\ edits' = edits /\ leases' = leases
    BY <1>3, <1>5 DEF RestoreUp, Types, StoreType, counters
  <2>4. events' \in 0..MaxEvents
    BY <1>5, NotifyType DEF RestoreUp, Types, StoreType
  <2>. QED BY <1>5, <2>1, <2>2, <2>3, <2>4 DEF RestoreUp, Types, StoreType, ActivationType,
              RequestType, MigrateType, disk
<1>6. CASE RestoreNft
  <2>1. RollbackType' /\ nftables' \in Ruleset /\ ruleset' \in Ruleset
    BY <1>6 DEF RestoreNft, RollbackType, Process, Ruleset, RollbackPc, Types, InstallRules, Change
  <2>. QED BY <1>6, <2>1 DEF RestoreNft, Types, StoreType, ActivationType, RequestType,
              MigrateType, units, history, counters
<1>7. CASE RestoreUnlink
  <2>1. RollbackType'
    BY <1>7, IdleIsProcess DEF RestoreUnlink, RollbackType, Idle, RollbackPc
  <2>. QED BY <1>7, <2>1 DEF RestoreUnlink, Types, StoreType, ActivationType, RequestType,
              MigrateType, disk, kernel, units, history, counters
<1>. QED BY <1>1, <1>2, <1>4, <1>5, <1>6, <1>7 DEF RestoreStep

LEMMA MigrateTypes ==
    ASSUME Types, MigrateStep
    PROVE  Types'
<1>1. CASE MigrateStart
  <2>1. migrate' \in Process(MigratePc)
    <3>1. Render({network}) \in Ruleset \/ network = NoNet
      BY DEF Types, StoreType, Render, Ruleset
    <3>2. network # NoNet =>
            [Idle EXCEPT !.pc = "install", !.rules = Render({network})] \in Process(MigratePc)
      BY <3>1 DEF Idle, Process, MigratePc
    <3>. QED BY <1>1, <3>2 DEF MigrateStart, Types, MigrateType
  <2>2. events' \in 0..MaxEvents
    BY <1>1 DEF MigrateStart, Types, StoreType
  <2>3. nftCandidate' \in BOOLEAN
    BY <1>1 DEF MigrateStart, WriteCandidate, Types, StoreType
  <2>. QED BY <1>1, <2>1, <2>2, <2>3 DEF MigrateStart, Types, StoreType, ActivationType, RollbackType,
              RequestType, MigrateType, disk, kernel, units, history, counters
<1>2. CASE MigrateInstall
  <2>1. MigrateType'
    BY <1>2, IdleIsProcess DEF MigrateInstall, MigrateType, MigratePc
  <2>2. nftables' \in Ruleset /\ ruleset' \in Ruleset /\ nftCandidate' \in BOOLEAN
    BY <1>2, InstallType DEF MigrateInstall, Types, MigrateType, Process
  <2>. QED BY <1>2, <2>1, <2>2 DEF MigrateInstall, Types, StoreType, ActivationType, RollbackType,
              RequestType, units, history, counters
<1>. QED BY <1>1, <1>2 DEF MigrateStep

LEMMA EnvironmentTypes ==
    ASSUME Types, LeaseChange \/ Reconnect \/ Reboot
    PROVE  Types'
<1>1. CASE LeaseChange
  <2>1. network' \in Net
    BY <1>1, YieldsType DEF LeaseChange, Types, StoreType
  <2>2. events' \in 0..MaxEvents /\ leases' \in 0..MaxLeases
    BY <1>1, NotifyType DEF LeaseChange, Types, StoreType
  <2>. QED BY <1>1, <2>1, <2>2 DEF LeaseChange, Types, StoreType, ActivationType, RollbackType,
              RequestType, MigrateType, disk, units, history
<1>2. CASE Reconnect
  <2>1. network' \in Net
    BY <1>2, YieldsType DEF Reconnect, Types, StoreType
  <2>2. events' \in 0..MaxEvents
    BY <1>2, NotifyType DEF Reconnect, Types, StoreType
  <2>. QED BY <1>2, <2>1, <2>2 DEF Reconnect, Types, StoreType, ActivationType, RollbackType,
              RequestType, MigrateType, disk, units, history, counters
<1>3. CASE Reboot
  <2>1. network' \in Net
    BY <1>3, YieldsType DEF Reboot, Types, StoreType
  <2>2. events' \in 0..MaxEvents /\ reboots' \in 0..MaxReboots
    BY <1>3 DEF Reboot, Types, StoreType
  <2>3. ActivationType' /\ RollbackType' /\ MigrateType' /\ RequestType'
    BY <1>3 DEF Reboot, ActivationType, RollbackType, MigrateType, RequestType, Idle, Process,
       Ruleset, ActivationPc, RollbackPc, MigratePc, RequestPc, ApplyPc, ConfirmPc
  <2>4. rollbackFailed' \in BOOLEAN /\ abandoned' \in SUBSET {"restore", "apply"}
    BY <1>3 DEF Reboot, Abandon, Types, StoreType
  <2>. QED BY <1>3, <2>1, <2>2, <2>3, <2>4 DEF Reboot, Types, StoreType, disk
<1>. QED BY <1>1, <1>2, <1>3

LEMMA RequestStartTypes ==
    ASSUME Types, NEW w \in Worker, RequestStart(w)
    PROVE  Types'
<1>1. CASE ApplyCheck(w)
  <2>1. PICK t \in Token : /\ used' = used \union {t}
                           /\ Become(w, [Idle EXCEPT !.pc = "stop", !.token = t])
    BY <1>1 DEF ApplyCheck
  <2>2. [Idle EXCEPT !.pc = "stop", !.token = t] \in Process(RequestPc)
    BY DEF Idle, Process, RequestPc, ApplyPc, Ruleset
  <2>3. RequestType'
    BY <2>1, <2>2, BecomeType DEF Types, Idle, ConfirmPc
  <2>. QED BY <1>1, <2>1, <2>3 DEF ApplyCheck, Types, StoreType, ActivationType, RollbackType,
              MigrateType, disk, kernel, units, counters
<1>2. CASE ConfirmStart(w)
  <2>1. state \in Change
    BY <1>2, PendingIsChange DEF ConfirmStart, Types, StoreType
  <2>2. [Idle EXCEPT !.pc = "confirmStop", !.change = state] \in Process(RequestPc)
    BY <2>1 DEF Idle, Process, RequestPc, ConfirmPc, Ruleset
  <2>3. RequestType'
    BY <1>2, <2>1, <2>2, BecomeType DEF ConfirmStart, Types, Idle, ApplyPc
  <2>. QED BY <1>2, <2>3 DEF ConfirmStart, Types, StoreType, ActivationType, RollbackType,
              MigrateType, disk, kernel, units, history, counters
<1>3. CASE EditStart(w)
  <2>1. ASSUME NEW list \in SUBSET Net, NEW rules \in SUBSET Net,
               Become(w, [Idle EXCEPT !.pc = "write", !.list = list, !.rules = rules])
        PROVE  RequestType'
    <3>1. [Idle EXCEPT !.pc = "write", !.list = list, !.rules = rules] \in Process(RequestPc)
      BY DEF Idle, Process, RequestPc, EditPc, Ruleset
    <3>. QED BY <2>1, <3>1, BecomeType DEF Types, Idle, ApplyPc, ConfirmPc
  <2>2. RequestType'
    <3>1. CASE \E n \in Net \ (sources \union {network}) :
                 /\ network # NoNet
                 /\ Become(w, [Idle EXCEPT !.pc = "write", !.list = sources \union {n},
                                           !.rules = {network}])
      <4>1. PICK n \in Net :
                 /\ network # NoNet
                 /\ Become(w, [Idle EXCEPT !.pc = "write", !.list = sources \union {n},
                                           !.rules = {network}])
        BY <3>1
      <4>2. sources \union {n} \in SUBSET Net /\ {network} \in SUBSET Net
        BY <4>1 DEF Types, StoreType
      <4>. QED BY <2>1, <4>1, <4>2
    <3>2. CASE \E old \in sources, n \in Net :
                 /\ network # NoNet
                 /\ n # network /\ n \notin sources \ {old}
                 /\ Become(w, [Idle EXCEPT !.pc = "write",
                                           !.list = (sources \ {old}) \union {n},
                                           !.rules = {network}])
      <4>1. PICK old \in sources, n \in Net :
                 /\ network # NoNet
                 /\ Become(w, [Idle EXCEPT !.pc = "write",
                                           !.list = (sources \ {old}) \union {n},
                                           !.rules = {network}])
        BY <3>2
      <4>2. (sources \ {old}) \union {n} \in SUBSET Net /\ {network} \in SUBSET Net
        BY <4>1 DEF Types, StoreType
      <4>. QED BY <2>1, <4>1, <4>2
    <3>3. CASE \E old \in sources :
                 Become(w, [Idle EXCEPT !.pc = "write", !.list = sources \ {old}])
      <4>1. PICK old \in sources :
                 Become(w, [Idle EXCEPT !.pc = "write", !.list = sources \ {old}])
        BY <3>3
      <4>2. [Idle EXCEPT !.pc = "write", !.list = sources \ {old}] \in Process(RequestPc)
        BY DEF Idle, Process, RequestPc, EditPc, Ruleset, Types, StoreType
      <4>. QED BY <4>1, <4>2, BecomeType DEF Types, Idle, ApplyPc, ConfirmPc
    <3>. QED BY <1>3, <3>1, <3>2, <3>3 DEF EditStart
  <2>3. edits \in 0..MaxEdits /\ edits < MaxEdits /\ edits' = edits + 1
    BY <1>3 DEF EditStart, Types, StoreType
  <2>4. edits' \in 0..MaxEdits
    BY <2>3
  <2>. QED BY <1>3, <2>2, <2>4 DEF EditStart, Types, StoreType, ActivationType,
              RollbackType, MigrateType, disk, kernel, units, history
<1>. QED BY <1>1, <1>2, <1>3 DEF RequestStart

LEMMA RequestStepTypes ==
    ASSUME Types, NEW w \in Worker, RequestStep(w)
    PROVE  Types'
<1>1. /\ Idle \in Process(RequestPc) /\ Idle.pc = "idle"
      /\ "idle" \notin ApplyPc /\ "idle" \notin ConfirmPc
  BY IdleIsProcess DEF RequestPc, Idle, ApplyPc, ConfirmPc
<1>2. ASSUME Become(w, Idle) PROVE RequestType'
  BY <1>1, <1>2, BecomeType DEF Types
<1>3. CASE ApplyStop(w)
  <2>1. RequestType'
    BY <1>3, GotoType DEF ApplyStop, Types, RequestType, Working, RequestPc, ApplyPc, ConfirmPc
  <2>2. ActivationType' /\ RollbackType'
    BY <1>3, IdleIsProcess DEF ApplyStop, ActivationType, RollbackType, Idle, ActivationPc,
       RollbackPc
  <2>. QED BY <1>3, <2>1, <2>2 DEF ApplyStop, Types, StoreType, MigrateType, disk, kernel,
              history, counters
<1>4. CASE ApplySave(w)
  <2>1. request[w].token \in Token
    BY <1>4 DEF ApplySave, Types, RequestType, Working, ApplyPc
  <2>2. RequestType'
    BY <1>4, <2>1, GotoType DEF ApplySave, Types, RequestPc, ApplyPc, ConfirmPc
  <2>3. state' \in Change
    BY <1>4, <2>1 DEF ApplySave, SavedChange, Change, Types, StoreType
  <2>. QED BY <1>4, <2>2, <2>3 DEF ApplySave, Types, StoreType, ActivationType, RollbackType,
              MigrateType, disk, kernel, units, history, counters
<1>11. CASE ApplySaveFails(w)
  <2>1. RequestType'
    BY <1>2, <1>11 DEF ApplySaveFails
  <2>2. abandoned' \in SUBSET {"restore", "apply"} /\ faults' \in 0..MaxFaults
    BY <1>11, FaultType DEF ApplySaveFails, Abandon, Types, StoreType
  <2>. QED BY <1>11, <2>1, <2>2 DEF ApplySaveFails, Types, StoreType, ActivationType, RollbackType,
              MigrateType, disk, kernel, units
<1>5. CASE ApplySchedule(w)
  <2>1. RequestType'
    BY <1>2, <1>5 DEF ApplySchedule
  <2>2. applyTimer' \in Token \union {NoToken} /\ state' \in Change \union {NoChange}
    BY <1>5 DEF ApplySchedule, Types, StoreType, RequestType, Working, ApplyPc
  <2>. QED BY <1>5, <2>1, <2>2 DEF ApplySchedule, Types, StoreType, ActivationType, RollbackType,
              MigrateType, disk, kernel, history, counters
<1>6. CASE ConfirmStop(w)
  <2>1. RequestType'
    BY <1>6, GotoType DEF ConfirmStop, Types, RequestType, Working, RequestPc, ApplyPc, ConfirmPc
  <2>. QED BY <1>6, <2>1 DEF ConfirmStop, Types, StoreType, ActivationType, RollbackType,
              MigrateType, disk, kernel, history, counters
<1>7. CASE ConfirmUnlink(w)
  <2>1. RequestType'
    BY <1>2, <1>7 DEF ConfirmUnlink
  <2>2. trusted' \in SUBSET Profile
    BY <1>7 DEF ConfirmUnlink, Types, StoreType, RequestType, Working, ConfirmPc, Change
  <2>. QED BY <1>7, <2>1, <2>2 DEF ConfirmUnlink, Types, StoreType, ActivationType, RollbackType,
              MigrateType, disk, kernel, units, counters
<1>8. CASE EditWrite(w)
  <2>1. request[w] \in Process(RequestPc)
    BY DEF Types, RequestType
  <2>2. [request[w] EXCEPT !.pc = "render", !.list = {}] \in Process(RequestPc)
    BY <2>1 DEF Process, RequestPc, EditPc
  <2>3. [request[w] EXCEPT !.pc = "render", !.list = {}].pc = "render"
    BY <2>1 DEF Process
  <2>4. RequestType'
    BY <1>8, <2>2, <2>3, BecomeType DEF EditWrite, Types, ApplyPc, ConfirmPc
  <2>5. sources' \in SUBSET Net
    BY <1>8, <2>1 DEF EditWrite, Process
  <2>. QED BY <1>8, <2>4, <2>5 DEF EditWrite, Types, StoreType, ActivationType, RollbackType,
              MigrateType, kernel, units, history, counters
<1>9. CASE EditRender(w)
  <2>1. ASSUME NEW local \in SUBSET Net,
               Become(w, [Idle EXCEPT !.pc = "install", !.rules = Render(local)])
        PROVE  RequestType'
    <3>1. [Idle EXCEPT !.pc = "install", !.rules = Render(local)] \in Process(RequestPc)
      BY DEF Idle, Process, RequestPc, EditPc, Ruleset, Render, Types, StoreType
    <3>. QED BY <2>1, <3>1, BecomeType DEF Types, Idle, ApplyPc, ConfirmPc
  <2>2. request[w].rules \in SUBSET Net
    BY DEF Types, RequestType, Process, Ruleset
  <2>3. {network} # {NoNet} => {network} \in SUBSET Net
    BY DEF Types, StoreType
  <2>4. RequestType'
    BY <1>2, <1>9, <2>1, <2>2, <2>3 DEF EditRender
  <2>5. nftCandidate' \in BOOLEAN
    BY <1>9 DEF EditRender, WriteCandidate, Types, StoreType
  <2>. QED BY <1>9, <2>4, <2>5 DEF EditRender, Types, StoreType, ActivationType, RollbackType,
              MigrateType, disk, kernel, units, history, counters
<1>10. CASE EditInstall(w)
  <2>1. request[w].rules \in Ruleset
    BY DEF Types, RequestType, Process
  <2>2. RequestType' /\ nftables' \in Ruleset /\ ruleset' \in Ruleset /\ nftCandidate' \in BOOLEAN
    BY <1>2, <1>10, <2>1, InstallType DEF EditInstall, Types
  <2>. QED BY <1>10, <2>2 DEF EditInstall, Types, StoreType, ActivationType, RollbackType,
              MigrateType, units, history, counters
<1>. QED BY <1>3, <1>4, <1>11, <1>5, <1>6, <1>7, <1>8, <1>9, <1>10 DEF RequestStep

-----------------------------------------------------------------------------
LEMMA NextTypes == TypeOK /\ [Next]_vars => TypeOK'
<1> SUFFICES ASSUME Types, [Next]_vars PROVE Types'
  BY TypeParts, PTL DEF Types
<1>1. CASE UNCHANGED vars
  BY <1>1 DEF vars, disk, kernel, units, history, counters, Types, StoreType, ActivationType,
     RollbackType, RequestType, MigrateType
<1>2. CASE Next
  BY <1>2, ActivateTypes, RestoreTypes, MigrateTypes, EnvironmentTypes, RequestStartTypes,
     RequestStepTypes DEF Next
<1>. QED BY <1>1, <1>2

\* Every variable and every local of a process keeps its type, whatever the
\* constants.
THEOREM TypeCorrect == Spec => []TypeOK
<1>. QED BY InitType, NextTypes, PTL DEF Spec
=============================================================================
