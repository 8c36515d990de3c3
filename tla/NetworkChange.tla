--------------------------- MODULE NetworkChange ---------------------------
(***************************************************************************)
(* The network-change transaction of consolepi-control, together with the  *)
(* three other writers of the management firewall: the allow-list editor   *)
(* (access add/update/delete), NetworkManager's dispatcher script (access  *)
(* migrate) and the rollback's snapshot.                                   *)
(*                                                                         *)
(* An administrator applies a candidate profile.  The change is STAGED in  *)
(* the STATE file; five seconds later a transient systemd unit ACTIVATES   *)
(* it, after arming a second unit that restores the saved configuration    *)
(* 180 s later unless the administrator confirms first.  Web requests      *)
(* (gunicorn has two workers), the terminal menu, both units and the       *)
(* dispatcher are separate processes that share files and NetworkManager   *)
(* with no lock between them, so each file access or external command is   *)
(* a step of its own here.                                                 *)
(***************************************************************************)
EXTENDS Naturals

CONSTANTS
    Net,            \* IPv4 networks: those eth0 can be in, those an allow-list can name
    Dhcp,           \* the profile with ipv4.method auto
    NoNet,          \* eth0 has no IPv4 address
    Token,          \* one per change: secrets.token_urlsafe
    NoToken,
    Worker,         \* concurrent web requests and terminal menus
    Timely,         \* TRUE: the delays of the code order the steps as its numbers say
    MaxReboots, MaxFaults, MaxEdits, MaxLeases, MaxEvents   \* bounds, see README

ASSUME NetAssumption == Net # {} /\ Dhcp \notin Net /\ NoNet \notin Net
ASSUME TokenAssumption == NoToken \notin Token
ASSUME TimelyAssumption == Timely \in BOOLEAN
ASSUME BoundAssumption ==
    /\ MaxReboots \in Nat /\ MaxFaults \in Nat /\ MaxEdits \in Nat
    /\ MaxLeases \in Nat /\ MaxEvents \in Nat

(***************************************************************************)
(* A static profile is named by the network it puts eth0 in.               *)
(***************************************************************************)
Profile == Net \union {Dhcp}
Yields(p) == IF p = Dhcp THEN Net ELSE {p}

\* A ruleset is the set of networks its management set admits; nftables'
\* collapsed intervals and this set admit the same addresses.
Ruleset == SUBSET Net

NoChange == [phase |-> "none"]
Change == [phase: {"staged", "active"}, token: Token, profile: Profile,
           rules: Ruleset, candidate: Profile]

VARIABLES
    \* on disk
    state,          \* the STATE file, network-rollback.json
    profile,        \* the NetworkManager connection profile
    nftables,       \* /etc/nftables.conf
    sources,        \* access-sources.json
    nftCandidate,   \* nftables.candidate, one name for every process, exists
    \* in memory, lost at a reboot
    network,        \* the IPv4 network of eth0
    ruleset,        \* the ruleset in the kernel
    applyTimer,     \* token of the armed consolepi-network-apply.timer
    rollbackTimer,  \* token of the armed consolepi-network-rollback.timer
    rollbackFailed, \* the rollback service ended in state "failed" and stays loaded
    activation,     \* consolepi-network-apply.service: activate(token)
    rollback,       \* consolepi-network-rollback.service: restore()
    events,         \* events NetworkManager-dispatcher has still to run
    migrate,        \* the running dispatcher script: access_migrate()
    request,        \* what each worker is executing
    \* history, read by no step
    used,           \* tokens generated so far
    trusted,        \* the initial profile and every profile reported confirmed
    abandoned,      \* what ended the care for a pending change: see Abandon
    \* counters of what the environment may still do
    faults, reboots, edits, leases

disk == <<profile, nftables, sources, nftCandidate>>
kernel == <<network, ruleset>>
units == <<applyTimer, rollbackTimer, rollbackFailed>>
history == <<used, trusted, abandoned>>
counters == <<faults, reboots, edits, leases>>
vars == <<state, disk, kernel, units, activation, rollback, events, migrate,
          request, history, counters>>

\* The locals of a process: the token it was given, the change it read from
\* STATE, the allow-list it is about to write, the rules it is about to load.
Idle == [pc |-> "idle", token |-> NoToken, change |-> NoChange, list |-> {}, rules |-> {}]
Process(pcs) == [pc: pcs, token: Token \union {NoToken}, change: Change \union {NoChange},
                 list: SUBSET Net, rules: Ruleset]

ActivationPc == {"idle", "arm", "modify", "up", "render", "install", "commit"}
RollbackPc == {"idle", "read", "modify", "up", "nft", "unlink"}
MigratePc == {"idle", "install"}
ApplyPc == {"stop", "save", "schedule"}
ConfirmPc == {"confirmStop", "confirmUnlink"}
EditPc == {"write", "render", "install"}

RequestPc == {"idle"} \union ApplyPc \union ConfirmPc \union EditPc

\* A process past its first read holds what it read.
LocalsOK ==
    /\ activation.pc # "idle" => activation.change \in Change
    /\ rollback.pc \notin {"idle", "read"} => rollback.change \in Change
    /\ \A w \in Worker :
        /\ request[w].pc \in ApplyPc => request[w].token \in Token
        /\ request[w].pc \in ConfirmPc => request[w].change \in Change

TypeOK ==
    /\ state \in Change \union {NoChange}
    /\ profile \in Profile
    /\ nftables \in Ruleset /\ ruleset \in Ruleset /\ sources \in SUBSET Net
    /\ nftCandidate \in BOOLEAN
    /\ network \in Net \union {NoNet}
    /\ applyTimer \in Token \union {NoToken} /\ rollbackTimer \in Token \union {NoToken}
    /\ rollbackFailed \in BOOLEAN
    /\ activation \in Process(ActivationPc)
    /\ rollback \in Process(RollbackPc)
    /\ migrate \in Process(MigratePc)
    /\ request \in [Worker -> Process(RequestPc)]
    /\ LocalsOK
    /\ events \in 0..MaxEvents
    /\ used \in SUBSET Token /\ trusted \in SUBSET Profile /\ abandoned \in SUBSET {"restore", "apply"}
    /\ faults \in 0..MaxFaults /\ reboots \in 0..MaxReboots
    /\ edits \in 0..MaxEdits /\ leases \in 0..MaxLeases

\* The device after installation: one profile, its network admitted.
Init ==
    /\ profile \in Profile
    /\ network \in Yields(profile)
    /\ sources = {} /\ nftCandidate = FALSE
    /\ nftables = {network} /\ ruleset = nftables
    /\ state = NoChange
    /\ applyTimer = NoToken /\ rollbackTimer = NoToken /\ rollbackFailed = FALSE
    /\ activation = Idle /\ rollback = Idle /\ migrate = Idle
    /\ request = [w \in Worker |-> Idle]
    /\ events = 0
    /\ used = {} /\ trusted = {profile} /\ abandoned = {}
    /\ faults = 0 /\ reboots = 0 /\ edits = 0 /\ leases = 0

-----------------------------------------------------------------------------
(* What several operations share.                                          *)

\* render_firewall with the allow-list as it is on disk now.
Render(local) == local \union sources

\* Write nftables.conf and load it.
InstallRules(rules) == nftables' = rules /\ ruleset' = rules

\* update_firewall up to the candidate file, ...
WriteCandidate == nftCandidate' = TRUE
\* ... and from "nft -c" on that file to its removal.  The check fails if
\* another process has removed it meanwhile.
UpdateFirewall(rules) == nftCandidate /\ InstallRules(rules) /\ nftCandidate' = FALSE
CandidateLost == ~nftCandidate /\ UNCHANGED <<nftables, ruleset, nftCandidate>>

\* NetworkManager queues a dispatcher event; events beyond MaxEvents merge.
Notify == events' = IF events < MaxEvents THEN events + 1 ELSE events

\* An nmcli command fails and its script ends with it.
Fault == faults < MaxFaults /\ faults' = faults + 1

\* A pending change loses its rollback: the machine goes down or a restore
\* fails ("restore"); or its timer: another request stops it and then ends
\* before it has staged a change of its own ("apply").
Abandon(reason) ==
    abandoned' = IF state.phase = "none" THEN abandoned ELSE abandoned \union {reason}

Working(w, pc) == request[w].pc = pc
Become(w, r) == request' = [request EXCEPT ![w] = r]
Goto(w, pc) == request' = [request EXCEPT ![w].pc = pc]

\* The 5 s delay of the apply timer outlasts the commands of a request, and
\* the 180 s of the rollback timer the at most 90 s of "nmcli connection up"
\* and 30 s of wait_for_active_network.
RequestsSettled ==
    Timely => \A w \in Worker : request[w].pc \notin ApplyPc \union ConfirmPc
\* Mutant: a rollback delay shorter than an activation.
ActivationSettledMutant == TRUE
ActivationSettled == Timely => activation.pc = "idle"

-----------------------------------------------------------------------------
(* network apply: web route or terminal menu.                              *)

\* Mutant: a second change may be applied over a pending one.
ApplyCheckAlways(w) ==
    /\ Working(w, "idle")
    /\ \E t \in Token \ used :
        /\ used' = used \union {t}
        /\ Become(w, [Idle EXCEPT !.pc = "stop", !.token = t])
    /\ UNCHANGED <<state, disk, kernel, units, activation, rollback, events, migrate,
                   trusted, abandoned, counters>>
\* With a STATE file present the request is refused.
ApplyCheck(w) ==
    /\ Working(w, "idle")
    /\ state.phase = "none"
    /\ \E t \in Token \ used :
        /\ used' = used \union {t}
        /\ Become(w, [Idle EXCEPT !.pc = "stop", !.token = t])
    /\ UNCHANGED <<state, disk, kernel, units, activation, rollback, events, migrate,
                   trusted, abandoned, counters>>

\* systemctl stop of both timers and both services: a running one is killed.
ApplyStop(w) ==
    /\ Working(w, "stop")
    /\ applyTimer' = NoToken /\ activation' = Idle
    /\ rollbackTimer' = NoToken /\ rollback' = Idle
    /\ Goto(w, "save")
    /\ UNCHANGED <<state, disk, kernel, rollbackFailed, events, migrate, history, counters>>

\* Mutant: a staged change is already marked active.
SavedChangeActive(t, candidate) ==
    [phase |-> "active", token |-> t, profile |-> profile, rules |-> nftables,
     candidate |-> candidate]
\* Mutant: the phase is misspelt.
SavedChangePrepared(t, candidate) ==
    [phase |-> "prepared", token |-> t, profile |-> profile, rules |-> nftables,
     candidate |-> candidate]
SavedChange(t, candidate) ==
    [phase |-> "staged", token |-> t, profile |-> profile, rules |-> nftables,
     candidate |-> candidate]

\* The candidate is the request's argument, used nowhere before.
ApplySave(w) ==
    /\ Working(w, "save")
    /\ \E candidate \in Profile : state' = SavedChange(request[w].token, candidate)
    /\ Goto(w, "schedule")
    /\ UNCHANGED <<disk, kernel, units, activation, rollback, events, migrate,
                   history, counters>>

\* nmcli does not tell the present profile: the request ends with the timers
\* stopped, and with the STATE file that another one may have written since.
ApplySaveFails(w) ==
    /\ Working(w, "save")
    /\ Fault
    /\ Abandon("apply")
    /\ Become(w, Idle)
    /\ UNCHANGED <<state, disk, kernel, units, activation, rollback, events, migrate,
                   used, trusted, reboots, edits, leases>>

\* systemd-run refuses a unit name that is loaded; then STATE is unlinked,
\* whoever wrote it.
\* Mutant: a refused systemd-run leaves the STATE file.
ApplyScheduleLeaves(w) ==
    /\ Working(w, "schedule")
    /\ \/ applyTimer = NoToken /\ activation.pc = "idle" /\ applyTimer' = request[w].token
       \/ (applyTimer # NoToken \/ activation.pc # "idle") /\ UNCHANGED applyTimer
    /\ Become(w, Idle)
    /\ UNCHANGED <<state, disk, kernel, rollbackTimer, rollbackFailed, activation, rollback,
                   events, migrate, history, counters>>
ApplyUnitFree == applyTimer = NoToken /\ activation.pc = "idle"
ApplySchedule(w) ==
    /\ Working(w, "schedule")
    /\ \/ ApplyUnitFree /\ applyTimer' = request[w].token /\ UNCHANGED state
       \/ ~ApplyUnitFree /\ state' = NoChange /\ UNCHANGED applyTimer
    /\ Become(w, Idle)
    /\ UNCHANGED <<disk, kernel, rollbackTimer, rollbackFailed, activation, rollback,
                   events, migrate, history, counters>>

-----------------------------------------------------------------------------
(* network activate: the service the apply timer starts.                   *)

\* It reads STATE and compares its token; else it ends, and --collect unloads it.
ActivateStart ==
    /\ applyTimer # NoToken
    /\ RequestsSettled
    /\ applyTimer' = NoToken
    /\ activation' = IF state.phase # "none" /\ state.token = applyTimer
                     THEN [Idle EXCEPT !.pc = "arm", !.change = state]
                     ELSE Idle
    /\ UNCHANGED <<state, disk, kernel, rollbackTimer, rollbackFailed, rollback, events,
                   migrate, request, history, counters>>

\* systemd-run without --collect: a failed rollback service stays loaded and
\* keeps the name taken.
RollbackUnitFree == rollbackTimer = NoToken /\ rollback.pc = "idle" /\ ~rollbackFailed
\* Mutant: the profile is changed although the rollback was not armed.
ActivateArmUnchecked ==
    /\ activation.pc = "arm"
    /\ rollbackTimer' = IF RollbackUnitFree THEN activation.change.token ELSE rollbackTimer
    /\ activation' = [activation EXCEPT !.pc = "modify"]
    /\ UNCHANGED <<state, disk, kernel, applyTimer, rollbackFailed, rollback, events,
                   migrate, request, history, counters>>
ActivateArm ==
    /\ activation.pc = "arm"
    /\ \/ /\ RollbackUnitFree
          /\ rollbackTimer' = activation.change.token
          /\ activation' = [activation EXCEPT !.pc = "modify"]
       \/ /\ ~RollbackUnitFree
          /\ activation' = Idle
          /\ UNCHANGED rollbackTimer
    /\ UNCHANGED <<state, disk, kernel, applyTimer, rollbackFailed, rollback, events,
                   migrate, request, history, counters>>

ActivateModify ==
    /\ activation.pc = "modify"
    /\ \/ /\ profile' = activation.change.candidate
          /\ activation' = [activation EXCEPT !.pc = "up"]
          /\ UNCHANGED counters
       \/ /\ Fault
          /\ activation' = Idle
          /\ UNCHANGED <<profile, reboots, edits, leases>>
    /\ UNCHANGED <<state, nftables, sources, nftCandidate, kernel, units, rollback, events,
                   migrate, request, history>>

\* nmcli connection up, then wait_for_active_network.  A failed activation
\* leaves eth0 without an address.
ActivateUp ==
    /\ activation.pc = "up"
    /\ \/ /\ \E n \in Yields(profile) :
              /\ network' = n
              /\ activation' = [activation EXCEPT !.pc = "render", !.rules = {n}]
          /\ Notify
          /\ UNCHANGED counters
       \/ /\ Fault
          /\ network' = NoNet
          /\ activation' = Idle
          /\ UNCHANGED <<events, reboots, edits, leases>>
    /\ UNCHANGED <<state, disk, ruleset, units, rollback, migrate, request, history>>

ActivateRender ==
    /\ activation.pc = "render"
    /\ activation' = [activation EXCEPT !.pc = "install", !.rules = Render(activation.rules)]
    /\ WriteCandidate
    /\ UNCHANGED <<state, profile, nftables, sources, kernel, units, rollback, events,
                   migrate, request, history, counters>>

ActivateInstall ==
    /\ activation.pc = "install"
    /\ \/ /\ UpdateFirewall(activation.rules)
          /\ activation' = [activation EXCEPT !.pc = "commit"]
       \/ CandidateLost /\ activation' = Idle
    /\ UNCHANGED <<state, profile, sources, network, units, rollback, events, migrate,
                   request, history, counters>>

\* It writes back the STATE it read at its start.
ActivateCommit ==
    /\ activation.pc = "commit"
    /\ state' = [activation.change EXCEPT !.phase = "active"]
    /\ activation' = Idle
    /\ UNCHANGED <<disk, kernel, units, rollback, events, migrate, request, history,
                   counters>>

-----------------------------------------------------------------------------
(* network confirm and confirm-pending.                                    *)

\* Mutant: a change still staged can be confirmed.
ConfirmStartAnyPhase(w) ==
    /\ Working(w, "idle")
    /\ state.phase # "none"
    /\ Become(w, [Idle EXCEPT !.pc = "confirmStop", !.change = state])
    /\ UNCHANGED <<state, disk, kernel, units, activation, rollback, events, migrate,
                   history, counters>>
ConfirmStart(w) ==
    /\ Working(w, "idle")
    /\ state.phase = "active"
    /\ Become(w, [Idle EXCEPT !.pc = "confirmStop", !.change = state])
    /\ UNCHANGED <<state, disk, kernel, units, activation, rollback, events, migrate,
                   history, counters>>

\* Only the timer is stopped: a rollback service already running goes on.
ConfirmStop(w) ==
    /\ Working(w, "confirmStop")
    /\ rollbackTimer' = NoToken
    /\ Goto(w, "confirmUnlink")
    /\ UNCHANGED <<state, disk, kernel, applyTimer, rollbackFailed, activation, rollback,
                   events, migrate, history, counters>>

\* The administrator is told that the new settings stay.
ConfirmUnlink(w) ==
    /\ Working(w, "confirmUnlink")
    /\ state' = NoChange
    /\ trusted' = trusted \union {request[w].change.candidate}
    /\ Become(w, Idle)
    /\ UNCHANGED <<disk, kernel, units, activation, rollback, events, migrate, used,
                   abandoned, counters>>

-----------------------------------------------------------------------------
(* network rollback: the service the rollback timer starts.                *)

\* main() reads STATE and compares the token; a missing STATE fails the
\* service, another change's token ends it.
RollbackStart ==
    /\ rollbackTimer # NoToken
    /\ ActivationSettled
    /\ rollbackTimer' = NoToken
    /\ rollbackFailed' = (state.phase = "none")
    /\ rollback' = IF state.phase # "none" /\ state.token = rollbackTimer
                   THEN [Idle EXCEPT !.pc = "read"]
                   ELSE Idle
    /\ UNCHANGED <<state, disk, kernel, applyTimer, activation, events, migrate, request,
                   history, counters>>

\* restore() reads STATE again, and compares nothing.
RestoreRead ==
    /\ rollback.pc = "read"
    /\ \/ /\ state.phase # "none"
          /\ rollback' = [rollback EXCEPT !.pc = "modify", !.change = state]
          /\ UNCHANGED rollbackFailed
       \/ /\ state.phase = "none"
          /\ rollback' = Idle
          /\ rollbackFailed' = TRUE
    /\ UNCHANGED <<state, disk, kernel, applyTimer, rollbackTimer, activation, events,
                   migrate, request, history, counters>>

\* An exception in restore(): STATE stays, the one-shot timer is spent.
RestoreFails ==
    /\ Fault
    /\ rollback' = Idle
    /\ rollbackFailed' = TRUE
    /\ Abandon("restore")
    /\ UNCHANGED <<reboots, edits, leases>>

RestoreModify ==
    /\ rollback.pc = "modify"
    /\ \/ /\ profile' = rollback.change.profile
          /\ rollback' = [rollback EXCEPT !.pc = "up"]
          /\ UNCHANGED <<rollbackFailed, abandoned, counters>>
       \/ RestoreFails /\ UNCHANGED profile
    /\ UNCHANGED <<state, nftables, sources, nftCandidate, kernel, applyTimer,
                   rollbackTimer, activation, events, migrate, request, used, trusted>>

RestoreUp ==
    /\ rollback.pc = "up"
    /\ \/ /\ network' \in Yields(profile)
          /\ rollback' = [rollback EXCEPT !.pc = "nft"]
          /\ Notify
          /\ UNCHANGED <<rollbackFailed, abandoned, counters>>
       \/ RestoreFails /\ network' = NoNet /\ UNCHANGED events
    /\ UNCHANGED <<state, disk, ruleset, applyTimer, rollbackTimer, activation, migrate,
                   request, used, trusted>>

\* The whole saved nftables.conf is written back as it was at apply.
RestoreNft ==
    /\ rollback.pc = "nft"
    /\ InstallRules(rollback.change.rules)
    /\ rollback' = [rollback EXCEPT !.pc = "unlink"]
    /\ UNCHANGED <<state, profile, sources, nftCandidate, network, units, activation,
                   events, migrate, request, history, counters>>

RestoreUnlink ==
    /\ rollback.pc = "unlink"
    /\ state' = NoChange
    /\ rollback' = Idle
    /\ UNCHANGED <<disk, kernel, units, activation, events, migrate, request, history,
                   counters>>

-----------------------------------------------------------------------------
(* access add, update and delete: web routes or terminal menu.             *)

\* The edited list, computed from the one read from disk.  Add and update
\* refuse the local network and a network already listed.
EditStart(w) ==
    /\ Working(w, "idle")
    /\ edits < MaxEdits
    /\ edits' = edits + 1
    /\ \/ \E n \in Net \ (sources \union {network}) :     \* access_add
            /\ network # NoNet
            /\ Become(w, [Idle EXCEPT !.pc = "write", !.list = sources \union {n},
                                      !.rules = {network}])
       \/ \E old \in sources, n \in Net :                  \* access_update
            /\ network # NoNet
            /\ n # network /\ n \notin sources \ {old}
            /\ Become(w, [Idle EXCEPT !.pc = "write", !.list = (sources \ {old}) \union {n},
                                      !.rules = {network}])
       \/ \E old \in sources :                             \* access_delete
            Become(w, [Idle EXCEPT !.pc = "write", !.list = sources \ {old}])
    /\ UNCHANGED <<state, disk, kernel, units, activation, rollback, events, migrate,
                   history, faults, reboots, leases>>

EditWrite(w) ==
    /\ Working(w, "write")
    /\ sources' = request[w].list
    /\ Become(w, [request[w] EXCEPT !.pc = "render", !.list = {}])
    /\ UNCHANGED <<state, profile, nftables, nftCandidate, kernel, units, activation,
                   rollback, events, migrate, history, counters>>

\* access_delete reads the local network only now, and fails without one.
EditRender(w) ==
    /\ Working(w, "render")
    /\ LET local == IF request[w].rules # {} THEN request[w].rules ELSE {network}
       IN  \/ /\ local # {NoNet}
              /\ Become(w, [Idle EXCEPT !.pc = "install", !.rules = Render(local)])
              /\ WriteCandidate
           \/ /\ local = {NoNet}
              /\ Become(w, Idle)
              /\ UNCHANGED nftCandidate
    /\ UNCHANGED <<state, profile, nftables, sources, kernel, units, activation,
                   rollback, events, migrate, history, counters>>

EditInstall(w) ==
    /\ Working(w, "install")
    /\ UpdateFirewall(request[w].rules) \/ CandidateLost
    /\ Become(w, Idle)
    /\ UNCHANGED <<state, profile, sources, network, units, activation, rollback, events,
                   migrate, history, counters>>

-----------------------------------------------------------------------------
(* access migrate, run by NetworkManager-dispatcher one event at a time.   *)

MigrateStart ==
    /\ events > 0 /\ migrate.pc = "idle"
    /\ events' = events - 1
    /\ \/ /\ network # NoNet
          /\ migrate' = [Idle EXCEPT !.pc = "install", !.rules = Render({network})]
          /\ WriteCandidate
       \/ network = NoNet /\ UNCHANGED <<migrate, nftCandidate>>
    /\ UNCHANGED <<state, profile, nftables, sources, kernel, units, activation,
                   rollback, request, history, counters>>

MigrateInstall ==
    /\ migrate.pc = "install"
    /\ UpdateFirewall(migrate.rules) \/ CandidateLost
    /\ migrate' = Idle
    /\ UNCHANGED <<state, profile, sources, network, units, activation, rollback, events,
                   request, history, counters>>

-----------------------------------------------------------------------------
(* The environment.                                                        *)

\* The DHCP server moves eth0 to another network.
LeaseChange ==
    /\ leases < MaxLeases
    /\ leases' = leases + 1
    /\ profile = Dhcp /\ network # NoNet
    /\ network' \in Yields(profile) \ {network}
    /\ Notify
    /\ UNCHANGED <<state, disk, ruleset, units, activation, rollback, migrate, request,
                   history, faults, reboots, edits>>

\* NetworkManager retries a profile that failed to come up.
Reconnect ==
    /\ network = NoNet
    /\ network' \in Yields(profile)
    /\ Notify
    /\ UNCHANGED <<state, disk, ruleset, units, activation, rollback, migrate, request,
                   history, counters>>

\* Reboot or power loss.  Transient units and processes are gone; boot loads
\* nftables.conf and brings the profile up.
Reboot ==
    /\ reboots < MaxReboots
    /\ reboots' = reboots + 1
    /\ applyTimer' = NoToken /\ rollbackTimer' = NoToken /\ rollbackFailed' = FALSE
    /\ activation' = Idle /\ rollback' = Idle /\ migrate' = Idle
    /\ request' = [w \in Worker |-> Idle]
    /\ ruleset' = nftables
    /\ network' \in Yields(profile)
    /\ events' = IF MaxEvents > 0 THEN 1 ELSE 0
    /\ Abandon("restore")
    /\ UNCHANGED <<state, disk, used, trusted, faults, edits, leases>>

-----------------------------------------------------------------------------
ActivateStep ==
    \/ ActivateArm \/ ActivateModify \/ ActivateUp
    \/ ActivateRender \/ ActivateInstall \/ ActivateCommit
RestoreStep ==
    RestoreRead \/ RestoreModify \/ RestoreUp \/ RestoreNft \/ RestoreUnlink
MigrateStep == MigrateStart \/ MigrateInstall
RequestStep(w) ==
    \/ ApplyStop(w) \/ ApplySave(w) \/ ApplySaveFails(w) \/ ApplySchedule(w)
    \/ ConfirmStop(w) \/ ConfirmUnlink(w)
    \/ EditWrite(w) \/ EditRender(w) \/ EditInstall(w)
RequestStart(w) == ApplyCheck(w) \/ ConfirmStart(w) \/ EditStart(w)

Next ==
    \/ \E w \in Worker : RequestStart(w) \/ RequestStep(w)
    \/ ActivateStart \/ ActivateStep
    \/ RollbackStart \/ RestoreStep
    \/ MigrateStep
    \/ LeaseChange \/ Reconnect \/ Reboot

Spec == Init /\ [][Next]_vars

\* Processes that run, run on; timers fire.  Nobody has to make a request,
\* and the network owes nothing.
Fairness ==
    /\ \A w \in Worker : WF_vars(RequestStep(w))
    /\ WF_vars(ActivateStart) /\ WF_vars(ActivateStep)
    /\ WF_vars(RollbackStart) /\ WF_vars(RestoreStep)
    /\ WF_vars(MigrateStep)
FairSpec == Spec /\ Fairness

-----------------------------------------------------------------------------
(* Safety.                                                                 *)

\* A profile nobody confirmed is running only while the STATE file still
\* holds that change and a confirmed profile to go back to: no interleaving
\* of two requests, a crash or a failed restore loses the way back.
UndoKept ==
    Timely /\ profile \notin trusted =>
        /\ state.phase # "none"
        /\ state.candidate = profile
        /\ state.profile \in trusted

\* ... and, unless the machine went down or the restore failed, something is
\* still going to end it: the armed rollback, a running one, or a
\* confirmation about to be reported.
UndoScheduled ==
    Timely /\ "restore" \notin abandoned /\ profile \notin trusted =>
        \/ rollbackTimer = state.token
        \/ rollback.pc # "idle"
        \/ \E w \in Worker : request[w].pc = "confirmUnlink"

\* What an administrator is offered to confirm is what the device runs, as
\* long as no rollback has begun to undo it.
ConfirmableIsApplied ==
    Timely /\ "restore" \notin abandoned /\ state.phase = "active"
      /\ rollback.pc \in {"idle", "read", "modify"} => profile = state.candidate

\* The activation works on the change that is in the STATE file, and no
\* rollback runs beside it.
ActivationAlone ==
    Timely /\ activation.pc # "idle" =>
        /\ rollback.pc = "idle"
        /\ state = activation.change /\ state.phase = "staged"
        /\ \A w \in Worker : request[w].pc \notin ApplyPc \union ConfirmPc

\* A rollback that ends has put back the profile saved in the STATE file it
\* removes.
RollbackRestores ==
    [][RestoreUnlink => profile = rollback.change.profile]_vars

-----------------------------------------------------------------------------
(* The inductive invariant: the properties above and what each process     *)
(* relies on between two of its steps.                                     *)

\* The activation modifies the profile only with its own rollback armed.
ActivationGuarded ==
    /\ activation.pc \in {"modify", "up", "render", "install", "commit"} =>
          rollbackTimer = activation.change.token
    /\ activation.pc \in {"up", "render", "install", "commit"} =>
          profile = activation.change.candidate

\* The rollback unit is either waiting or running.
RollbackUnitOnce == rollback.pc # "idle" => rollbackTimer = NoToken

\* What a pending change and a running restore would go back to was confirmed.
SavedTrusted ==
    /\ state.phase # "none" => state.profile \in trusted
    /\ rollback.pc \in {"modify", "up", "nft", "unlink"} =>
          rollback.change.profile \in trusted
    /\ rollback.pc \in {"up", "nft", "unlink"} => profile = rollback.change.profile

\* A request inside apply has found nothing unconfirmed in force, and nothing
\* becomes active before it has ended.
ApplyUndisturbed ==
    \A w \in Worker : request[w].pc \in ApplyPc =>
        profile \in trusted /\ state.phase # "active"

\* From its "systemctl stop" until the activation it scheduled starts, apply
\* has the units to itself.
ApplyClears ==
    applyTimer # NoToken \/ (\E w \in Worker : request[w].pc \in {"save", "schedule"}) =>
        /\ activation.pc = "idle" /\ rollback.pc = "idle" /\ rollbackTimer = NoToken
        /\ state.phase # "active"

\* A request inside confirm holds the candidate that is in force.
ConfirmHoldsCandidate ==
    \A w \in Worker : request[w].pc \in ConfirmPc =>
        profile \in trusted \union {request[w].change.candidate}

Core ==
    /\ ActivationAlone /\ ActivationGuarded /\ RollbackUnitOnce /\ SavedTrusted
    /\ ApplyUndisturbed /\ ApplyClears /\ ConfirmHoldsCandidate
    /\ UndoKept /\ UndoScheduled /\ ConfirmableIsApplied
InductiveInv == TypeOK /\ (Timely => Core)

-----------------------------------------------------------------------------
(* The abstract specification.                                             *)

PendingChange ==
    IF state.phase = "none" THEN NoChange
    ELSE [phase |-> state.phase, saved |-> state.profile, candidate |-> state.candidate]

Promise == INSTANCE NetworkPromise
    WITH running <- profile, pending <- PendingChange, confirmed <- trusted

\* Under Timely, whatever the processes do to each other, each step is one the
\* administrator was promised, or changes nothing of it.
PromiseKept == Promise!Spec

-----------------------------------------------------------------------------
(* Liveness, under FairSpec.                                               *)

\* "If you do not confirm within 180 seconds, ConsolePi+ restores the
\* original network configuration" (templates/network_pending.html:15).
UnconfirmedReverts == profile \notin trusted ~> profile \in trusted

\* Without a reboot and without a failing restore it does.
UnconfirmedRevertsIfUp == []("restore" \notin abandoned) => UnconfirmedReverts

\* "First confirm the previous network change or let it be reverted"
\* (consolepi-control, apply): one of the two is always going to be possible.
PendingResolves == state.phase # "none" ~> state.phase = "none"

\* It is, while the machine stays up, restores succeed, no failed rollback unit
\* is left behind, and no apply fails over a change another one has staged.
PendingResolvesIfUp == [](abandoned = {} /\ ~rollbackFailed) => PendingResolves

-----------------------------------------------------------------------------
(* What the program's texts say, and the code does not do.                 *)

\* "Automatic return was cancelled" (app.py, network_confirm_pending): no
\* rollback rewrites the profile of a change that is no longer pending.
RollbackCancelled ==
    [][profile' # profile /\ rollback.pc = "modify" => state.phase # "none"]_vars

\* "The management network was removed and the firewall updated"
\* (consolepi-admin-menu:176): once nothing runs and no event is left, the
\* kernel admits nothing but the local network and the list.
Quiet ==
    /\ activation.pc = "idle" /\ rollback.pc = "idle" /\ migrate.pc = "idle"
    /\ events = 0 /\ network # NoNet
    /\ \A w \in Worker : request[w].pc = "idle"
RemovedRefused == Quiet => ruleset \subseteq sources \union {network}
=============================================================================
