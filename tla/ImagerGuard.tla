----------------------------- MODULE ImagerGuard -----------------------------
(***************************************************************************)
(* The customisation of a generic image by Raspberry Pi Imager             *)
(* (usr/local/lib/consolepi_imager_security.py and                         *)
(* consolepi_generic_recovery.py, with the programs that call them:        *)
(* consolepi-imager-guard, consolepi-imager-postvalidate, the first lines  *)
(* of consolepi-generic-image-firstboot, consolepi-generic-recovery).      *)
(*                                                                         *)
(* At its first start the card runs the payload that Imager wrote to the   *)
(* FAT partition: a list of calls of two vendor programs.  Guards stand in *)
(* their place.  A guard accepts at most one account entry, one Ed25519    *)
(* key and a few settings it ignores; it records what it accepted, appends *)
(* to an audit, and turns anything else into a failure marker that nothing *)
(* removes.  When the payload has removed itself, a later start validates  *)
(* the result, puts the vendor programs back and writes a success marker;  *)
(* SSH and the web wait for that.  The power may fail between any two file *)
(* operations, the payload is then run again from its first call.  A write *)
(* may also fail with an I/O error.  MaxFaults bounds both together.       *)
(***************************************************************************)
EXTENDS Naturals, Sequences

CONSTANTS Keys,        \* keys and key-like texts a payload may contain
          Ed25519,     \* those among them that are one plain Ed25519 key
          NoKey,       \* no key
          Scripts,     \* the payloads: sequences of calls
          MaxFaults,   \* bound on crashes and failing writes
          MaxMarkers   \* bound on recovery markers put on the card

ASSUME KeysAssumption == Ed25519 \subseteq Keys /\ NoKey \notin Keys
ASSUME BoundsAssumption == MaxFaults \in Nat /\ MaxMarkers \in Nat

Changes == {"password", "account", "profile"}

\* A payload is a list of calls; what it may change past the vendor programs
\* is a password, an account or a network profile with the host name.
ASSUME ScriptsAssumption ==
  \A s \in Scripts :
    /\ Len(s) \in Nat
    /\ \A i \in 1..Len(s) : s[i].op = "direct" => s[i].arg \in Changes

VARIABLES
  \* on the card
  payload,     \* what is left of Imager's payload: "firstrun" | "args" | "clean"
  authKey,     \* authorized_keys of consolepi
  sshOp,       \* .generic-imager-ssh-operation: the key the guard recorded
  userOp,      \* .generic-imager-user-operation exists
  audit,       \* generic-imager-audit.jsonl: the complete events, in order
  torn,        \* its last line is incomplete
  failure,     \* generic-imager-customization-failed
  success,     \* generic-imager-customization-imported exists
  entry,       \* what each vendor path holds: "guard" or "vendor"
  generic,     \* generic-image.json
  changed,     \* what was changed past the guards: see Changes
  bootMarker,  \* consolepi-recovery-enable: "none" | "empty" | "unsafe"
  \* of the running start
  pc,          \* what runs: see Goto
  at,          \* the call of the payload that is served
  why,         \* the reason a failure marker is going to give
  \* of the environment
  script,      \* the payload Imager wrote
  faults, markers, sessions  \* faults met, recovery markers put, shells opened

account == <<authKey, sshOp, userOp>>
log     == <<audit, torn>>
image   == <<payload, entry, generic, changed, bootMarker>>
card    == <<account, log, failure, success, image>>
vars == <<card, pc, at, why, script, faults, markers, sessions>>

Entries == {"ssh", "user"}
Reasons == {"rejected", "audit failed", "not valid"}
Present == {"partial"} \cup Reasons       \* what a failure marker may hold

-----------------------------------------------------------------------------
(* Requests of the payload and what the guards think of them.  A call has  *)
(* an operation and an argument; "direct" stands for a payload that does   *)
(* not use a vendor program but changes the system itself.                 *)

\* The password of consolepi is locked.
locked_account == "password" \notin changed

generic_pending == generic = "pending"

AUDIT_OPERATIONS == {"user_config", "enable_ssh", "set_hostname", "set_wlan"}

guard_operation_label(call) ==
  IF call.op \in AUDIT_OPERATIONS THEN call.op ELSE "unknown"

validate_userconf_request(arg) == arg = "consolepi"

validate_ed25519_key(k) == k \in Ed25519

validate_ssh_request(arg) == validate_ed25519_key(arg)

validate_safe_imager_noop(op, arg) == op = "set_hostname" /\ arg = "clean"

\* The request of a call is one the guard lets through.
Permitted(call) ==
  CASE call.op = "user_config"  -> validate_userconf_request(call.arg)
    [] call.op = "enable_ssh"   -> validate_ssh_request(call.arg)
    [] OTHER                    -> validate_safe_imager_noop(call.op, call.arg)

Call == script[at]

Event(result) == [op |-> guard_operation_label(Call), result |-> result]

-----------------------------------------------------------------------------
Init == /\ script \in Scripts
        /\ payload = "firstrun" /\ generic = "pending"
        /\ authKey = NoKey /\ sshOp = NoKey /\ userOp = FALSE
        /\ audit = <<>> /\ torn = FALSE
        /\ failure = "absent" /\ success = FALSE
        /\ entry = [e \in Entries |-> "guard"]
        /\ changed = {} /\ bootMarker = "none"
        /\ pc = "off" /\ at = 1 /\ why = "none"
        /\ faults = 0 /\ markers = 0 /\ sessions = 0

(* pc: "off"; the payload "script"; a guard "check", "install", "record",  *)
(* "accept", "reject"; a failure marker "mark", "fill"; the recovery       *)
(* service "recovery", "consume", "activate"; the first-boot service       *)
(* "service", "validate", "restoreSsh", "restoreUser", "succeed",          *)
(* "markers"; its result "released" or "stopped".                          *)
Goto(where) == pc' = where

\* Mutant: the reason is lost on its way to the marker.
RaiseUnexplained(reason, where) == UNCHANGED why /\ Goto(where)

\* Nothing but the program counter and the reason to give changes.
Raise(reason, where) == why' = reason /\ Goto(where)

Environment == <<script, markers, sessions>>

\* Mutant: a refused call is served again.
MarkDoneRetry == IF payload = "firstrun" THEN Goto("script") /\ UNCHANGED at
                                         ELSE Goto("stopped") /\ UNCHANGED at

\* After a failure marker the payload goes on with its next call, and the
\* first-boot service gives up.
MarkDone == IF payload = "firstrun" THEN Goto("script") /\ at' = at + 1
                                    ELSE Goto("stopped") /\ UNCHANGED at

\* The new contents appear by a rename: all of them or none.
AtomicWrite(file, content) == file' = content

\* A fault meets the program, a crash or a write that fails.  A line that was
\* being appended to the audit may be left incomplete.
Fault == /\ faults < MaxFaults /\ faults' = faults + 1
         /\ torn' \in IF pc \in {"accept", "reject"} THEN {torn, TRUE}
                                                   ELSE {torn}
         /\ UNCHANGED <<image, account, audit, failure, success, at,
                        Environment>>

-----------------------------------------------------------------------------
(* The payload.                                                            *)

Boot == /\ pc = "off"
        /\ Goto(IF payload = "firstrun" THEN "script" ELSE "recovery")
        /\ at' = 1 /\ why' = "none"
        /\ UNCHANGED <<card, faults, Environment>>

RunGuard == /\ pc = "script" /\ at <= Len(script) /\ Call.op # "direct"
            /\ Goto("check")
            /\ UNCHANGED <<card, at, why, faults, Environment>>

RunDirect == /\ pc = "script" /\ at <= Len(script) /\ Call.op = "direct"
             /\ changed' = changed \cup {Call.arg}
             /\ at' = at + 1
             /\ UNCHANGED <<payload, account, log, failure, success, entry,
                            generic, bootMarker, pc, why, faults,
                            Environment>>

\* The payload deletes itself, then its kernel arguments, and restarts.
EndScript == /\ pc = "script" /\ at > Len(script)
             /\ payload' = IF payload = "firstrun" THEN "args" ELSE "clean"
             /\ Goto(IF payload = "firstrun" THEN "script" ELSE "off")
             /\ UNCHANGED <<account, log, failure, success, entry, generic,
                            changed, bootMarker, at, why, faults,
                            Environment>>

-----------------------------------------------------------------------------
(* The guards.                                                             *)

\* generic_pending() guards the call; locked_account() is asked before and
\* after the request is served.
GuardCheck ==
  /\ pc = "check"
  /\ IF generic_pending /\ locked_account /\ Permitted(Call)
     THEN /\ Goto(CASE Call.op = "user_config" -> "record"
                    [] Call.op = "enable_ssh"  -> "install"
                    [] OTHER                   -> "accept")
          /\ UNCHANGED why
     ELSE Raise("rejected", "reject")
  /\ UNCHANGED <<card, at, faults, Environment>>

\* Never over an existing authorized_keys; the new file appears by a rename.
install_authorized_key ==
  /\ pc = "install"
  /\ IF authKey = NoKey
     THEN authKey' = Call.arg /\ Goto("record") /\ UNCHANGED why
     ELSE Raise("rejected", "reject") /\ UNCHANGED authKey
  /\ UNCHANGED <<image, sshOp, userOp, log, failure, success, at, faults,
                 Environment>>

\* The record of an operation of this kind is already there.
Recorded == IF Call.op = "enable_ssh" THEN sshOp # NoKey ELSE userOp

record_operation ==
  /\ pc = "record"
  /\ IF Recorded
     THEN Raise("rejected", "reject") /\ UNCHANGED <<sshOp, userOp>>
     ELSE /\ IF Call.op = "enable_ssh"
             THEN AtomicWrite(sshOp, Call.arg) /\ UNCHANGED userOp
             ELSE AtomicWrite(userOp, TRUE) /\ UNCHANGED sshOp
          /\ Goto("accept") /\ UNCHANGED why
  /\ UNCHANGED <<image, authKey, log, failure, success, at, faults,
                 Environment>>

\* The audit takes a new event only if every line in it is complete.
append_guard_audit(result) ==
  /\ ~torn
  /\ audit' = Append(audit, Event(result))
  /\ UNCHANGED <<image, account, torn, failure, success>>

\* Mutant: an audit that cannot be continued does not refuse the call.
AcceptUnaudited ==
  /\ pc = "accept"
  /\ \/ /\ locked_account /\ append_guard_audit("accepted")
        /\ Goto("script") /\ at' = at + 1 /\ UNCHANGED why
     \/ /\ torn
        /\ Goto("script") /\ at' = at + 1 /\ UNCHANGED <<card, why>>
  /\ UNCHANGED <<faults, Environment>>

Accept ==
  /\ pc = "accept"
  /\ \/ /\ locked_account /\ append_guard_audit("accepted")
        /\ Goto("script") /\ at' = at + 1 /\ UNCHANGED why
     \/ /\ ~locked_account \/ torn
        /\ Raise("rejected", "reject") /\ UNCHANGED <<card, at>>
  /\ UNCHANGED <<faults, Environment>>

Reject ==
  /\ pc = "reject"
  /\ \/ append_guard_audit("rejected") /\ Goto("mark") /\ UNCHANGED why
     \/ torn /\ Raise("audit failed", "mark") /\ UNCHANGED card
  /\ UNCHANGED <<at, faults, Environment>>

\* One of these writes fails; the guard rejects the call.
GuardError ==
  /\ pc \in {"install", "record", "accept", "reject"}
  /\ IF pc = "reject" THEN Raise("audit failed", "mark")
                      ELSE Raise("rejected", "reject")
  /\ Fault

-----------------------------------------------------------------------------
(* The failure marker, for the guards and for the validation.              *)

\* Mutant: the marker is created without O_EXCL.
mark_failure_again ==
  /\ pc = "mark"
  /\ failure' = "partial" /\ Goto("fill")
  /\ UNCHANGED <<image, account, log, success, at, why, faults, Environment>>

\* Created with O_EXCL: whatever is there already stays.
mark_failure_once ==
  /\ pc = "mark"
  /\ IF failure = "absent"
     THEN failure' = "partial" /\ Goto("fill") /\ UNCHANGED at
     ELSE UNCHANGED failure /\ MarkDone
  /\ UNCHANGED <<image, account, log, success, why, faults, Environment>>

\* The reason is written into the file just created.
FillMarker ==
  /\ pc = "fill"
  /\ failure' = why
  /\ MarkDone
  /\ UNCHANGED <<image, account, log, success, why, faults, Environment>>

-----------------------------------------------------------------------------
(* The recovery shell on the local console.                                *)

\* The user puts a file on the FAT partition of a card that is off.
PutMarker == /\ pc = "off" /\ markers < MaxMarkers /\ bootMarker = "none"
             /\ bootMarker' \in {"empty", "unsafe"}
             /\ markers' = markers + 1
             /\ UNCHANGED <<payload, account, log, failure, success, entry,
                            generic, changed, pc, at, why, script, faults,
                            sessions>>

RecoveryAllowed == generic_pending \/ failure # "absent"

activate_recovery ==
  /\ pc = "recovery"
  /\ Goto(IF RecoveryAllowed /\ bootMarker = "empty" THEN "consume"
                                                     ELSE "service")
  /\ UNCHANGED <<card, at, why, faults, Environment>>

\* Mutant: the marker is not consumed before the shell.
ConsumeLater ==
  /\ pc = "consume"
  /\ Goto("activate")
  /\ UNCHANGED <<card, at, why, faults, Environment>>

\* The boot marker is unlinked, and that is on the disk, before anything else.
ConsumeMarker ==
  /\ pc = "consume"
  /\ bootMarker' = "none" /\ Goto("activate")
  /\ UNCHANGED <<payload, account, log, failure, success, entry, generic,
                 changed, at, why, faults, Environment>>

\* The active marker is written and the shell starts; it ends in the service.
ActivateShell ==
  /\ pc = "activate"
  /\ sessions' = sessions + 1 /\ Goto("service")
  /\ UNCHANGED <<card, at, why, script, faults, markers>>

-----------------------------------------------------------------------------
(* The first-boot service up to the point where it trusts the card.        *)

\* Mutant: the validation runs at every start of a pending card.
ServiceRepeats == /\ pc = "service"
                  /\ Goto(IF generic_pending THEN "validate" ELSE "markers")
                  /\ UNCHANGED <<card, at, why, faults, Environment>>

\* Once there is a success marker the validation is not run again.
Service == /\ pc = "service"
           /\ Goto(IF generic_pending /\ ~success THEN "validate"
                                                      ELSE "markers")
           /\ UNCHANGED <<card, at, why, faults, Environment>>

ensure_transaction_open == failure = "absent" /\ ~success

\* authorized_keys is a safe file with exactly one plain Ed25519 key.
validate_authorized_key == validate_ed25519_key(authKey)

validate_generic_access == locked_account /\ validate_authorized_key

unexpected_login_accounts == changed \cap {"account"}

\* A marker that must be there, with its contents.
read_strict_marker(marker) == marker # NoKey

\* Mutant: the network profile and the host name are not looked at.
ValidCardOnly == /\ payload = "clean"
                 /\ validate_generic_access /\ unexpected_login_accounts = {}
                 /\ read_strict_marker(sshOp) /\ sshOp = authKey

\* Mutant: the optional record of the account entry is required.
ValidCardWithUser == /\ payload = "clean" /\ changed = {} /\ userOp
                     /\ validate_authorized_key /\ sshOp = authKey

\* What consolepi-imager-postvalidate demands before it changes anything.
ValidCard == /\ payload = "clean"
             /\ validate_generic_access /\ unexpected_login_accounts = {}
             /\ read_strict_marker(sshOp) /\ sshOp = authKey
             /\ "profile" \notin changed

PostValidate ==
  /\ pc = "validate"
  /\ IF ensure_transaction_open /\ ValidCard
     THEN Goto("restoreSsh") /\ UNCHANGED why
     ELSE Raise("not valid", "mark")
  /\ UNCHANGED <<card, at, faults, Environment>>

\* The preserved vendor program replaces the guard by a rename, so a second
\* attempt finds no preserved program and fails.
restore_vendor_entrypoint(e, where) ==
  /\ IF entry[e] = "guard"
     THEN /\ entry' = [entry EXCEPT ![e] = "vendor"]
          /\ Goto(where) /\ UNCHANGED why
     ELSE UNCHANGED entry /\ Raise("not valid", "mark")
  /\ UNCHANGED <<payload, account, log, failure, success, generic, changed,
                 bootMarker, at, faults, Environment>>

RestoreSsh  == pc = "restoreSsh"  /\ restore_vendor_entrypoint("ssh", "restoreUser")
RestoreUser == pc = "restoreUser" /\ restore_vendor_entrypoint("user", "succeed")

Succeed == /\ pc = "succeed"
           /\ AtomicWrite(success, TRUE) /\ Goto("markers")
           /\ UNCHANGED <<image, account, log, failure, at, why, faults,
                          Environment>>

\* A rename or the write of the success marker fails.
ValidationError == /\ pc \in {"restoreSsh", "restoreUser", "succeed"}
                   /\ Raise("not valid", "mark") /\ Fault

\* Every start ends here: the services that require this one run or do not.
validate_imager_markers ==
  /\ pc = "markers"
  /\ Goto(IF failure = "absent" /\ success /\ validate_generic_access
          THEN "released" ELSE "stopped")
  /\ UNCHANGED <<card, at, why, faults, Environment>>

\* The rest of the service succeeded: the web claim is open.
Claimable == /\ pc = "released" /\ generic_pending
             /\ generic' = "claim_pending"
             /\ UNCHANGED <<payload, account, log, failure, success, entry,
                            changed, bootMarker, pc, at, why, faults,
                            Environment>>

\* An orderly restart, as often as the user likes.
Restart == /\ pc \in {"released", "stopped"}
           /\ Goto("off")
           /\ UNCHANGED <<card, at, why, faults, Environment>>

\* The power fails.
Crash == pc # "off" /\ Goto("off") /\ UNCHANGED why /\ Fault

-----------------------------------------------------------------------------
Work == \/ Boot \/ RunGuard \/ RunDirect \/ EndScript
        \/ GuardCheck \/ install_authorized_key \/ record_operation
        \/ Accept \/ Reject \/ mark_failure_once \/ FillMarker
        \/ activate_recovery \/ ConsumeMarker \/ ActivateShell
        \/ Service \/ PostValidate \/ RestoreSsh \/ RestoreUser \/ Succeed
        \/ validate_imager_markers

Next == \/ Work \/ Claimable
        \/ Restart \/ Crash \/ GuardError \/ ValidationError \/ PutMarker

Spec == Init /\ [][Next]_vars

\* A program that was started runs on, and a card that is off is started.
FairSpec == Spec /\ WF_vars(Work)

-----------------------------------------------------------------------------
(* Properties.                                                             *)

TypeOK ==
  /\ script \in Scripts
  /\ payload \in {"firstrun", "args", "clean"}
  /\ authKey \in Keys \cup {NoKey} /\ sshOp \in Keys \cup {NoKey}
  /\ userOp \in BOOLEAN /\ torn \in BOOLEAN /\ success \in BOOLEAN
  /\ audit \in Seq([op : AUDIT_OPERATIONS \cup {"unknown"},
                    result : {"accepted", "rejected"}])
  /\ failure \in {"absent"} \cup Present
  /\ entry \in [Entries -> {"guard", "vendor"}]
  /\ generic \in {"pending", "claim_pending"}
  /\ changed \subseteq Changes
  /\ bootMarker \in {"none", "empty", "unsafe"}
  /\ pc \in {"off", "script", "check", "install", "record", "accept", "reject",
             "mark", "fill", "recovery", "consume", "activate", "service",
             "validate", "restoreSsh", "restoreUser", "succeed", "markers",
             "released", "stopped"}
  /\ at \in Nat /\ why \in {"none"} \cup Reasons
  /\ faults \in 0..MaxFaults /\ markers \in 0..MaxMarkers /\ sessions \in Nat

Calls == {script[i] : i \in 1..Len(script)}

\* The services are released only when every call the payload made was one
\* the guards permit, exactly one of them brought the key the administrator
\* now has, and nothing was done past the guards - however often the payload
\* was cut off and run again.
ReleasedOnlyAsAsked ==
  pc = "released" =>
    /\ \A call \in Calls : call.op # "direct" /\ Permitted(call)
    /\ \E i \in 1..Len(script) :
         /\ script[i].op = "enable_ssh" /\ script[i].arg = authKey
         /\ \A j \in 1..Len(script) : script[j].op = "enable_ssh" => j = i
    /\ entry = [e \in Entries |-> "vendor"]

\* Nothing that took effect is missing from the audit: when the services are
\* released it holds an accepted event of every call of the payload, so a key
\* installed just before a power failure cannot slip in without its record.
ReleasedIsAudited ==
  pc = "released" =>
    \A call \in Calls : \E n \in 1..Len(audit) :
      audit[n] = [op |-> guard_operation_label(call), result |-> "accepted"]

\* The first failure stays, with its reason: a marker that has its reason
\* keeps it, one whose reason the power cut off stays without, and only the
\* program that created it fills it in.
FirstFailureStays ==
  [][failure # "absent" =>
       \/ failure' = failure
       \/ failure = "partial" /\ pc = "fill" /\ failure' = why]_vars

\* A recovery marker is good for one shell at most, wherever the power fails.
OneShellPerMarker ==
  sessions + (IF bootMarker = "none" THEN 0 ELSE 1) <= markers

\* The customisation is decided once, and the verdict is kept (ImagerPromise).
Promise == INSTANCE ImagerPromise
  WITH verdict <- IF failure # "absent" THEN "failed"
                  ELSE IF success THEN "imported" ELSE "open",
       key     <- IF failure = "absent" /\ success THEN authKey ELSE NoKey,
       up      <- pc = "released"

KeepsPromise == Promise!Spec

\* The payload asks only for what is permitted, with one key.
CleanScript ==
  /\ \A call \in Calls : call.op # "direct" /\ Permitted(call)
  /\ \E call \in Calls : call.op = "enable_ssh"
  /\ \A op \in {"enable_ssh", "user_config"} :
       \A i, j \in 1..Len(script) :
         script[i].op = op /\ script[j].op = op => i = j

\* The import is not merely safe: a permitted payload on a card that meets no
\* fault is imported and the services are released.
CleanIsReleased == CleanScript => <>(pc = "released" \/ faults > 0)

\* Every start comes to a verdict: whatever fails, the payload is over one day
\* and the first-boot service releases the services or stops them.
StartsComeToVerdict == []<>(pc \in {"released", "stopped"})
-----------------------------------------------------------------------------
(* The inductive invariant behind these.                                   *)

GuardSteps == {"check", "install", "record", "accept", "reject"}

\* Calls of the payload that were served: at this start, or, once the payload
\* has come to its end, at the start that it did so.
Served == {i \in 1..Len(script) : payload # "firstrun" \/ i < at}

Audited(call) ==
  \E n \in 1..Len(audit) :
    audit[n] = [op |-> guard_operation_label(call), result |-> "accepted"]

\* Guards run for calls of a payload that is still there; the services after
\* a payload that has come to its end.
PayloadInv ==
  /\ at >= 1
  /\ pc \in GuardSteps => payload = "firstrun"
  /\ pc \in GuardSteps \cup {"mark", "fill"} /\ payload = "firstrun" =>
       at <= Len(script) /\ Call.op # "direct"
  /\ pc = "script" => payload = "firstrun" \/ (payload = "args" /\ at > Len(script))
  /\ pc \notin GuardSteps \cup {"off", "script", "mark", "fill"} =>
       payload # "firstrun"

\* What a guard has checked and written so far for the call it serves.
GuardInv ==
  /\ pc \in {"install", "record", "accept"} => Permitted(Call)
  /\ pc = "install" => Call.op = "enable_ssh"
  /\ pc = "record"  => Call.op \in {"enable_ssh", "user_config"}
  /\ pc \in {"record", "accept"} /\ Call.op = "enable_ssh" =>
       /\ authKey = Call.arg
       /\ failure = "absent" => \A i \in Served : script[i].op # "enable_ssh"
  /\ pc = "accept" /\ Call.op = "enable_ssh" => sshOp = Call.arg
  /\ sshOp # NoKey => \E i \in 1..Len(script) :
                        script[i].op = "enable_ssh" /\ script[i].arg = sshOp

\* A served call went past the guards and left its change, or was accepted
\* with its event and, if it brought a key, with the only key; else there is a
\* failure marker.
ServedInv ==
  \A i \in Served :
    IF script[i].op = "direct" THEN script[i].arg \in changed
    ELSE failure = "absent" =>
           /\ Permitted(script[i]) /\ Audited(script[i])
           /\ script[i].op = "enable_ssh" =>
                /\ authKey = script[i].arg /\ sshOp = script[i].arg
                /\ \A j \in Served : script[j].op = "enable_ssh" => j = i

\* The markers exclude each other, and a success marker is written for a card
\* that is still as it was when it was validated.
VerdictInv ==
  /\ pc \in {"reject", "mark", "fill"} => why # "none"
  /\ pc = "fill" => failure = "partial"
  /\ pc \in {"mark", "fill", "validate", "restoreSsh", "restoreUser", "succeed"} =>
       ~success
  /\ pc \in {"restoreSsh", "restoreUser", "succeed"} \/ success =>
       failure = "absent" /\ ValidCard
  /\ pc \in {"restoreUser", "succeed"} \/ success => entry["ssh"] = "vendor"
  /\ pc = "succeed" \/ success => entry["user"] = "vendor"
  /\ pc = "released" => success

\* A marker on the card, or the shell that is about to start for one that was
\* consumed, has not been counted as a shell yet.
RecoveryInv ==
  /\ pc = "consume" => bootMarker # "none"
  /\ sessions + (IF bootMarker = "none" THEN 0 ELSE 1)
              + (IF pc = "activate" THEN 1 ELSE 0) <= markers

InductiveInv == /\ TypeOK /\ PayloadInv /\ GuardInv /\ ServedInv
                /\ VerdictInv /\ RecoveryInv
=============================================================================
