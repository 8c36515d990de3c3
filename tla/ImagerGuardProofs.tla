-------------------------- MODULE ImagerGuardProofs --------------------------
(***************************************************************************)
(* Proofs about ImagerGuard, for every payload and any number of crashes,  *)
(* failing writes and recovery markers: types; what the guards, the        *)
(* validation and the recovery stand on; that the services are released    *)
(* only on what the payload asked for, and audited; one shell per recovery *)
(* marker; a failure marker that stays; and that the whole keeps the       *)
(* promise of ImagerPromise.                                               *)
(***************************************************************************)
EXTENDS ImagerGuard, TLAPS

GuardAction == \/ RunGuard \/ GuardCheck \/ install_authorized_key
               \/ record_operation \/ Accept \/ Reject \/ GuardError

MarkerAction == mark_failure_once \/ FillMarker

RecoveryAction == activate_recovery \/ ConsumeMarker \/ ActivateShell \/ PutMarker

ServiceAction == \/ Service \/ PostValidate \/ RestoreSsh \/ RestoreUser
                 \/ Succeed \/ ValidationError \/ validate_imager_markers
                 \/ Claimable

StartAction == Boot \/ RunDirect \/ EndScript \/ Restart \/ Crash

LEMMA NextIsOneOf ==
  [Next]_vars <=> \/ StartAction \/ GuardAction \/ MarkerAction
                  \/ RecoveryAction \/ ServiceAction \/ UNCHANGED vars
BY DEF Next, Work, StartAction, GuardAction, MarkerAction, RecoveryAction,
   ServiceAction

-----------------------------------------------------------------------------
(* What a call is.                                                         *)

LEMMA ScriptLen == script \in Scripts => Len(script) \in Nat
BY ScriptsAssumption

Events == [op : AUDIT_OPERATIONS \cup {"unknown"}, result : {"accepted", "rejected"}]

LEMMA LabelType ==
  \A call : guard_operation_label(call) \in AUDIT_OPERATIONS \cup {"unknown"}
BY DEF guard_operation_label

\* The only argument that enable_ssh is permitted with is a plain key.
LEMMA PermittedKey ==
    ASSUME NEW call, Permitted(call), call.op = "enable_ssh"
    PROVE  call.arg \in Keys /\ call.arg # NoKey
<1>1. call.arg \in Ed25519
  BY DEF Permitted, validate_ssh_request, validate_ed25519_key
<1>. QED BY <1>1, KeysAssumption

\* Any event that is appended keeps the audit a list of events.
LEMMA AuditType ==
    ASSUME TypeOK, NEW result \in {"accepted", "rejected"},
           append_guard_audit(result)
    PROVE  audit' \in Seq(Events)
<1>1. Event(result) \in Events
  BY LabelType DEF Event, Events
<1>. QED BY <1>1 DEF append_guard_audit, TypeOK, Events

\* An audited call stays audited when the audit grows.
LEMMA AuditGrows ==
    ASSUME TypeOK, NEW result \in {"accepted", "rejected"},
           append_guard_audit(result), NEW call, Audited(call)
    PROVE  Audited(call)'
<1> DEFINE event == [op |-> guard_operation_label(call), result |-> "accepted"]
<1>1. PICK n \in 1..Len(audit) : audit[n] = event
  BY DEF Audited
<1>2. n \in 1..Len(audit') /\ audit'[n] = audit[n]
  BY DEF append_guard_audit, TypeOK
<1>3. \E m \in 1..Len(audit') : audit'[m] = event
  BY <1>1, <1>2
<1>. QED BY <1>3 DEF Audited, guard_operation_label

-----------------------------------------------------------------------------
(* Types.                                                                  *)


AccountTypes ==
  authKey \in Keys \cup {NoKey} /\ sshOp \in Keys \cup {NoKey} /\ userOp \in BOOLEAN

LogTypes == audit \in Seq(Events) /\ torn \in BOOLEAN

MarkerTypes == failure \in {"absent"} \cup Present /\ success \in BOOLEAN

ImageTypes ==
  /\ payload \in {"firstrun", "args", "clean"}
  /\ entry \in [Entries -> {"guard", "vendor"}]
  /\ generic \in {"pending", "claim_pending"} /\ changed \subseteq Changes
  /\ bootMarker \in {"none", "empty", "unsafe"}

RunTypes ==
  /\ pc \in {"off", "script", "check", "install", "record", "accept", "reject",
             "mark", "fill", "recovery", "consume", "activate", "service",
             "validate", "restoreSsh", "restoreUser", "succeed", "markers",
             "released", "stopped"}
  /\ at \in Nat /\ why \in {"none"} \cup Reasons

EnvironmentTypes ==
  /\ script \in Scripts
  /\ faults \in 0..MaxFaults /\ markers \in 0..MaxMarkers /\ sessions \in Nat

LEMMA TypeParts ==
  TypeOK <=> /\ AccountTypes /\ LogTypes /\ MarkerTypes /\ ImageTypes
             /\ RunTypes /\ EnvironmentTypes
BY DEF TypeOK, AccountTypes, LogTypes, Events, MarkerTypes, ImageTypes, RunTypes,
       EnvironmentTypes

LEMMA NextParts ==
  TypeOK' <=> /\ AccountTypes' /\ LogTypes' /\ MarkerTypes' /\ ImageTypes'
              /\ RunTypes' /\ EnvironmentTypes'
BY DEF TypeOK, AccountTypes, LogTypes, Events, MarkerTypes, ImageTypes, RunTypes,
       EnvironmentTypes

\* Most steps leave most of these alone.
LEMMA SameTypes ==
  ASSUME TypeOK
  PROVE  /\ UNCHANGED account => AccountTypes'
         /\ UNCHANGED log => LogTypes'
         /\ UNCHANGED <<failure, success>> => MarkerTypes'
         /\ UNCHANGED image => ImageTypes'
         /\ UNCHANGED <<Environment, faults>> => EnvironmentTypes'
<1>1. UNCHANGED account => AccountTypes'
  BY TypeParts DEF account, AccountTypes
<1>2. UNCHANGED log => LogTypes'
  BY TypeParts DEF log, LogTypes
<1>3. UNCHANGED <<failure, success>> => MarkerTypes'
  BY TypeParts DEF MarkerTypes
<1>4. UNCHANGED image => ImageTypes'
  BY TypeParts DEF image, ImageTypes
<1>5. UNCHANGED <<Environment, faults>> => EnvironmentTypes'
  BY TypeParts DEF Environment, EnvironmentTypes
<1>. QED BY <1>1, <1>2, <1>3, <1>4, <1>5

LEMMA SameCard ==
  ASSUME TypeOK, UNCHANGED card
  PROVE  AccountTypes' /\ LogTypes' /\ MarkerTypes' /\ ImageTypes'
BY SameTypes DEF card

\* A fault may leave a line of the audit incomplete, and is counted.
LEMMA FaultTypes ==
  ASSUME TypeOK, Fault
  PROVE  /\ AccountTypes' /\ LogTypes' /\ MarkerTypes' /\ ImageTypes'
         /\ EnvironmentTypes' /\ at' = at
<1>1. torn' \in BOOLEAN /\ audit' = audit
  BY TypeParts DEF Fault, LogTypes
<1>2. faults' \in 0..MaxFaults /\ UNCHANGED Environment
  BY BoundsAssumption, TypeParts DEF Fault, EnvironmentTypes
<1>3. UNCHANGED account /\ UNCHANGED image /\ UNCHANGED <<failure, success, at>>
  BY DEF Fault
<1>4. LogTypes'
  BY <1>1, TypeParts DEF LogTypes
<1>5. EnvironmentTypes'
  BY <1>2, TypeParts DEF EnvironmentTypes, Environment
<1>. QED BY <1>3, <1>4, <1>5, SameTypes

\* The guard goes on with the next call of the payload.
LEMMA NextCallTypes ==
  ASSUME RunTypes, pc' = "script", at' = at + 1, why' = why
  PROVE  RunTypes'
BY DEF RunTypes

LEMMA TypeInit == Init => TypeOK
<1> SUFFICES ASSUME Init PROVE TypeOK
  OBVIOUS
<1>1. AccountTypes
  BY DEF Init, AccountTypes
<1>2. LogTypes
  <2>1. audit \in Seq(Events)
    BY DEF Init
  <2>2. torn \in BOOLEAN
    BY DEF Init
  <2>. QED BY <2>1, <2>2 DEF LogTypes
<1>5. MarkerTypes
  BY DEF Init, MarkerTypes
<1>3. ImageTypes /\ RunTypes
  BY DEF Init, ImageTypes, RunTypes
<1>4. EnvironmentTypes
  BY BoundsAssumption DEF Init, EnvironmentTypes
<1>. QED BY <1>1, <1>2, <1>3, <1>4, <1>5, TypeParts

LEMMA StartTypes == TypeOK /\ PayloadInv /\ StartAction => TypeOK'
<1> SUFFICES ASSUME TypeOK, PayloadInv, StartAction PROVE TypeOK'
  OBVIOUS
<1>0. RunTypes /\ ImageTypes /\ EnvironmentTypes
  BY TypeParts
<1> USE DEF Goto
<1>1. CASE Boot
  <2>1. RunTypes'
    BY <1>1 DEF Boot, RunTypes
  <2>. QED BY <1>1, <2>1, SameCard, SameTypes, NextParts DEF Boot
<1>2. CASE RunDirect
  <2>1. RunTypes'
    BY <1>0, <1>2 DEF RunDirect, RunTypes
  <2>2. Call.arg \in Changes
    <3>1. at \in 1..Len(script) /\ script \in Scripts
      BY <1>0, <1>2, ScriptsAssumption DEF RunDirect, RunTypes, EnvironmentTypes,
         PayloadInv
    <3>. QED BY <1>2, <3>1, ScriptsAssumption DEF RunDirect, Call
  <2>3. ImageTypes'
    BY <1>0, <1>2, <2>2 DEF RunDirect, ImageTypes
  <2>. QED BY <1>2, <2>1, <2>3, SameTypes, NextParts DEF RunDirect
<1>3. CASE EndScript
  <2>1. RunTypes' /\ ImageTypes'
    BY <1>0, <1>3 DEF EndScript, RunTypes, ImageTypes
  <2>. QED BY <1>3, <2>1, SameTypes, NextParts DEF EndScript
<1>4. CASE Restart
  <2>1. RunTypes'
    BY <1>0, <1>4 DEF Restart, RunTypes
  <2>. QED BY <1>4, <2>1, SameCard, SameTypes, NextParts DEF Restart
<1>5. CASE Crash
  <2>1. RunTypes'
    BY <1>0, <1>5, FaultTypes DEF Crash, RunTypes
  <2>. QED BY <1>5, <2>1, FaultTypes, NextParts DEF Crash
<1>. QED BY <1>1, <1>2, <1>3, <1>4, <1>5 DEF StartAction

\* The guards write what was found permitted; a permitted key is a key.
LEMMA GuardTypes == TypeOK /\ GuardInv /\ GuardAction => TypeOK'
<1> SUFFICES ASSUME TypeOK, GuardInv, GuardAction PROVE TypeOK'
  OBVIOUS
<1>0. RunTypes /\ AccountTypes /\ LogTypes
  BY TypeParts
<1> USE DEF Goto, Raise, Reasons
<1>1. CASE RunGuard
  <2>1. RunTypes'
    BY <1>0, <1>1 DEF RunGuard, RunTypes
  <2>. QED BY <1>1, <2>1, SameCard, SameTypes, NextParts DEF RunGuard
<1>2. CASE GuardCheck
  <2>1. pc' \in {"record", "install", "accept", "reject"} /\ why' \in {why, "rejected"}
    BY <1>2 DEF GuardCheck
  <2>2. RunTypes'
    BY <1>0, <1>2, <2>1 DEF GuardCheck, RunTypes
  <2>. QED BY <1>2, <2>2, SameCard, SameTypes, NextParts DEF GuardCheck
<1>3. CASE install_authorized_key
  <2>1. RunTypes'
    BY <1>0, <1>3 DEF install_authorized_key, RunTypes
  <2>2. AccountTypes'
    BY <1>0, <1>3, PermittedKey DEF install_authorized_key, GuardInv, AccountTypes
  <2>. QED BY <1>3, <2>1, <2>2, SameTypes, NextParts DEF install_authorized_key
<1>4. CASE record_operation
  <2>1. RunTypes'
    BY <1>0, <1>4 DEF record_operation, RunTypes
  <2>2. AccountTypes'
    BY <1>0, <1>4, PermittedKey DEF record_operation, GuardInv, AtomicWrite, AccountTypes
  <2>. QED BY <1>4, <2>1, <2>2, SameTypes, NextParts DEF record_operation
<1>5. CASE Accept
  <2>1. RunTypes'
    <3>1. CASE pc' = "script" /\ at' = at + 1 /\ why' = why
      BY <1>0, <3>1, NextCallTypes
    <3>2. CASE pc' = "reject" /\ at' = at /\ why' = "rejected"
      BY <1>0, <3>2 DEF RunTypes
    <3>. QED BY <1>5, <3>1, <3>2 DEF Accept
  <2>2. AccountTypes' /\ LogTypes' /\ MarkerTypes' /\ ImageTypes'
    <3>1. CASE append_guard_audit("accepted")
      <4>1. LogTypes'
        BY <1>0, <3>1, AuditType DEF LogTypes, append_guard_audit
      <4>. QED BY <3>1, <4>1, SameTypes DEF append_guard_audit
    <3>2. CASE UNCHANGED card
      BY <3>2, SameCard
    <3>. QED BY <1>5, <3>1, <3>2 DEF Accept
  <2>. QED BY <1>5, <2>1, <2>2, SameTypes, NextParts DEF Accept
<1>6. CASE Reject
  <2>1. RunTypes'
    BY <1>0, <1>6 DEF Reject, RunTypes
  <2>2. AccountTypes' /\ LogTypes' /\ MarkerTypes' /\ ImageTypes'
    <3>1. CASE append_guard_audit("rejected")
      <4>1. LogTypes'
        BY <1>0, <3>1, AuditType DEF LogTypes, append_guard_audit
      <4>. QED BY <3>1, <4>1, SameTypes DEF append_guard_audit
    <3>2. CASE UNCHANGED card
      BY <3>2, SameCard
    <3>. QED BY <1>6, <3>1, <3>2 DEF Reject
  <2>. QED BY <1>6, <2>1, <2>2, SameTypes, NextParts DEF Reject
<1>7. CASE GuardError
  <2>1. RunTypes'
    BY <1>0, <1>7, FaultTypes DEF GuardError, RunTypes
  <2>. QED BY <1>7, <2>1, FaultTypes, NextParts DEF GuardError
<1>. QED BY <1>1, <1>2, <1>3, <1>4, <1>5, <1>6, <1>7 DEF GuardAction

\* A marker is only filled in with a reason.
LEMMA FailureTypes == TypeOK /\ VerdictInv /\ MarkerAction => TypeOK'
<1> SUFFICES ASSUME TypeOK, VerdictInv, MarkerAction PROVE TypeOK'
  OBVIOUS
<1>0. RunTypes /\ MarkerTypes
  BY TypeParts
<1> USE DEF Goto, MarkDone, Present
<1>1. CASE mark_failure_once
  <2>1. RunTypes'
    BY <1>0, <1>1 DEF mark_failure_once, RunTypes
  <2>2. MarkerTypes'
    BY <1>0, <1>1 DEF mark_failure_once, MarkerTypes
  <2>. QED BY <1>1, <2>1, <2>2, SameTypes, NextParts DEF mark_failure_once
<1>2. CASE FillMarker
  <2>1. RunTypes'
    BY <1>0, <1>2 DEF FillMarker, RunTypes
  <2>2. MarkerTypes'
    BY <1>0, <1>2 DEF FillMarker, MarkerTypes, RunTypes, VerdictInv
  <2>. QED BY <1>2, <2>1, <2>2, SameTypes, NextParts DEF FillMarker
<1>. QED BY <1>1, <1>2 DEF MarkerAction

LEMMA RecoveryTypes == TypeOK /\ RecoveryAction => TypeOK'
<1> SUFFICES ASSUME TypeOK, RecoveryAction PROVE TypeOK'
  OBVIOUS
<1>0. RunTypes /\ ImageTypes /\ EnvironmentTypes
  BY TypeParts
<1> USE DEF Goto
<1>1. CASE activate_recovery
  <2>1. RunTypes'
    BY <1>0, <1>1 DEF activate_recovery, RunTypes
  <2>. QED BY <1>1, <2>1, SameCard, SameTypes, NextParts DEF activate_recovery
<1>2. CASE ConsumeMarker
  <2>1. RunTypes' /\ ImageTypes'
    BY <1>0, <1>2 DEF ConsumeMarker, RunTypes, ImageTypes
  <2>. QED BY <1>2, <2>1, SameTypes, NextParts DEF ConsumeMarker
<1>3. CASE ActivateShell
  <2>1. RunTypes' /\ EnvironmentTypes'
    BY <1>0, <1>3 DEF ActivateShell, RunTypes, EnvironmentTypes
  <2>. QED BY <1>3, <2>1, SameCard, NextParts DEF ActivateShell
<1>4. CASE PutMarker
  <2>1. RunTypes' /\ ImageTypes'
    BY <1>0, <1>4 DEF PutMarker, RunTypes, ImageTypes
  <2>2. EnvironmentTypes'
    BY <1>0, <1>4, BoundsAssumption DEF PutMarker, EnvironmentTypes
  <2>. QED BY <1>4, <2>1, <2>2, SameTypes, NextParts DEF PutMarker
<1>. QED BY <1>1, <1>2, <1>3, <1>4 DEF RecoveryAction

LEMMA ServiceTypes == TypeOK /\ ServiceAction => TypeOK'
<1> SUFFICES ASSUME TypeOK, ServiceAction PROVE TypeOK'
  OBVIOUS
<1>0. RunTypes /\ ImageTypes /\ MarkerTypes
  BY TypeParts
<1> USE DEF Goto, Raise, Reasons
<1>1. CASE Service
  <2>1. RunTypes'
    BY <1>0, <1>1 DEF Service, RunTypes
  <2>. QED BY <1>1, <2>1, SameCard, SameTypes, NextParts DEF Service
<1>2. CASE PostValidate
  <2>1. RunTypes'
    BY <1>0, <1>2 DEF PostValidate, RunTypes
  <2>. QED BY <1>2, <2>1, SameCard, SameTypes, NextParts DEF PostValidate
<1>3. CASE RestoreSsh \/ RestoreUser
  <2>1. RunTypes'
    BY <1>0, <1>3 DEF RestoreSsh, RestoreUser, restore_vendor_entrypoint, RunTypes
  <2>2. ImageTypes'
    BY <1>0, <1>3 DEF RestoreSsh, RestoreUser, restore_vendor_entrypoint, ImageTypes
  <2>3. /\ UNCHANGED account /\ UNCHANGED log /\ UNCHANGED <<failure, success>>
        /\ UNCHANGED <<Environment, faults>>
    BY <1>3 DEF RestoreSsh, RestoreUser, restore_vendor_entrypoint
  <2>. QED BY <2>1, <2>2, <2>3, SameTypes, NextParts
<1>4. CASE Succeed
  <2>1. RunTypes' /\ MarkerTypes'
    BY <1>0, <1>4 DEF Succeed, AtomicWrite, RunTypes, MarkerTypes
  <2>. QED BY <1>4, <2>1, SameTypes, NextParts DEF Succeed
<1>5. CASE ValidationError
  <2>1. RunTypes'
    BY <1>0, <1>5, FaultTypes DEF ValidationError, RunTypes
  <2>. QED BY <1>5, <2>1, FaultTypes, NextParts DEF ValidationError
<1>6. CASE validate_imager_markers
  <2>1. RunTypes'
    BY <1>0, <1>6 DEF validate_imager_markers, RunTypes
  <2>. QED BY <1>6, <2>1, SameCard, SameTypes, NextParts DEF validate_imager_markers
<1>7. CASE Claimable
  <2>1. RunTypes' /\ ImageTypes'
    BY <1>0, <1>7 DEF Claimable, RunTypes, ImageTypes
  <2>. QED BY <1>7, <2>1, SameTypes, NextParts DEF Claimable
<1>. QED BY <1>1, <1>2, <1>3, <1>4, <1>5, <1>6, <1>7 DEF ServiceAction

LEMMA TypeStep ==
    ASSUME TypeOK, PayloadInv, GuardInv, VerdictInv, [Next]_vars
    PROVE  TypeOK'
<1>1. CASE UNCHANGED vars
  <2>1. RunTypes'
    BY <1>1, TypeParts DEF vars, RunTypes
  <2>. QED BY <1>1, <2>1, SameCard, SameTypes, NextParts DEF vars, Environment
<1>. QED BY <1>1, StartTypes, GuardTypes, FailureTypes, RecoveryTypes, ServiceTypes,
         NextIsOneOf

-----------------------------------------------------------------------------
(* The payload and who runs for it.                                        *)

LEMMA PayloadInit == Init => PayloadInv
BY DEF Init, PayloadInv, GuardSteps

LEMMA PayloadStep ==
    ASSUME TypeOK, PayloadInv, [Next]_vars
    PROVE  PayloadInv'
<1>0. /\ at \in Nat /\ script \in Scripts /\ Len(script) \in Nat
      /\ payload \in {"firstrun", "args", "clean"}
  BY ScriptsAssumption DEF TypeOK
<1> USE DEF PayloadInv, GuardSteps, Call, Goto, Environment, image
<1>1. CASE StartAction
  <2>1. CASE Boot
    BY <1>0, <2>1 DEF Boot, card
  <2>2. CASE RunDirect
    BY <1>0, <2>2 DEF RunDirect
  <2>3. CASE EndScript
    BY <1>0, <2>3 DEF EndScript
  <2>4. CASE Restart \/ Crash
    BY <1>0, <2>4 DEF Restart, Crash, Fault, card
  <2>. QED BY <1>1, <2>1, <2>2, <2>3, <2>4 DEF StartAction
<1>2. CASE GuardAction
  <2>1. CASE RunGuard
    BY <1>0, <2>1 DEF RunGuard, card
  <2>2. CASE GuardCheck
    <3>1. pc = "check" /\ pc' \in {"record", "install", "accept", "reject"}
      BY <2>2 DEF GuardCheck, Raise
    <3>2. UNCHANGED <<payload, at, script>>
      BY <2>2 DEF GuardCheck, card
    <3>. QED BY <1>0, <3>1, <3>2
  <2>3. CASE install_authorized_key
    BY <1>0, <2>3 DEF install_authorized_key, Raise
  <2>4. CASE record_operation
    BY <1>0, <2>4 DEF record_operation, Raise
  <2>5. CASE Accept
    <3>1. pc = "accept" /\ UNCHANGED <<payload, script>>
      BY <2>5 DEF Accept, append_guard_audit, card
    <3>2. CASE pc' = "script" /\ at' = at + 1
      BY <1>0, <3>1, <3>2
    <3>3. CASE pc' = "reject" /\ at' = at
      BY <1>0, <3>1, <3>3
    <3>. QED BY <2>5, <3>2, <3>3 DEF Accept, Raise
  <2>6. CASE Reject
    BY <1>0, <2>6 DEF Reject, append_guard_audit, Raise, card
  <2>7. CASE GuardError
    BY <1>0, <2>7 DEF GuardError, Fault, Raise
  <2>. QED BY <1>2, <2>1, <2>2, <2>3, <2>4, <2>5, <2>6, <2>7 DEF GuardAction
<1>3. CASE MarkerAction
  BY <1>0, <1>3 DEF MarkerAction, mark_failure_once, FillMarker, MarkDone
<1>4. CASE RecoveryAction
  BY <1>0, <1>4 DEF RecoveryAction, activate_recovery, ConsumeMarker, ActivateShell,
     PutMarker, card
<1>5. CASE ServiceAction
  <2>1. CASE RestoreSsh \/ RestoreUser
    BY <1>0, <2>1 DEF RestoreSsh, RestoreUser, restore_vendor_entrypoint, Raise
  <2>2. CASE ~(RestoreSsh \/ RestoreUser)
    BY <1>0, <1>5, <2>2 DEF ServiceAction, Service, PostValidate, Succeed, ValidationError, Fault,
       validate_imager_markers, Claimable, Raise, card
  <2>. QED BY <2>1, <2>2
<1>6. CASE UNCHANGED vars
  BY <1>6 DEF vars, card
<1>. QED BY <1>1, <1>2, <1>3, <1>4, <1>5, <1>6, NextIsOneOf

-----------------------------------------------------------------------------
(* The failure marker, the validation and the success marker.              *)

LEMMA VerdictInit == Init => VerdictInv
BY DEF Init, VerdictInv

\* Whether the card is valid is read from the payload, the account and what
\* was changed.
LEMMA ValidCardStays ==
    ASSUME ValidCard, UNCHANGED <<payload, authKey, sshOp, changed>>
    PROVE  ValidCard'
BY DEF ValidCard, validate_generic_access, locked_account, validate_authorized_key,
   validate_ed25519_key, unexpected_login_accounts, read_strict_marker

LEMMA VerdictStep ==
    ASSUME TypeOK, PayloadInv, VerdictInv, [Next]_vars
    PROVE  VerdictInv'
<1> USE DEF VerdictInv, Goto
<1>0. success => payload = "clean"
  BY DEF ValidCard
<1>1. CASE StartAction
  <2>1. CASE RunDirect \/ EndScript
    <3>1. ~success
      BY <1>0, <2>1 DEF RunDirect, EndScript, PayloadInv
    <3>. QED BY <2>1, <3>1 DEF RunDirect, EndScript
  <2>2. CASE Boot \/ Restart \/ Crash
    <3>1. /\ UNCHANGED <<success, failure, entry>> /\ pc' \in {"script", "recovery", "off"}
          /\ UNCHANGED <<payload, authKey, sshOp, changed>>
      BY <2>2 DEF Boot, Restart, Crash, Fault, card, account, image
    <3>. QED BY <3>1, ValidCardStays
  <2>. QED BY <1>1, <2>1, <2>2 DEF StartAction
<1>2. CASE GuardAction
  <2>1. ~success
    BY <1>0, <1>2 DEF GuardAction, RunGuard, GuardCheck, install_authorized_key, record_operation,
       Accept, Reject, GuardError, PayloadInv, GuardSteps
  <2>2. UNCHANGED <<success, failure>>
    BY <1>2 DEF GuardAction, RunGuard, GuardCheck, install_authorized_key, record_operation,
       Accept, Reject, GuardError, Fault, append_guard_audit, card
  <2>3. pc' \in {"check", "record", "install", "accept", "script"} \/
        (pc' \in {"reject", "mark"} /\ why' # "none")
    BY <1>2 DEF GuardAction, RunGuard, GuardCheck, install_authorized_key, record_operation,
       Accept, Reject, GuardError, Raise
  <2>. QED BY <2>1, <2>2, <2>3
<1>3. CASE MarkerAction
  <2>1. ~success /\ UNCHANGED <<success, why>>
    BY <1>3 DEF MarkerAction, mark_failure_once, FillMarker
  <2>2. pc' \in {"script", "stopped"} \/ (pc' = "fill" /\ failure' = "partial" /\ why # "none")
    BY <1>3 DEF MarkerAction, mark_failure_once, FillMarker, MarkDone
  <2>. QED BY <2>1, <2>2
<1>4. CASE RecoveryAction
  <2>1. /\ UNCHANGED <<success, failure, entry>>
        /\ UNCHANGED <<payload, authKey, sshOp, changed>>
    BY <1>4 DEF RecoveryAction, activate_recovery, ConsumeMarker, ActivateShell, PutMarker, card,
       account, image
  <2>2. pc' \in {"off", "consume", "service", "activate"}
    BY <1>4 DEF RecoveryAction, activate_recovery, ConsumeMarker, ActivateShell, PutMarker
  <2>. QED BY <2>1, <2>2, ValidCardStays
<1>5. CASE ServiceAction
  <2>1. UNCHANGED <<payload, authKey, sshOp, changed, failure>>
    BY <1>5 DEF ServiceAction, Service, PostValidate, RestoreSsh, RestoreUser,
       restore_vendor_entrypoint, Succeed, ValidationError, Fault, validate_imager_markers,
       Claimable, card, account, image
  <2>2. CASE Service
    BY <2>1, <2>2, ValidCardStays DEF Service, card, image
  <2>3. CASE PostValidate
    BY <2>1, <2>3, ValidCardStays DEF PostValidate, ensure_transaction_open, Raise, card, image
  <2>4. CASE RestoreSsh \/ RestoreUser
    <3>1. ~success /\ failure = "absent" /\ ValidCard /\ UNCHANGED success
      BY <2>4 DEF RestoreSsh, RestoreUser, restore_vendor_entrypoint
    <3>2. CASE pc' = "mark"
      <4>1. why' # "none"
        BY <2>4, <3>2 DEF RestoreSsh, RestoreUser, restore_vendor_entrypoint, Raise
      <4>. QED BY <3>1, <3>2, <4>1
    <3>3. CASE RestoreSsh /\ pc' = "restoreUser"
      <4>1. entry'["ssh"] = "vendor"
        BY <3>3 DEF RestoreSsh, restore_vendor_entrypoint, Raise, TypeOK, Entries
      <4>. QED BY <2>1, <3>1, <3>3, <4>1, ValidCardStays
    <3>4. CASE RestoreUser /\ pc' = "succeed"
      <4>1. entry'["ssh"] = "vendor" /\ entry'["user"] = "vendor"
        BY <3>4 DEF RestoreUser, restore_vendor_entrypoint, Raise, TypeOK, Entries
      <4>. QED BY <2>1, <3>1, <3>4, <4>1, ValidCardStays
    <3>. QED BY <2>4, <3>2, <3>3, <3>4 DEF RestoreSsh, RestoreUser, restore_vendor_entrypoint, Raise
  <2>5. CASE Succeed
    BY <2>1, <2>5, ValidCardStays DEF Succeed, AtomicWrite, image
  <2>6. CASE ValidationError
    BY <2>1, <2>6 DEF ValidationError, Fault, Raise
  <2>7. CASE validate_imager_markers
    BY <2>1, <2>7, ValidCardStays DEF validate_imager_markers, card, image
  <2>8. CASE Claimable
    BY <2>1, <2>8, ValidCardStays DEF Claimable
  <2>. QED BY <1>5, <2>2, <2>3, <2>4, <2>5, <2>6, <2>7, <2>8 DEF ServiceAction
<1>6. CASE UNCHANGED vars
  BY <1>6, ValidCardStays DEF vars, card, account, image
<1>. QED BY <1>1, <1>2, <1>3, <1>4, <1>5, <1>6, NextIsOneOf

-----------------------------------------------------------------------------
(* The recovery markers.                                                   *)

LEMMA RecoveryInit == Init => RecoveryInv
BY DEF Init, RecoveryInv

\* Putting a marker counts it; consuming it moves it to the shell that starts.
LEMMA RecoveryStep ==
    ASSUME TypeOK, RecoveryInv, [Next]_vars
    PROVE  RecoveryInv'
<1>0. sessions \in Nat /\ markers \in Nat
  BY BoundsAssumption DEF TypeOK
<1> USE DEF RecoveryInv, Goto, Environment
<1>1. CASE StartAction
  <2>1. UNCHANGED <<bootMarker, sessions, markers>>
    BY <1>1 DEF StartAction, Boot, RunDirect, EndScript, Restart, Crash, Fault, card, image
  <2>2. pc' \notin {"consume", "activate"}
    BY <1>1 DEF StartAction, Boot, RunDirect, EndScript, Restart, Crash
  <2>. QED BY <1>0, <2>1, <2>2
<1>2. CASE GuardAction
  <2>1. UNCHANGED <<bootMarker, sessions, markers>>
    BY <1>2 DEF GuardAction, RunGuard, GuardCheck, install_authorized_key, record_operation,
       Accept, Reject, GuardError, Fault, append_guard_audit, card, image
  <2>2. pc # "activate" /\ pc' \notin {"consume", "activate"}
    BY <1>2 DEF GuardAction, RunGuard, GuardCheck, install_authorized_key, record_operation,
       Accept, Reject, GuardError, Raise
  <2>. QED BY <1>0, <2>1, <2>2
<1>3. CASE MarkerAction
  BY <1>0, <1>3 DEF MarkerAction, mark_failure_once, FillMarker, MarkDone, image
<1>4. CASE RecoveryAction
  <2>1. CASE activate_recovery
    BY <1>0, <2>1 DEF activate_recovery, card, image
  <2>2. CASE ConsumeMarker
    BY <1>0, <2>2 DEF ConsumeMarker
  <2>3. CASE ActivateShell
    BY <1>0, <2>3 DEF ActivateShell, card, image
  <2>4. CASE PutMarker
    BY <1>0, <2>4 DEF PutMarker
  <2>. QED BY <1>4, <2>1, <2>2, <2>3, <2>4 DEF RecoveryAction
<1>5. CASE ServiceAction
  <2>1. UNCHANGED <<bootMarker, sessions, markers>>
    BY <1>5 DEF ServiceAction, Service, PostValidate, RestoreSsh, RestoreUser,
       restore_vendor_entrypoint, Succeed, ValidationError, Fault, validate_imager_markers,
       Claimable, card, image
  <2>2. pc # "activate" /\ pc' \notin {"consume", "activate"}
    BY <1>5 DEF ServiceAction, Service, PostValidate, RestoreSsh, RestoreUser,
       restore_vendor_entrypoint, Succeed, ValidationError, validate_imager_markers,
       Claimable, Raise
  <2>. QED BY <1>0, <2>1, <2>2
<1>6. CASE UNCHANGED vars
  BY <1>6 DEF vars, card, image
<1>. QED BY <1>1, <1>2, <1>3, <1>4, <1>5, <1>6, NextIsOneOf

-----------------------------------------------------------------------------
(* The call that a guard serves.                                           *)

LEMMA GuardInit == Init => GuardInv
BY DEF Init, GuardInv

\* When no guard serves a call, only the record of the key is of interest.
LEMMA NoGuardNext ==
    ASSUME GuardInv, UNCHANGED <<script, sshOp>>,
           pc' \notin {"install", "record", "accept"}
    PROVE  GuardInv'
BY DEF GuardInv

\* A key is installed when there is none, so no call with a key was served.
LEMMA KeyIsFirst ==
    ASSUME TypeOK, ServedInv, authKey = NoKey, failure = "absent"
    PROVE  \A i \in Served : script[i].op # "enable_ssh"
BY PermittedKey DEF ServedInv

LEMMA GuardStep ==
    ASSUME TypeOK, PayloadInv, GuardInv, ServedInv, [Next]_vars
    PROVE  GuardInv'
<1> USE DEF Goto, Environment
<1>1. CASE StartAction
  <2>1. UNCHANGED <<script, sshOp>> /\ pc' \notin {"install", "record", "accept"}
    BY <1>1 DEF StartAction, Boot, RunDirect, EndScript, Restart, Crash, Fault, card, account
  <2>. QED BY <2>1, NoGuardNext
<1>2. CASE RunGuard \/ Reject \/ GuardError
  <2>1. UNCHANGED <<script, sshOp>> /\ pc' \notin {"install", "record", "accept"}
    BY <1>2 DEF RunGuard, Reject, GuardError, Fault, append_guard_audit, Raise, card, account
  <2>. QED BY <2>1, NoGuardNext
<1>3. CASE GuardCheck
  <2>1. UNCHANGED <<script, at, sshOp>>
    BY <1>3 DEF GuardCheck, card, account
  <2>2. CASE pc' = "reject"
    BY <2>1, <2>2, NoGuardNext
  <2>3. CASE pc' = "install" /\ Permitted(Call) /\ Call.op = "enable_ssh"
    <3>1. Call' = Call /\ (Permitted(Call))'
      BY <2>1, <2>3 DEF Call, Permitted, validate_userconf_request, validate_ssh_request,
         validate_ed25519_key, validate_safe_imager_noop
    <3>. QED BY <2>1, <2>3, <3>1 DEF GuardInv
  <2>4. CASE pc' = "record" /\ Permitted(Call) /\ Call.op = "user_config"
    <3>1. Call' = Call /\ (Permitted(Call))'
      BY <2>1, <2>4 DEF Call, Permitted, validate_userconf_request, validate_ssh_request,
         validate_ed25519_key, validate_safe_imager_noop
    <3>. QED BY <2>1, <2>4, <3>1 DEF GuardInv
  <2>5. CASE pc' = "accept" /\ Permitted(Call) /\ Call.op # "enable_ssh"
    <3>1. Call' = Call /\ (Permitted(Call))'
      BY <2>1, <2>5 DEF Call, Permitted, validate_userconf_request, validate_ssh_request,
         validate_ed25519_key, validate_safe_imager_noop
    <3>. QED BY <2>1, <2>5, <3>1 DEF GuardInv
  <2>. QED BY <1>3, <2>2, <2>3, <2>4, <2>5 DEF GuardCheck, Raise
<1>4. CASE install_authorized_key
  <2>1. UNCHANGED <<script, at, sshOp, payload, failure>>
    BY <1>4 DEF install_authorized_key, image
  <2>2. CASE pc' = "reject"
    BY <2>1, <2>2, NoGuardNext
  <2>3. CASE pc' = "record" /\ authKey = NoKey /\ authKey' = Call.arg
    <3>1. Call' = Call /\ Served' = Served
      BY <2>1 DEF Call, Served
    <3>2. (Permitted(Call))'
      BY <1>4, <2>1 DEF GuardInv, install_authorized_key, Call, Permitted,
         validate_userconf_request, validate_ssh_request, validate_ed25519_key,
         validate_safe_imager_noop
    <3>3. Call.op = "enable_ssh"
      BY <1>4 DEF install_authorized_key, GuardInv
    <3>4. failure = "absent" => \A i \in Served : script[i].op # "enable_ssh"
      BY <2>3, KeyIsFirst
    <3>. QED BY <2>1, <2>3, <3>1, <3>2, <3>3, <3>4 DEF GuardInv
  <2>. QED BY <1>4, <2>2, <2>3 DEF install_authorized_key, Raise
<1>5. CASE record_operation
  <2>1. UNCHANGED <<script, at, authKey, payload, failure>>
    BY <1>5 DEF record_operation, image
  <2>2. CASE pc' = "reject" /\ sshOp' = sshOp
    BY <2>1, <2>2, NoGuardNext
  <2>3. CASE pc' = "accept" /\ ~Recorded
    <3>1. Call' = Call /\ Served' = Served
      BY <2>1 DEF Call, Served
    <3>2. (Permitted(Call))'
      BY <1>5, <2>1 DEF GuardInv, record_operation, Call, Permitted,
         validate_userconf_request, validate_ssh_request, validate_ed25519_key,
         validate_safe_imager_noop
    <3>3. pc = "record" /\ sshOp' = (IF Call.op = "enable_ssh" THEN Call.arg ELSE sshOp)
      BY <1>5, <2>3 DEF record_operation, AtomicWrite
    <3>4. at \in 1..Len(script)
      BY <3>3, ScriptsAssumption DEF PayloadInv, GuardSteps, TypeOK
    <3>5. sshOp' # NoKey => \E i \in 1..Len(script) :
                              script[i].op = "enable_ssh" /\ script[i].arg = sshOp'
      BY <3>3, <3>4 DEF GuardInv, Call
    <3>. QED BY <2>1, <2>3, <3>1, <3>2, <3>3, <3>5 DEF GuardInv
  <2>. QED BY <1>5, <2>2, <2>3 DEF record_operation, Raise
<1>6. CASE Accept
  <2>1. UNCHANGED <<script, sshOp>> /\ pc' \notin {"install", "record", "accept"}
    BY <1>6 DEF Accept, append_guard_audit, Raise, card, account
  <2>. QED BY <2>1, NoGuardNext
<1>7. CASE MarkerAction
  <2>1. UNCHANGED <<script, sshOp>> /\ pc' \notin {"install", "record", "accept"}
    BY <1>7 DEF MarkerAction, mark_failure_once, FillMarker, MarkDone, account
  <2>. QED BY <2>1, NoGuardNext
<1>8. CASE RecoveryAction
  <2>1. UNCHANGED <<script, sshOp>> /\ pc' \notin {"install", "record", "accept"}
    BY <1>8 DEF RecoveryAction, activate_recovery, ConsumeMarker, ActivateShell, PutMarker, card,
       account
  <2>. QED BY <2>1, NoGuardNext
<1>9. CASE ServiceAction
  <2>1. UNCHANGED <<script, sshOp>> /\ pc' \notin {"install", "record", "accept"}
    BY <1>9 DEF ServiceAction, Service, PostValidate, RestoreSsh, RestoreUser,
       restore_vendor_entrypoint, Succeed, ValidationError, Fault, validate_imager_markers,
       Claimable, Raise, card, account
  <2>. QED BY <2>1, NoGuardNext
<1>10. CASE UNCHANGED vars
  BY <1>10 DEF vars, card, account, image, GuardInv, Call, Served, Permitted,
     validate_userconf_request, validate_ssh_request, validate_ed25519_key,
     validate_safe_imager_noop
<1>. QED BY <1>1, <1>2, <1>3, <1>4, <1>5, <1>6, <1>7, <1>8, <1>9, <1>10, NextIsOneOf
         DEF GuardAction

-----------------------------------------------------------------------------
(* The calls that were served.                                             *)

LEMMA ServedInit == Init => ServedInv
BY DEF Init, ServedInv, Served

\* The call that is served next.
LEMMA CallIsNext ==
    ASSUME TypeOK, payload = "firstrun", at >= 1, at <= Len(script),
           at' = at + 1, UNCHANGED <<payload, script>>
    PROVE  at \in 1..Len(script) /\ Served' = Served \cup {at}
BY ScriptsAssumption DEF TypeOK, Served

LEMMA SameAudit ==
    ASSUME UNCHANGED audit, NEW call, Audited(call)
    PROVE  Audited(call)'
BY DEF Audited, guard_operation_label

LEMMA SamePermitted ==
    ASSUME UNCHANGED script, NEW i, Permitted(script[i])
    PROVE  Permitted(script[i])'
BY DEF Permitted, validate_userconf_request, validate_ssh_request, validate_ed25519_key,
   validate_safe_imager_noop

\* What was served stays so while nothing withdraws a change, an event, a
\* failure marker or, once a call brought it, the key.
LEMMA ServedKept ==
    ASSUME ServedInv, UNCHANGED script, Served' \subseteq Served,
           changed \subseteq changed', failure' = "absent" => failure = "absent",
           \A i \in Served : Audited(script[i]) => Audited(script[i])',
           failure = "absent" =>
             \/ UNCHANGED <<authKey, sshOp>>
             \/ \A i \in Served : script[i].op # "enable_ssh"
    PROVE  ServedInv'
<1> SUFFICES ASSUME NEW i \in Served'
             PROVE  IF script'[i].op = "direct" THEN script'[i].arg \in changed'
                    ELSE failure' = "absent" =>
                      /\ Permitted(script[i])' /\ Audited(script[i])'
                      /\ script'[i].op = "enable_ssh" =>
                           /\ authKey' = script'[i].arg /\ sshOp' = script'[i].arg
                           /\ \A j \in Served' : script'[j].op = "enable_ssh" => j = i
  BY DEF ServedInv
<1>1. CASE script[i].op = "direct"
  BY <1>1 DEF ServedInv
<1>2. CASE script[i].op # "direct" /\ failure' # "absent"
  BY <1>2
<1>3. CASE script[i].op # "direct" /\ failure' = "absent"
  <2>1. /\ Permitted(script[i]) /\ Audited(script[i])
        /\ script[i].op = "enable_ssh" =>
             /\ authKey = script[i].arg /\ sshOp = script[i].arg
             /\ \A j \in Served : script[j].op = "enable_ssh" => j = i
    BY <1>3 DEF ServedInv
  <2>2. Permitted(script[i])' /\ Audited(script[i])'
    BY <2>1, SamePermitted
  <2>. QED BY <1>3, <2>1, <2>2
<1>. QED BY <1>1, <1>2, <1>3

\* A guard accepts the call: it was permitted, its event is appended and, if
\* it brought a key, no call before it did.
LEMMA AcceptServes ==
    ASSUME TypeOK, PayloadInv, GuardInv, ServedInv, Accept, pc' = "script"
    PROVE  ServedInv'
<1>1. /\ pc = "accept" /\ payload = "firstrun" /\ at >= 1 /\ at <= Len(script)
      /\ at' = at + 1 /\ append_guard_audit("accepted") /\ Call.op # "direct"
      /\ UNCHANGED <<payload, script, failure, authKey, sshOp, changed>>
  BY DEF Accept, Raise, Goto, PayloadInv, GuardSteps, append_guard_audit, image, account,
     Environment
<1>2. PICK n \in 1..Len(script) : n = at /\ Served' = Served \cup {n}
  BY <1>1, CallIsNext
<1>3. Permitted(script[n])'
  BY <1>1, <1>2, SamePermitted DEF GuardInv, Call
<1>4. Audited(script[n])'
  <2>1. /\ Len(audit') \in 1..Len(audit') /\ audit'[Len(audit')] = Event("accepted")
    BY <1>1 DEF append_guard_audit, TypeOK
  <2>2. Event("accepted") = [op |-> guard_operation_label(script[n]), result |-> "accepted"]
    BY <1>2 DEF Event, Call
  <2>3. \E m \in 1..Len(audit') :
           audit'[m] = [op |-> guard_operation_label(script'[n]), result |-> "accepted"]
    BY <1>1, <2>1, <2>2
  <2>. QED BY <2>3 DEF Audited, guard_operation_label
<1>5. \A k \in Served : Audited(script[k]) => Audited(script[k])'
  BY <1>1, AuditGrows
<1>6. Call.op = "enable_ssh" =>
        /\ authKey = script[n].arg /\ sshOp = script[n].arg
        /\ failure = "absent" => \A k \in Served : script[k].op # "enable_ssh"
  BY <1>1, <1>2 DEF GuardInv, Call
<1> SUFFICES ASSUME NEW k \in Served'
             PROVE  IF script[k].op = "direct" THEN script[k].arg \in changed
                    ELSE failure = "absent" =>
                      /\ Permitted(script[k])' /\ Audited(script[k])'
                      /\ script[k].op = "enable_ssh" =>
                           /\ authKey = script[k].arg /\ sshOp = script[k].arg
                           /\ \A j \in Served' : script[j].op = "enable_ssh" => j = k
  BY <1>1 DEF ServedInv
<1>7. CASE k = n
  <2>1. Call = script[n] /\ script[n].op # "direct"
    BY <1>1, <1>2 DEF Call
  <2>2. CASE script[n].op = "enable_ssh" /\ failure = "absent"
    BY <1>2, <1>3, <1>4, <1>6, <1>7, <2>1, <2>2
  <2>3. CASE script[n].op # "enable_ssh" \/ failure # "absent"
    BY <1>3, <1>4, <1>7, <2>1, <2>3
  <2>. QED BY <2>2, <2>3
<1>8. CASE k \in Served /\ script[k].op = "direct"
  BY <1>8 DEF ServedInv
<1>9. CASE k \in Served /\ script[k].op # "direct" /\ failure = "absent"
  <2>1. /\ Permitted(script[k])' /\ Audited(script[k])'
        /\ script[k].op = "enable_ssh" =>
             /\ authKey = script[k].arg /\ sshOp = script[k].arg
             /\ \A j \in Served : script[j].op = "enable_ssh" => j = k
    BY <1>1, <1>5, <1>9, SamePermitted DEF ServedInv
  <2>2. ASSUME script[k].op = "enable_ssh", script[n].op = "enable_ssh" PROVE FALSE
    BY <1>2, <1>6, <1>9, <2>2 DEF Call
  <2>. QED BY <1>2, <1>9, <2>1, <2>2
<1>. QED BY <1>2, <1>7, <1>8, <1>9

\* A refused call, or one that is over: a failure marker is there by now.
LEMMA MarkerServes ==
    ASSUME TypeOK, PayloadInv, VerdictInv, ServedInv, MarkerAction
    PROVE  ServedInv'
<1>1. failure' # "absent" /\ UNCHANGED <<payload, script, changed>>
  BY DEF MarkerAction, mark_failure_once, FillMarker, VerdictInv, TypeOK, Reasons, image,
     Environment
<1>2. CASE Served' = Served
  BY <1>1, <1>2 DEF ServedInv
<1>3. CASE payload = "firstrun" /\ at' = at + 1
  <2>1. at >= 1 /\ at <= Len(script) /\ script[at].op # "direct"
    BY <1>3 DEF MarkerAction, mark_failure_once, FillMarker, PayloadInv, Call
  <2>2. Served' = Served \cup {at}
    BY <1>1, <1>3, <2>1, CallIsNext
  <2>. QED BY <1>1, <2>1, <2>2 DEF ServedInv
<1>4. Served' = Served \/ (payload = "firstrun" /\ at' = at + 1)
  BY <1>1 DEF MarkerAction, mark_failure_once, FillMarker, MarkDone, Goto, Served
<1>. QED BY <1>2, <1>3, <1>4

LEMMA ServedStep ==
    ASSUME TypeOK, PayloadInv, GuardInv, VerdictInv, ServedInv, [Next]_vars
    PROVE  ServedInv'
<1>0. at \in Nat /\ Len(script) \in Nat /\ script \in Scripts
  BY ScriptsAssumption DEF TypeOK
<1> USE DEF Goto, Environment
<1>1. CASE StartAction
  <2>1. CASE Boot
    <3>1. Served' \subseteq Served
      BY <1>0, <2>1 DEF Boot, Served, card, image
    <3>. QED BY <2>1, <3>1, SameAudit, ServedKept DEF Boot, card, image, account, log
  <2>2. CASE RunDirect
    <3>1. /\ at >= 1 /\ at <= Len(script) /\ at' = at + 1 /\ Call.op = "direct"
          /\ UNCHANGED <<payload, script, failure, authKey, sshOp, audit>>
          /\ changed' = changed \cup {Call.arg}
      BY <2>2 DEF RunDirect, PayloadInv, account, log
    <3>2. CASE payload = "firstrun"
      <4>1. at \in 1..Len(script) /\ Served' = Served \cup {at}
        BY <3>1, <3>2, CallIsNext
      <4>2. \A k \in Served : Permitted(script[k]) => Permitted(script[k])'
        BY <3>1, SamePermitted
      <4>3. \A k \in Served : Audited(script[k]) => Audited(script[k])'
        BY <3>1, SameAudit
      <4>4. script[at].op = "direct" /\ script[at].arg \in changed'
        BY <3>1 DEF Call
      <4> SUFFICES ASSUME NEW k \in Served'
                   PROVE  IF script[k].op = "direct" THEN script[k].arg \in changed'
                          ELSE failure = "absent" =>
                            /\ Permitted(script[k])' /\ Audited(script[k])'
                            /\ script[k].op = "enable_ssh" =>
                                 /\ authKey = script[k].arg /\ sshOp = script[k].arg
                                 /\ \A j \in Served' : script[j].op = "enable_ssh" => j = k
        BY <3>1 DEF ServedInv
      <4>5. CASE k = at
        BY <4>4, <4>5
      <4>6. CASE k \in Served /\ script[k].op = "direct"
        BY <3>1, <4>6 DEF ServedInv
      <4>7. CASE k \in Served /\ script[k].op # "direct" /\ failure = "absent"
        BY <4>1, <4>2, <4>3, <4>4, <4>7 DEF ServedInv
      <4>. QED BY <4>1, <4>5, <4>6, <4>7
    <3>3. CASE payload # "firstrun"
      BY <1>0, <2>2, <3>3 DEF RunDirect, PayloadInv
    <3>. QED BY <3>2, <3>3
  <2>3. CASE EndScript
    <3>1. Served' = Served
      BY <1>0, <2>3 DEF EndScript, Served
    <3>. QED BY <2>3, <3>1, SameAudit, ServedKept DEF EndScript, account, log
  <2>4. CASE Restart \/ Crash
    <3>1. Served' = Served
      BY <2>4 DEF Restart, Crash, Fault, Served, card, image
    <3>. QED BY <2>4, <3>1, SameAudit, ServedKept DEF Restart, Crash, Fault, card, image, account,
             log
  <2>. QED BY <1>1, <2>1, <2>2, <2>3, <2>4 DEF StartAction
<1>2. CASE RunGuard \/ GuardCheck \/ GuardError
  <2>1. /\ UNCHANGED <<script, authKey, sshOp, audit, changed, failure>> /\ Served' = Served
    BY <1>2 DEF RunGuard, GuardCheck, GuardError, Fault, Raise, card, image, account, log, Served
  <2>. QED BY <2>1, SameAudit, ServedKept
<1>3. CASE install_authorized_key
  <2>1. /\ UNCHANGED <<script, sshOp, audit, changed, failure>> /\ Served' = Served
    BY <1>3 DEF install_authorized_key, Raise, image, log, Served
  <2>2. failure = "absent" => \/ UNCHANGED <<authKey, sshOp>>
                              \/ \A k \in Served : script[k].op # "enable_ssh"
    BY <1>3, <2>1, KeyIsFirst DEF install_authorized_key
  <2>. QED BY <2>1, <2>2, SameAudit, ServedKept
<1>4. CASE record_operation
  <2>1. /\ UNCHANGED <<script, authKey, audit, changed, failure>> /\ Served' = Served
    BY <1>4 DEF record_operation, Raise, image, log, Served
  <2>2. failure = "absent" => \/ UNCHANGED <<authKey, sshOp>>
                              \/ \A k \in Served : script[k].op # "enable_ssh"
    BY <1>4, <2>1 DEF record_operation, AtomicWrite, GuardInv
  <2>. QED BY <2>1, <2>2, SameAudit, ServedKept
<1>5. CASE Accept
  <2>1. CASE pc' = "script"
    BY <1>5, <2>1, AcceptServes
  <2>2. CASE pc' = "reject"
    <3>1. /\ UNCHANGED <<script, authKey, sshOp, audit, changed, failure>> /\ Served' = Served
      BY <1>5, <2>2 DEF Accept, Raise, card, image, account, log, Served
    <3>. QED BY <3>1, SameAudit, ServedKept
  <2>. QED BY <1>5, <2>1, <2>2 DEF Accept, Raise
<1>6. CASE Reject
  <2>1. UNCHANGED <<script, authKey, sshOp, changed, failure>> /\ Served' = Served
    BY <1>6 DEF Reject, append_guard_audit, Raise, card, image, account, Served
  <2>2. \A k \in Served : Audited(script[k]) => Audited(script[k])'
    <3>1. CASE append_guard_audit("rejected")
      BY <2>1, <3>1, AuditGrows
    <3>2. CASE UNCHANGED card
      BY <2>1, <3>2, SameAudit DEF card, log
    <3>. QED BY <1>6, <3>1, <3>2 DEF Reject
  <2>. QED BY <2>1, <2>2, ServedKept
<1>7. CASE MarkerAction
  BY <1>7, MarkerServes
<1>8. CASE RecoveryAction
  <2>1. UNCHANGED <<script, authKey, sshOp, audit, changed, failure>> /\ Served' = Served
    BY <1>8 DEF RecoveryAction, activate_recovery, ConsumeMarker, ActivateShell, PutMarker, card,
       image, account, log, Served
  <2>. QED BY <2>1, SameAudit, ServedKept
<1>9. CASE ServiceAction
  <2>1. UNCHANGED <<script, authKey, sshOp, audit, changed, failure>> /\ Served' = Served
    BY <1>9 DEF ServiceAction, Service, PostValidate, RestoreSsh, RestoreUser,
       restore_vendor_entrypoint, Succeed, ValidationError, Fault, validate_imager_markers,
       Claimable, Raise, card, image, account, log, Served
  <2>. QED BY <2>1, SameAudit, ServedKept
<1>10. CASE UNCHANGED vars
  <2>1. UNCHANGED <<script, authKey, sshOp, audit, changed, failure>> /\ Served' = Served
    BY <1>10 DEF vars, card, image, account, log, Served
  <2>. QED BY <2>1, SameAudit, ServedKept
<1>. QED BY <1>1, <1>2, <1>3, <1>4, <1>5, <1>6, <1>7, <1>8, <1>9, <1>10, NextIsOneOf
         DEF GuardAction

-----------------------------------------------------------------------------
(* The theorems.                                                           *)

\* Types, the call a guard serves, the calls that were served, the markers and
\* the recovery, through every crash and every write that fails.
THEOREM InductiveInvCorrect == Spec => []InductiveInv
<1>1. Init => InductiveInv
  BY TypeInit, PayloadInit, GuardInit, ServedInit, VerdictInit, RecoveryInit DEF InductiveInv
<1>2. InductiveInv /\ [Next]_vars => InductiveInv'
  BY TypeStep, PayloadStep, GuardStep, ServedStep, VerdictStep, RecoveryStep DEF InductiveInv
<1>. QED BY <1>1, <1>2, PTL DEF Spec

\* What is on the card, the audit and the bounds keep their types.
THEOREM TypeCorrect == Spec => []TypeOK
<1>1. InductiveInv => TypeOK
  BY DEF InductiveInv
<1>. QED BY <1>1, InductiveInvCorrect, PTL

\* When the services are released every call of the payload was served, none
\* went past the guards, and no failure marker is there.
LEMMA ReleasedServed ==
    ASSUME InductiveInv, pc = "released"
    PROVE  /\ failure = "absent" /\ success /\ ValidCard /\ Served = 1..Len(script)
           /\ \A i \in 1..Len(script) : script[i].op # "direct"
<1>1. failure = "absent" /\ success /\ ValidCard /\ script \in Scripts
  BY DEF InductiveInv, VerdictInv, TypeOK
<1>2. Served = 1..Len(script)
  BY <1>1 DEF Served, ValidCard
<1>3. changed \cap Changes = {}
  BY <1>1 DEF ValidCard, validate_generic_access, locked_account, unexpected_login_accounts,
     Changes
<1>4. ASSUME NEW i \in 1..Len(script), script[i].op = "direct" PROVE FALSE
  <2>1. script[i].arg \in changed
    BY <1>2, <1>4 DEF InductiveInv, ServedInv
  <2>2. script[i].arg \in Changes
    BY <1>1, <1>4, ScriptsAssumption
  <2>. QED BY <1>3, <2>1, <2>2
<1>. QED BY <1>1, <1>2, <1>4

\* The guards, consolepi-imager-postvalidate and the marker check together:
\* SSH and the web run only on a card to which exactly what is permitted was
\* done, with the one key that the payload brought.
THEOREM ReleasedOnlyAsAskedCorrect == Spec => []ReleasedOnlyAsAsked
<1>1. InductiveInv => ReleasedOnlyAsAsked
  <2> SUFFICES ASSUME InductiveInv, pc = "released"
               PROVE  /\ \A call \in Calls : call.op # "direct" /\ Permitted(call)
                      /\ \E i \in 1..Len(script) :
                           /\ script[i].op = "enable_ssh" /\ script[i].arg = authKey
                           /\ \A j \in 1..Len(script) : script[j].op = "enable_ssh" => j = i
                      /\ entry = [e \in Entries |-> "vendor"]
    BY DEF ReleasedOnlyAsAsked
  <2>1. \A i \in 1..Len(script) : script[i].op # "direct" /\ Permitted(script[i])
    BY ReleasedServed DEF InductiveInv, ServedInv
  <2>2. PICK i \in 1..Len(script) : script[i].op = "enable_ssh" /\ script[i].arg = sshOp
    BY ReleasedServed DEF InductiveInv, GuardInv, ValidCard, read_strict_marker
  <2>3. sshOp = authKey
    BY ReleasedServed DEF ValidCard
  <2>4. \A j \in 1..Len(script) : script[j].op = "enable_ssh" => j = i
    BY <2>2, ReleasedServed DEF InductiveInv, ServedInv
  <2>5. entry = [e \in Entries |-> "vendor"]
    <3>1. /\ entry["ssh"] = "vendor" /\ entry["user"] = "vendor"
          /\ entry \in [Entries -> {"guard", "vendor"}]
      BY ReleasedServed DEF InductiveInv, VerdictInv, TypeOK
    <3>. QED BY <3>1 DEF Entries
  <2>. QED BY <2>1, <2>2, <2>3, <2>4, <2>5 DEF Calls
<1>. QED BY <1>1, InductiveInvCorrect, PTL

\* generic-imager-audit.jsonl: a released image has an accepted event of every
\* call, whatever the power cut off between a change and its event.
THEOREM ReleasedIsAuditedCorrect == Spec => []ReleasedIsAudited
<1>1. InductiveInv => ReleasedIsAudited
  <2> SUFFICES ASSUME InductiveInv, pc = "released", NEW call \in Calls
               PROVE  Audited(call)
    BY DEF ReleasedIsAudited, Audited
  <2>1. PICK i \in 1..Len(script) : call = script[i]
    BY DEF Calls
  <2>2. Audited(script[i])
    BY ReleasedServed DEF InductiveInv, ServedInv
  <2>. QED BY <2>1, <2>2
<1>. QED BY <1>1, InductiveInvCorrect, PTL

\* consolepi-generic-recovery: a marker that was consumed before the power
\* failed is lost, never good for a second shell.
THEOREM OneShellPerMarkerCorrect == Spec => []OneShellPerMarker
<1>1. InductiveInv => OneShellPerMarker
  BY BoundsAssumption DEF InductiveInv, RecoveryInv, OneShellPerMarker, TypeOK
<1>. QED BY <1>1, InductiveInvCorrect, PTL

\* mark_failure_once: no later rejection, validation or restart withdraws or
\* replaces the first reason.
THEOREM FirstFailureStaysCorrect == Spec => FirstFailureStays
<1>1. InductiveInv /\ [Next]_vars =>
        [failure # "absent" =>
           \/ failure' = failure
           \/ failure = "partial" /\ pc = "fill" /\ failure' = why]_vars
  <2> SUFFICES ASSUME InductiveInv, [Next]_vars, failure # "absent"
               PROVE  \/ failure' = failure
                      \/ failure = "partial" /\ pc = "fill" /\ failure' = why
    OBVIOUS
  <2>1. CASE MarkerAction
    BY <2>1 DEF MarkerAction, mark_failure_once, FillMarker, InductiveInv, VerdictInv
  <2>2. CASE StartAction \/ RecoveryAction \/ UNCHANGED vars
    BY <2>2 DEF StartAction, Boot, RunDirect, EndScript, Restart, Crash, Fault, RecoveryAction,
       activate_recovery, ConsumeMarker, ActivateShell, PutMarker, vars, card
  <2>3. CASE GuardAction
    BY <2>3 DEF GuardAction, RunGuard, GuardCheck, install_authorized_key, record_operation,
       Accept, Reject, GuardError, Fault, append_guard_audit, card
  <2>4. CASE ServiceAction
    BY <2>4 DEF ServiceAction, Service, PostValidate, RestoreSsh, RestoreUser,
       restore_vendor_entrypoint, Succeed, ValidationError, Fault, validate_imager_markers,
       Claimable, card
  <2>. QED BY <2>1, <2>2, <2>3, <2>4, NextIsOneOf
<1>. QED BY <1>1, InductiveInvCorrect, PTL DEF Spec, FirstFailureStays

-----------------------------------------------------------------------------
(* ImagerGuard implements ImagerPromise: each step decides the verdict,    *)
(* releases the services, ends a start, or changes nothing of these.       *)

LEMMA PromiseInit == Init => Promise!Init
BY DEF Init, Promise!Init

\* A step that leaves the markers and, once imported, the key alone, and
\* neither starts nor ends the services.
LEMMA PromiseStutters ==
    ASSUME UNCHANGED <<failure, success>>,
           failure = "absent" /\ success => authKey' = authKey,
           pc' = "released" <=> pc = "released"
    PROVE  UNCHANGED Promise!vars
BY DEF Promise!vars

\* A start ends, however, and the services with it.
LEMMA PromiseEnds ==
    ASSUME UNCHANGED <<failure, success, authKey>>, pc' # "released"
    PROVE  Promise!PowerOff
BY DEF Promise!PowerOff

LEMMA PromiseMarker ==
    ASSUME InductiveInv, MarkerAction
    PROVE  Promise!Fail \/ UNCHANGED Promise!vars
<1>1. ~success /\ ~success' /\ pc # "released" /\ pc' # "released"
  BY DEF MarkerAction, mark_failure_once, FillMarker, MarkDone, Goto, InductiveInv, VerdictInv
<1>2. failure' # "absent"
  BY DEF MarkerAction, mark_failure_once, FillMarker, InductiveInv, VerdictInv, TypeOK, Reasons
<1>3. CASE failure = "absent"
  BY <1>1, <1>2, <1>3 DEF Promise!Fail
<1>4. CASE failure # "absent"
  BY <1>1, <1>2, <1>4 DEF Promise!vars
<1>. QED BY <1>3, <1>4

LEMMA PromiseService ==
    ASSUME InductiveInv, ServiceAction
    PROVE  Promise!Next \/ UNCHANGED Promise!vars
<1>1. UNCHANGED <<failure, authKey>>
  BY DEF ServiceAction, Service, PostValidate, RestoreSsh, RestoreUser,
     restore_vendor_entrypoint, Succeed, ValidationError, Fault, validate_imager_markers,
     Claimable, card, account
<1>2. CASE Succeed
  <2>1. /\ failure = "absent" /\ ~success /\ success' /\ authKey \in Keys
        /\ pc # "released" /\ pc' # "released"
    <3>1. failure = "absent" /\ ValidCard /\ ~success /\ pc = "succeed"
      BY <1>2 DEF Succeed, InductiveInv, VerdictInv
    <3>2. authKey \in Keys
      BY <3>1, KeysAssumption DEF ValidCard, validate_generic_access, validate_authorized_key,
         validate_ed25519_key
    <3>. QED BY <1>2, <3>1, <3>2 DEF Succeed, AtomicWrite, Goto
  <2>2. Promise!Import(authKey)
    BY <1>1, <2>1 DEF Promise!Import
  <2>. QED BY <2>1, <2>2 DEF Promise!Next
<1>3. CASE validate_imager_markers
  <2>1. UNCHANGED success /\ pc = "markers"
    BY <1>3 DEF validate_imager_markers, card
  <2>2. CASE pc' = "released"
    <3>1. failure = "absent" /\ success
      BY <1>3, <2>2 DEF validate_imager_markers, Goto
    <3>. QED BY <1>1, <2>1, <2>2, <3>1 DEF Promise!Next, Promise!Release
  <2>3. CASE pc' # "released"
    BY <1>1, <2>1, <2>3, PromiseEnds DEF Promise!Next
  <2>. QED BY <2>2, <2>3
<1>4. CASE ~Succeed /\ ~validate_imager_markers
  <2>1. UNCHANGED success
    BY <1>4 DEF ServiceAction, Service, PostValidate, RestoreSsh, RestoreUser,
       restore_vendor_entrypoint, ValidationError, Fault, Claimable, card
  <2>2. pc' = "released" <=> pc = "released"
    BY <1>4 DEF ServiceAction, Service, PostValidate, RestoreSsh, RestoreUser,
       restore_vendor_entrypoint, ValidationError, Claimable, Raise, Goto
  <2>. QED BY <1>1, <2>1, <2>2, PromiseStutters
<1>. QED BY <1>2, <1>3, <1>4

\* Imager's customisation is decided once: every execution, seen through the
\* two markers, the key and whether services run, is one of the promise.
THEOREM KeepsPromiseCorrect == Spec => KeepsPromise
<1>1. InductiveInv /\ [Next]_vars => [Promise!Next]_(Promise!vars)
  <2> SUFFICES ASSUME InductiveInv, [Next]_vars
               PROVE  Promise!Next \/ UNCHANGED Promise!vars
    OBVIOUS
  <2>1. CASE StartAction
    <3>1. UNCHANGED <<failure, success, authKey>>
      BY <2>1 DEF StartAction, Boot, RunDirect, EndScript, Restart, Crash, Fault, card, account
    <3>2. pc' # "released"
      BY <2>1 DEF StartAction, Boot, RunDirect, EndScript, Restart, Crash, Goto
    <3>. QED BY <3>1, <3>2, PromiseEnds DEF Promise!Next
  <2>2. CASE GuardAction
    <3>1. UNCHANGED <<failure, success>> /\ ~success
      <4>1. payload # "clean"
        BY <2>2 DEF GuardAction, RunGuard, GuardCheck, install_authorized_key, record_operation,
           Accept, Reject, GuardError, InductiveInv, PayloadInv, GuardSteps
      <4>2. ~success
        BY <4>1 DEF InductiveInv, VerdictInv, ValidCard
      <4>. QED BY <2>2, <4>2 DEF GuardAction, RunGuard, GuardCheck, install_authorized_key,
               record_operation, Accept, Reject, GuardError, Fault, append_guard_audit, card
    <3>2. pc # "released" /\ pc' # "released"
      BY <2>2 DEF GuardAction, RunGuard, GuardCheck, install_authorized_key, record_operation,
         Accept, Reject, GuardError, Raise, Goto
    <3>. QED BY <3>1, <3>2, PromiseStutters
  <2>3. CASE MarkerAction
    BY <2>3, PromiseMarker DEF Promise!Next
  <2>4. CASE RecoveryAction
    <3>1. UNCHANGED <<failure, success, authKey>>
      BY <2>4 DEF RecoveryAction, activate_recovery, ConsumeMarker, ActivateShell, PutMarker,
         card, account
    <3>2. pc # "released" /\ pc' # "released"
      BY <2>4 DEF RecoveryAction, activate_recovery, ConsumeMarker, ActivateShell, PutMarker, Goto
    <3>. QED BY <3>1, <3>2, PromiseStutters
  <2>5. CASE ServiceAction
    BY <2>5, PromiseService
  <2>6. CASE UNCHANGED vars
    BY <2>6, PromiseStutters DEF vars, card, account
  <2>. QED BY <2>1, <2>2, <2>3, <2>4, <2>5, <2>6, NextIsOneOf
<1>. QED BY <1>1, PromiseInit, InductiveInvCorrect, PTL DEF Spec, KeepsPromise, Promise!Spec
==============================================================================
