--------------------------- MODULE FirstBootProofs ---------------------------
(***************************************************************************)
(* Proofs about FirstBoot, for any number of administrators, crashes and   *)
(* DHCP events: types, what each step of the service and of a wizard       *)
(* stands on, what a renewal of the identity leaves, and from these that   *)
(* SSH and the web start only on an image that is the device's own, that a *)
(* finished wizard leaves an owner, that "done" is told and stays true,    *)
(* that the temporary access stays closed but for a stale migration, that  *)
(* a claim goes forward and what keeps a claimable image from starting,    *)
(* that the verdict of Imager is kept.                                     *)
(***************************************************************************)
EXTENDS FirstBoot, TLAPS

\* The actions of the service, those of one wizard and those of the dispatcher.
ServiceAction == FirstBootService \/ LateLease

WizardAction(a) == setup(a) \/ Configure(a) \/ ConfigureFails(a)

MigrationAction == access_migrate \/ RenderMigration \/ ApplyMigration

PowerAction == Crash \/ Restart("stopped") \/ Restart("released")

LEMMA NextIsOneOf ==
  [Next]_vars <=> \/ ServiceAction
                  \/ \E a \in Admin : WizardAction(a)
                  \/ MigrationAction \/ PowerAction
                  \/ UNCHANGED vars
BY DEF Next, ServiceAction, WizardAction, MigrationAction, PowerAction

RenewSteps == {"keys", "install", "cert", "key", "nginx", "undo"}

-----------------------------------------------------------------------------
(* Types.                                                                  *)

LEMMA TypeInit == Init => TypeOK
<1> SUFFICES ASSUME Init PROVE TypeOK
  OBVIOUS
<1>1. consoleKey \in BOOLEAN /\ hostKeys \in BOOLEAN /\ tls \in BOOLEAN
  BY DEF Init
<1>2. /\ open \in BOOLEAN /\ candidate \in BOOLEAN /\ wasPending \in BOOLEAN
      /\ web \in BOOLEAN /\ mixed \in BOOLEAN /\ broken \in BOOLEAN
      /\ stale \in BOOLEAN
  BY DEF Init
<1>3. faults \in 0..MaxFaults /\ events \in 0..MaxEvents
  BY BoundsAssumption DEF Init
<1>4. /\ step \in [Admin -> {"idle"}] /\ form \in [Admin -> {"none"}]
      /\ told \in [Admin -> {"nothing"}]
  BY DEF Init
<1>. QED BY <1>1, <1>2, <1>3, <1>4 DEF Init, TypeOK, KNOWN_GENERIC_STATES

\* A fault is counted up to its bound.
LEMMA FaultTypes == TypeOK /\ (Fault \/ UNCHANGED faults) => faults' \in 0..MaxFaults
BY BoundsAssumption DEF TypeOK, Fault

\* What a step of the service changes of the running start.
LEMMA ServiceFrame ==
    ASSUME TypeOK, NEW from, NEW to, Service(from, to)
    PROVE  /\ svc = from /\ svc' = to /\ web' \in BOOLEAN
           /\ UNCHANGED <<step, form, spare, told, mixed, mig, wasPending, events>>
BY DEF Service, Wizard, Migration

\* A state file the service does not know is refused before its cases are.
LEMMA ServiceTypes == TypeOK /\ ServiceInv /\ ServiceAction => TypeOK'
<1> SUFFICES ASSUME TypeOK, ServiceInv, ServiceAction PROVE TypeOK'
  OBVIOUS
<1> USE DEF image, claim, identity, access, firewall, history, card
<1>1. ASSUME NEW from, NEW to, Service(from, to), UNCHANGED <<card, faults>>,
             to \in {"report", "validate", "markers", "consoleKey", "again",
                     "released", "stopped"}
      PROVE  TypeOK'
  BY <1>1, ServiceFrame DEF TypeOK
<1>2. CASE Boot
  BY <1>1, <1>2 DEF Boot
<1>3. CASE CheckReport
  <2>1. PICK to \in {"stopped", "validate", "markers"} : Service("report", to)
    BY <1>3 DEF CheckReport
  <2>. QED BY <1>1, <1>3, <2>1 DEF CheckReport
<1>4. CASE ImportOrFail
  <2>1. Service("validate", "markers") /\ imager' \in {imager, "imported", "failed"}
    BY <1>4 DEF ImportOrFail
  <2>. QED BY <1>4, <2>1, ServiceFrame DEF ImportOrFail, TypeOK
<1>5. CASE CheckMarkers
  <2>1. generic \in KNOWN_GENERIC_STATES
    BY <1>5 DEF CheckMarkers, Service, ServiceInv, TypeOK
  <2>2. PICK to \in {"stopped", "consoleKey", "again", "released"} :
          Service("markers", to)
    BY <1>5, <2>1 DEF CheckMarkers, KNOWN_GENERIC_STATES
  <2>. QED BY <1>1, <1>5, <2>2 DEF CheckMarkers
<1>6. CASE CopyConsoleKey
  BY <1>6, ServiceFrame DEF CopyConsoleKey, TypeOK
<1>7. CASE provision_host_keys
  <2>1. PICK to \in {"tls", "stopped"} : Service("hostKeys", to)
    BY <1>7 DEF provision_host_keys
  <2>2. hostKeys' \in BOOLEAN
    BY <1>7 DEF provision_host_keys, TypeOK
  <2>. QED BY <1>7, <2>1, <2>2, ServiceFrame DEF provision_host_keys, TypeOK
<1>8. CASE CreateTls
  BY <1>8, ServiceFrame DEF CreateTls, TypeOK
<1>9. CASE Bootstrap \/ BootstrapAgain
  <2>1. PICK from \in {"lease", "again", "open", "openAgain"},
             to \in {"open", "openAgain", "claim", "released", "stopped"} :
          Service(from, to)
    BY <1>9 DEF Bootstrap, BootstrapAgain, access_generic_bootstrap, OpenSetup
  <2>2. candidate' \in BOOLEAN /\ open' \in BOOLEAN
    BY <1>9 DEF Bootstrap, BootstrapAgain, access_generic_bootstrap, OpenSetup,
       RenderCandidate, InstallRules, CandidateLost, TypeOK
  <2>3. UNCHANGED <<image, claim, identity, access, history, faults>>
    BY <1>9 DEF Bootstrap, BootstrapAgain, access_generic_bootstrap, OpenSetup
  <2>. QED BY <2>1, <2>2, <2>3, ServiceFrame DEF TypeOK
<1>10. CASE BecomeClaimable
  BY <1>10, ServiceFrame
     DEF BecomeClaimable, write_generic_state, atomic_write, TypeOK
<1>11. CASE LateLease
  <2>1. PICK from \in {"lease", "again", "open", "openAgain"} :
          Service(from, "stopped")
    BY <1>11 DEF LateLease
  <2>2. faults' \in 0..MaxFaults /\ UNCHANGED card
    BY <1>11, FaultTypes DEF LateLease
  <2>. QED BY <2>1, <2>2, ServiceFrame DEF TypeOK
<1>. QED BY <1>2, <1>3, <1>4, <1>5, <1>6, <1>7, <1>8, <1>9, <1>10, <1>11
         DEF ServiceAction, FirstBootService

\* What a step of a wizard changes of the running start.
LEMMA ServeFrame ==
    ASSUME TypeOK, NEW a \in Admin, NEW from, NEW to, Serve(a, from, to)
    PROVE  /\ step[a] = from /\ step'[a] = to
           /\ \A b \in Admin \ {a} : step'[b] = step[b]
           /\ mixed' \in BOOLEAN
           /\ UNCHANGED <<svc, web, mig, wasPending, events>>
BY DEF Serve, Migration, TypeOK

LEMMA FailsFrame ==
    ASSUME TypeOK, NEW a \in Admin, NEW from, Fails(a, from)
    PROVE  /\ Serve(a, from, "idle") /\ UNCHANGED form
           /\ told' = [told EXCEPT ![a] = "failed"]
           /\ spare' = spare \ {a}
BY DEF Fails, Run, Tell

\* What every step of a wizard keeps, and how it moves on.
Steps == {"idle", "check", "password", "keys", "install", "cert", "key", "nginx",
          "undo", "gate", "sources", "close", "shut", "firstboot", "generic"}

LEMMA RunTypes ==
    ASSUME TypeOK, NEW a \in Admin, NEW from, NEW to \in Steps,
           Serve(a, from, to)
    PROVE  /\ step' \in [Admin -> Steps] /\ mixed' \in BOOLEAN
           /\ UNCHANGED <<svc, web, mig, wasPending, events>>
BY ServeFrame DEF Serve, Migration, TypeOK, Steps

LEMMA OutcomeTypes == ASSUME NEW whole \in BOOLEAN PROVE Outcome(whole) \subseteq BOOLEAN
BY DEF Outcome

\* One step per action would repeat the same frames: here there is one per
\* variable, with the actions of a wizard expanded.
LEMMA WizardTypes ==
    ASSUME TypeOK, NEW a \in Admin, WizardAction(a)
    PROVE  TypeOK'
<1> USE DEF WizardAction, setup, Configure, ConfigureFails, CheckClaim,
            WritePassword, WritePasswordFails, Renew, MoveKeys, MoveFails, InstallKeys,
            InstallFails, WriteCert, WriteKey, WriteKeyFails, CheckTls, CheckTlsFails,
            RestoreTls, access_firstboot_finalize, WriteSources, RenderClosed,
            CloseSetup, CloseFails, WriteFirstboot, WriteFirstbootFails, WriteGeneric,
            WizardError,
            image, claim, identity, access, firewall, history, card
<1>1. PICK from, to \in Steps : Serve(a, from, to)
  BY DEF Steps, Fails, Run
<1>2. /\ step' \in [Admin -> Steps] /\ mixed' \in BOOLEAN
      /\ UNCHANGED <<svc, web, mig, wasPending, events>>
  BY <1>1, RunTypes
<1>3. form' \in [Admin -> Forms \cup {"none"}]
  BY DEF Fails, Run, TypeOK
<1>4. told' \in [Admin -> {"nothing", "done", "failed"}]
  BY DEF Fails, Tell, TypeOK
<1>5. spare' \subseteq Admin
  BY DEF Fails, SetAside, TypeOK
<1>6. faults' \in 0..MaxFaults
  <2>1. Fault \/ UNCHANGED faults
    BY DEF Disturbed, Trouble
  <2>. QED BY <2>1, FaultTypes
<1>7. hostKeys' \in BOOLEAN /\ tls' \in BOOLEAN
  <2>1. Outcome(TRUE) \subseteq BOOLEAN
    BY DEF Outcome
  <2>2. Outcome(a \in spare) \subseteq BOOLEAN
    <3>1. (a \in spare) = TRUE \/ (a \in spare) = FALSE
      OBVIOUS
    <3>. QED BY <3>1, OutcomeTypes
  <2>. QED BY <2>1, <2>2 DEF TypeOK
<1>8. broken' \in BOOLEAN /\ stale' \in BOOLEAN
  BY DEF TypeOK
<1>9. open' \in BOOLEAN /\ candidate' \in BOOLEAN
  BY DEF RenderCandidate, InstallRules, CandidateLost, TypeOK
<1>10. password' \in Admin \cup {Nobody}
  BY DEF atomic_write, TypeOK
<1>11. sources' \in Forms \cup {"none"}
  BY DEF TypeOK
<1>12. /\ firstboot' \in {"pending", "complete"}
       /\ generic' \in KNOWN_GENERIC_STATES \cup {"corrupt"}
  BY DEF atomic_write, write_generic_state, TypeOK
<1>13. UNCHANGED <<report, imager, consoleKey>>
  OBVIOUS
<1>. QED BY <1>2, <1>3, <1>4, <1>5, <1>6, <1>7, <1>8, <1>9, <1>10, <1>11, <1>12,
            <1>13
         DEF TypeOK, Steps

LEMMA TypeStep == TypeOK /\ ServiceInv /\ [Next]_vars => TypeOK'
<1> SUFFICES ASSUME TypeOK, ServiceInv, [Next]_vars PROVE TypeOK'
  OBVIOUS
<1> USE DEF TypeOK, image, claim, identity, access, firewall, history, card, Wizard
<1>1. CASE access_migrate
  <2>1. wasPending' \in BOOLEAN /\ stale' \in BOOLEAN
    BY <1>1 DEF access_migrate, generic_web_setup_pending
  <2>2. events' \in 0..MaxEvents
    BY <1>1, BoundsAssumption DEF access_migrate
  <2>. QED BY <1>1, <2>1, <2>2 DEF access_migrate
<1>2. CASE RenderMigration
  BY <1>2 DEF RenderMigration, RenderCandidate
<1>3. CASE ApplyMigration
  <2>1. open' \in BOOLEAN /\ candidate' \in BOOLEAN /\ stale' \in BOOLEAN
    BY <1>3 DEF ApplyMigration, InstallRules, CandidateLost
  <2>2. faults' \in 0..MaxFaults
    BY <1>3, FaultTypes DEF ApplyMigration
  <2>. QED BY <1>3, <2>1, <2>2 DEF ApplyMigration
<1>4. CASE PowerAction
  <2>1. TurnOff /\ faults' \in 0..MaxFaults
    BY <1>4, FaultTypes DEF PowerAction, Crash, Restart
  <2>2. /\ wasPending' \in BOOLEAN /\ web' \in BOOLEAN /\ mixed' \in BOOLEAN
        /\ broken' \in BOOLEAN /\ svc' = "off" /\ mig' = "idle" /\ spare' = {}
    BY <2>1 DEF TurnOff
  <2>3. step' \in [Admin -> {"idle"}] /\ form' \in [Admin -> {"none"}]
    BY <2>1 DEF TurnOff
  <2>4. UNCHANGED <<image, claim, identity, access, firewall, stale, told, events>>
    BY <2>1 DEF TurnOff
  <2>. QED BY <2>1, <2>2, <2>3, <2>4
<1>5. CASE UNCHANGED vars
  BY <1>5 DEF vars
<1>. QED BY <1>1, <1>2, <1>3, <1>4, <1>5, ServiceTypes, WizardTypes, NextIsOneOf
         DEF MigrationAction

-----------------------------------------------------------------------------
(* What the steps of the service stand on.                                 *)

LEMMA ServiceInit == Init => ServiceInv
BY DEF Init, ServiceInv

\* The service: each step adds what the next one stands on.
LEMMA ServiceByService == TypeOK /\ ServiceInv /\ ServiceAction => ServiceInv'
<1> SUFFICES ASSUME TypeOK, ServiceInv, ServiceAction PROVE ServiceInv'
  OBVIOUS
<1>0. generic \in {"pending", "claim_pending", "complete", "corrupt"}
  BY DEF TypeOK, KNOWN_GENERIC_STATES
<1> USE DEF ServiceInv, Own, Service, image, claim, identity, access, firewall,
            history, card
<1>1. CASE Boot
  BY <1>1 DEF Boot
<1>2. CASE CheckReport
  <2>1. CASE generic = "corrupt"
    BY <1>2, <2>1 DEF CheckReport, generic_state, KNOWN_GENERIC_STATES
  <2>2. CASE generic = "pending"
    BY <1>2, <2>2 DEF CheckReport, generic_state, KNOWN_GENERIC_STATES,
                      validate_generic_image_report
  <2>3. CASE generic \in {"claim_pending", "complete"}
    BY <1>2, <2>3 DEF CheckReport, generic_state, KNOWN_GENERIC_STATES
  <2>. QED BY <1>0, <2>1, <2>2, <2>3
<1>3. CASE ImportOrFail
  BY <1>3 DEF ImportOrFail
<1>4. CASE CheckMarkers
  <2>1. CASE generic = "pending"
    BY <1>4, <2>1 DEF CheckMarkers
  <2>2. CASE generic = "claim_pending"
    BY <1>4, <2>2 DEF CheckMarkers
  <2>3. CASE generic = "complete"
    BY <1>4, <2>3 DEF CheckMarkers
  <2>4. generic # "corrupt"
    BY <1>4 DEF CheckMarkers
  <2>. QED BY <1>0, <2>1, <2>2, <2>3, <2>4
<1>5. CASE CopyConsoleKey
  BY <1>5 DEF CopyConsoleKey
<1>6. CASE provision_host_keys
  <2>1. CASE hostKeys
    BY <1>6, <2>1 DEF provision_host_keys
  <2>2. CASE ~hostKeys
    BY <1>6, <2>2 DEF provision_host_keys
  <2>. QED BY <2>1, <2>2
<1>7. CASE CreateTls
  BY <1>7 DEF CreateTls
<1>8. CASE Bootstrap
  BY <1>8 DEF Bootstrap, access_generic_bootstrap, OpenSetup,
              generic_web_setup_pending
<1>9. CASE BootstrapAgain
  BY <1>9 DEF BootstrapAgain, access_generic_bootstrap, OpenSetup,
              generic_web_setup_pending
<1>10. CASE BecomeClaimable
  BY <1>10 DEF BecomeClaimable, write_generic_state, atomic_write
<1>11. CASE LateLease
  BY <1>11 DEF LateLease
<1>. QED BY <1>1, <1>2, <1>3, <1>4, <1>5, <1>6, <1>7, <1>8, <1>9, <1>10, <1>11
         DEF ServiceAction, FirstBootService

\* A wizard leaves the service where it is.
LEMMA WizardServes ==
    ASSUME NEW a \in Admin, WizardAction(a)
    PROVE  /\ UNCHANGED <<svc, web, report, imager, consoleKey, mig, wasPending,
                          events>>
           /\ generic' \in {generic, "complete"}
<1> USE DEF WizardAction, setup, Configure, ConfigureFails, CheckClaim,
            WritePassword, WritePasswordFails, Renew, MoveKeys, MoveFails, InstallKeys,
            InstallFails, WriteCert, WriteKey, WriteKeyFails, CheckTls, CheckTlsFails,
            RestoreTls, access_firstboot_finalize, WriteSources, RenderClosed,
            CloseSetup, CloseFails, WriteFirstboot, WriteFirstbootFails, WriteGeneric,
            WizardError,
            image, claim, identity, access, firewall, history, card
<1>1. UNCHANGED <<svc, web, mig, wasPending, events>>
  BY DEF Fails, Run, Serve, Migration
<1>2. UNCHANGED <<report, imager, consoleKey>> /\ generic' \in {generic, "complete"}
  BY DEF write_generic_state, atomic_write
<1>. QED BY <1>1, <1>2

\* It runs only when the service has finished.
LEMMA WizardRuns ==
    ASSUME WizardInv, NEW a \in Admin, WizardAction(a)
    PROVE  svc = "released"
BY DEF WizardInv, WizardAction, setup, Configure, ConfigureFails, CheckClaim,
     WritePassword, WritePasswordFails, Renew, MoveKeys, MoveFails, InstallKeys,
     InstallFails, WriteCert, WriteKey, WriteKeyFails, CheckTls, CheckTlsFails,
     RestoreTls, access_firstboot_finalize, WriteSources, RenderClosed,
     CloseSetup, CloseFails, WriteFirstboot, WriteFirstbootFails, WriteGeneric,
     WizardError, Fails, Run, Serve

LEMMA ServiceByWizard ==
    ASSUME TypeOK, ServiceInv, WizardInv, NEW a \in Admin, WizardAction(a)
    PROVE  ServiceInv'
<1>1. svc = "released" /\ Own /\ generic \in {"claim_pending", "complete"}
  BY WizardRuns DEF ServiceInv
<1>2. /\ svc' = svc /\ UNCHANGED <<report, imager, consoleKey>>
      /\ generic' \in {generic, "complete"}
  BY WizardServes
<1>. QED BY <1>1, <1>2 DEF ServiceInv, Own

\* A migration touches the firewall only.
LEMMA MigrationFrame ==
    ASSUME MigrationAction
    PROVE  UNCHANGED <<image, claim, identity, access, broken, svc, web, Wizard>>
BY DEF MigrationAction, access_migrate, RenderMigration, ApplyMigration, history

LEMMA PowerFrame ==
    ASSUME PowerAction
    PROVE  /\ TurnOff
           /\ UNCHANGED <<image, claim, identity, access, firewall, stale, told>>
BY DEF PowerAction, Crash, Restart, TurnOff

LEMMA ServiceStep ==
    ASSUME TypeOK, ServiceInv, WizardInv, [Next]_vars
    PROVE  ServiceInv'
<1> USE DEF ServiceInv, Own, image, claim, identity
<1>1. CASE MigrationAction
  BY <1>1, MigrationFrame
<1>2. CASE PowerAction
  BY <1>2, PowerFrame DEF TurnOff
<1>3. CASE UNCHANGED vars
  BY <1>3 DEF vars, card
<1>. QED BY <1>1, <1>2, <1>3, ServiceByService, ServiceByWizard, NextIsOneOf

-----------------------------------------------------------------------------
(* What the steps of a wizard stand on.                                    *)

LEMMA WizardInit == Init => WizardInv
BY DEF Init, WizardInv

\* While the service runs there is no wizard, and it never gives the card
\* back: a "pending" image becomes claimable, no other one does.
LEMMA ServiceLeaves ==
    ASSUME TypeOK, ServiceInv, WizardInv, ServiceAction
    PROVE  /\ UNCHANGED <<step, form, spare, told, mixed, mig, wasPending,
                          firstboot, password, sources, broken, stale>>
           /\ svc # "released" /\ \A a \in Admin : step[a] = "idle"
           /\ generic' = generic \/ (generic = "pending" /\ generic' = "claim_pending"
                                       /\ svc = "claim")
<1>1. /\ svc # "released"
      /\ UNCHANGED <<step, form, spare, told, mixed, mig, wasPending>>
  BY DEF ServiceAction, FirstBootService, Boot, CheckReport, ImportOrFail,
     CheckMarkers, CopyConsoleKey, provision_host_keys, CreateTls, Bootstrap,
     BootstrapAgain, access_generic_bootstrap, OpenSetup, BecomeClaimable,
     LateLease, Service, Wizard, Migration
<1>2. UNCHANGED <<firstboot, password, sources, broken, stale>>
  BY DEF ServiceAction, FirstBootService, Boot, CheckReport, ImportOrFail,
     CheckMarkers, CopyConsoleKey, provision_host_keys, CreateTls, Bootstrap,
     BootstrapAgain, access_generic_bootstrap, OpenSetup, BecomeClaimable,
     LateLease, claim, access, history, card
<1>3. generic' = generic \/ (generic = "pending" /\ generic' = "claim_pending"
                               /\ svc = "claim")
  <2>1. CASE BecomeClaimable
    BY <2>1 DEF BecomeClaimable, Service, ServiceInv, write_generic_state, atomic_write
  <2>2. CASE ~BecomeClaimable
    BY <2>2 DEF ServiceAction, FirstBootService, Boot, CheckReport, ImportOrFail,
       CheckMarkers, CopyConsoleKey, provision_host_keys, CreateTls, Bootstrap,
       BootstrapAgain, access_generic_bootstrap, OpenSetup,
       LateLease, claim, card
  <2>. QED BY <2>1, <2>2
<1>. QED BY <1>1, <1>2, <1>3 DEF WizardInv

LEMMA WizardByService ==
    ASSUME TypeOK, ServiceInv, WizardInv, ServiceAction
    PROVE  WizardInv'
BY ServiceLeaves DEF WizardInv

\* A wizard writes its password before it renews the identity, its networks
\* before it closes the access, firstboot.json before the generic state; what
\* it writes is as good for every other wizard that is under way.
LEMMA WizardByWizard ==
    ASSUME TypeOK, ServiceInv, WizardInv, NEW a \in Admin, WizardAction(a)
    PROVE  WizardInv'
<1> USE DEF TypeOK, WizardInv, Serve, Run, Fails, Tell, image, claim, identity,
            access, firewall, history, card
<1>1. CASE setup(a)
  BY <1>1 DEF setup
<1>2. CASE CheckClaim(a)
  BY <1>2 DEF CheckClaim, parse_management_networks
<1>3. CASE WritePassword(a) \/ WritePasswordFails(a)
  BY <1>3, AdminAssumption DEF WritePassword, WritePasswordFails, atomic_write
<1>4. ASSUME NEW from \in RenewSteps,
             NEW to \in RenewSteps \cup {"gate", "idle"}, Serve(a, from, to),
             UNCHANGED <<form, claim, access>>,
             told' \in {told, [told EXCEPT ![a] = "failed"]}
      PROVE  WizardInv'
  BY <1>4 DEF RenewSteps
<1>5. CASE Renew(a) \/ MoveFails(a) \/ InstallFails(a) \/ WriteKeyFails(a)
             \/ CheckTlsFails(a)
  <2>1. PICK from \in RenewSteps, to \in RenewSteps \cup {"gate", "idle"} :
          Serve(a, from, to)
    BY <1>5 DEF RenewSteps, Renew, MoveKeys, InstallKeys, WriteCert, WriteKey,
       CheckTls, RestoreTls, MoveFails, InstallFails, WriteKeyFails, CheckTlsFails
  <2>2. /\ UNCHANGED <<form, claim, access>>
        /\ told' \in {told, [told EXCEPT ![a] = "failed"]}
    BY <1>5 DEF Renew, MoveKeys, InstallKeys, WriteCert, WriteKey,
       CheckTls, RestoreTls, MoveFails, InstallFails, WriteKeyFails, CheckTlsFails
  <2>. QED BY <1>4, <2>1, <2>2
<1>7. CASE access_firstboot_finalize(a)
  BY <1>7 DEF access_firstboot_finalize
<1>8. CASE WriteSources(a)
  BY <1>8 DEF WriteSources
<1>9. CASE RenderClosed(a)
  BY <1>9 DEF RenderClosed
<1>10. CASE CloseSetup(a)
  BY <1>10 DEF CloseSetup
<1>14. CASE CloseFails(a)
  BY <1>14 DEF CloseFails
<1>11. CASE WriteFirstboot(a) \/ WriteFirstbootFails(a)
  BY <1>11 DEF WriteFirstboot, WriteFirstbootFails, atomic_write
<1>12. CASE WriteGeneric(a)
  BY <1>12 DEF WriteGeneric, write_generic_state, atomic_write
<1>13. CASE WizardError(a)
  BY <1>13 DEF WizardError
<1>. QED BY <1>1, <1>2, <1>3, <1>5, <1>7, <1>8, <1>9, <1>10, <1>11, <1>12, <1>13,
            <1>14
         DEF WizardAction, Configure, ConfigureFails

LEMMA WizardStep ==
    ASSUME TypeOK, ServiceInv, WizardInv, [Next]_vars
    PROVE  WizardInv'
<1> USE DEF WizardInv, claim, access
<1>1. CASE MigrationAction
  BY <1>1, MigrationFrame DEF Wizard
<1>2. CASE PowerAction
  BY <1>2, PowerFrame DEF TurnOff
<1>3. CASE UNCHANGED vars
  BY <1>3 DEF vars, card
<1>. QED BY <1>1, <1>2, <1>3, WizardByService, WizardByWizard, NextIsOneOf

-----------------------------------------------------------------------------
(* The identity.                                                           *)

LEMMA IdentityInit == Init => IdentityInv
BY DEF Init, IdentityInv, Renewing, Overlap

LEMMA IdentityByService ==
    ASSUME TypeOK, ServiceInv, WizardInv, IdentityInv, ServiceAction
    PROVE  IdentityInv'
<1>1. Renewing' = {} /\ Renewing = {} /\ ~Overlap'
  BY ServiceLeaves DEF Renewing, Overlap
<1>2. ~mixed' /\ broken' = broken
  BY <1>1, ServiceLeaves DEF IdentityInv
<1>3. CASE generic \in {"claim_pending", "complete"}
  <2>1. UNCHANGED <<hostKeys, tls>>
    BY <1>3 DEF ServiceInv, ServiceAction, FirstBootService, Boot, CheckReport, ImportOrFail,
     CheckMarkers, CopyConsoleKey, provision_host_keys, CreateTls, Bootstrap,
     BootstrapAgain, access_generic_bootstrap, OpenSetup, BecomeClaimable,
     LateLease, Service, identity, card
  <2>2. generic' = generic
    BY <1>3, ServiceLeaves
  <2>. QED BY <1>1, <1>2, <1>3, <2>1, <2>2 DEF IdentityInv
<1>4. CASE svc = "claim" /\ generic' = "claim_pending"
  <2>1. UNCHANGED <<hostKeys, tls>>
    BY <1>4 DEF ServiceAction, FirstBootService, Boot, CheckReport, ImportOrFail,
       CheckMarkers, CopyConsoleKey, provision_host_keys, CreateTls, Bootstrap,
       BootstrapAgain, access_generic_bootstrap, OpenSetup, BecomeClaimable,
       LateLease, Service, identity, card
  <2>2. hostKeys /\ tls
    BY <1>4 DEF ServiceInv
  <2>. QED BY <1>1, <1>2, <2>1, <2>2 DEF IdentityInv
<1>5. CASE generic' \notin {"claim_pending", "complete"}
  BY <1>1, <1>2, <1>5 DEF IdentityInv
<1>. QED BY <1>3, <1>4, <1>5, ServiceLeaves

\* How a step of a wizard changes who is renewing.
LEMMA Moves ==
    ASSUME TypeOK, NEW a \in Admin, NEW from, NEW to, Serve(a, from, to)
    PROVE  /\ a \in Renewing <=> from \in RenewSteps
           /\ to \in RenewSteps => Renewing' = Renewing \cup {a}
           /\ to \notin RenewSteps => Renewing' = Renewing \ {a}
           /\ mixed' = (Renewing' # {} /\ (mixed \/ Overlap'))
<1>1. step[a] = from /\ step'[a] = to /\ \A b \in Admin \ {a} : step'[b] = step[b]
  BY ServeFrame
<1>2. mixed' = (Renewing' # {} /\ (mixed \/ Overlap'))
  BY DEF Serve
<1>. QED BY <1>1, <1>2 DEF Renewing, RenewSteps

\* A renewal that is not mixed is the only one.
LEMMA Alone ==
    ASSUME IdentityInv, ~mixed, NEW a \in Renewing
    PROVE  Renewing = {a}
BY DEF IdentityInv, Overlap

\* Steps before and after a renewal change nothing it stands on.
LEMMA StepOutside ==
    ASSUME TypeOK, IdentityInv, NEW a \in Admin, NEW from, NEW to,
           Serve(a, from, to), from \notin RenewSteps, to \notin RenewSteps,
           UNCHANGED <<hostKeys, tls, broken>>, spare' \in {spare, spare \ {a}},
           generic \in {"claim_pending", "complete"}
    PROVE  IdentityInv'
<1>1. a \notin Renewing /\ Renewing' = Renewing
  BY Moves
<1>2. Overlap' = Overlap
  BY <1>1 DEF Overlap
<1>3. mixed' = mixed
  BY <1>1, <1>2, Moves DEF IdentityInv, TypeOK
<1>4. \A b \in Renewing : step'[b] = step[b] /\ (b \in spare' <=> b \in spare)
  BY <1>1, ServeFrame DEF Renewing
<1>. QED BY <1>1, <1>2, <1>3, <1>4 DEF IdentityInv

\* A step within a renewal, which runs alone or leaves it broken anyway.
LEMMA StepWithin ==
    ASSUME TypeOK, IdentityInv, NEW a \in Admin, NEW from \in RenewSteps,
           NEW to \in RenewSteps, Serve(a, from, to), broken' = broken,
           ~mixed /\ Renewing = {a} /\ step'[a] = to =>
             /\ to \in {"cert", "key", "nginx", "undo"} => hostKeys'
             /\ to = "nginx" => tls'
             /\ ~broken => /\ to = "keys" => hostKeys' /\ tls'
                           /\ to \in {"install", "cert"} => tls'
                           /\ to \in {"install", "key", "nginx", "undo"} => a \in spare'
    PROVE  IdentityInv'
<1>1. a \in Renewing /\ Renewing' = Renewing /\ step'[a] = to
  BY Moves, ServeFrame
<1>2. Overlap' = Overlap
  BY <1>1 DEF Overlap
<1>3. mixed' = mixed
  BY <1>1, <1>2, Moves DEF IdentityInv, TypeOK
<1>4. CASE mixed
  BY <1>1, <1>2, <1>3, <1>4 DEF IdentityInv
<1>5. CASE ~mixed
  <2>1. Renewing = {a}
    BY <1>1, <1>5, Alone
  <2>. QED BY <1>1, <1>2, <1>3, <1>5, <2>1 DEF IdentityInv
<1>. QED BY <1>4, <1>5

\* The last step of a renewal.
LEMMA StepOut ==
    ASSUME TypeOK, IdentityInv, NEW a \in Admin, NEW from \in RenewSteps,
           NEW to, Serve(a, from, to), to \notin RenewSteps,
           mixed => broken', ~mixed /\ ~broken' => hostKeys' /\ tls'
    PROVE  IdentityInv'
<1>1. a \in Renewing /\ Renewing' = Renewing \ {a}
  BY Moves
<1>2. mixed' = (Renewing' # {} /\ (mixed \/ Overlap'))
  BY Moves
<1>3. CASE mixed
  <2>1. Overlap' => Renewing' # {}
    BY DEF Overlap
  <2>. QED BY <1>1, <1>2, <1>3, <2>1 DEF IdentityInv
<1>4. CASE ~mixed
  <2>1. Renewing' = {}
    BY <1>1, <1>4, Alone
  <2>2. ~Overlap'
    BY <2>1 DEF Overlap
  <2>. QED BY <1>2, <1>4, <2>1, <2>2 DEF IdentityInv
<1>. QED BY <1>3, <1>4

\* The first: the identity is whole when nobody else is at it.
LEMMA StepIn ==
    ASSUME TypeOK, IdentityInv, NEW a \in Admin, WritePassword(a),
           generic \in {"claim_pending", "complete"}
    PROVE  IdentityInv'
<1>1. Serve(a, "password", "keys") /\ UNCHANGED <<hostKeys, tls, spare>>
  BY DEF WritePassword, Run, identity
<1>2. a \notin Renewing /\ Renewing' = Renewing \cup {a} /\ step'[a] = "keys"
  BY <1>1, Moves, ServeFrame DEF RenewSteps
<1>3. mixed' = (Renewing' # {} /\ (mixed \/ Overlap')) /\ broken' = (broken \/ Overlap')
  BY <1>1, Moves DEF WritePassword
<1>4. CASE Renewing = {}
  <2>1. ~Overlap' /\ Renewing' = {a}
    BY <1>2, <1>4 DEF Overlap
  <2>2. ~mixed' /\ broken' = broken
    BY <1>3, <1>4, <2>1 DEF IdentityInv, TypeOK
  <2>3. ~broken => hostKeys' /\ tls'
    BY <1>1, <1>4 DEF IdentityInv
  <2>. QED BY <1>2, <2>1, <2>2, <2>3 DEF IdentityInv
<1>5. CASE Renewing # {}
  <2>1. PICK b \in Renewing : b # a
    BY <1>2, <1>5
  <2>2. Overlap'
    BY <1>2, <2>1 DEF Overlap
  <2>3. mixed' /\ broken'
    BY <1>2, <1>3, <2>2
  <2>. QED BY <1>2, <2>3 DEF IdentityInv
<1>. QED BY <1>4, <1>5

\* A wizard takes the identity from one whole state to the next when it runs
\* alone and no step fails where nothing undoes it.
LEMMA IdentityByWizard ==
    ASSUME TypeOK, ServiceInv, WizardInv, IdentityInv, NEW a \in Admin,
           WizardAction(a)
    PROVE  IdentityInv'
<1>0. generic \in {"claim_pending", "complete"}
  BY WizardRuns DEF ServiceInv
<1> USE DEF Run, image, identity, history, card, RenewSteps
<1>1. CASE setup(a)
  BY <1>0, <1>1, StepOutside DEF setup
<1>2. CASE CheckClaim(a)
  BY <1>0, <1>2, StepOutside DEF CheckClaim, Fails
<1>3. CASE WritePassword(a)
  BY <1>0, <1>3, StepIn
<1>4. CASE WritePasswordFails(a)
  BY <1>0, <1>4, StepOutside DEF WritePasswordFails, Fails
<1>5. CASE MoveKeys(a)
  <2>1. ~mixed => (a \in spare' <=> hostKeys)
    BY <1>5 DEF MoveKeys, SetAside, Outcome, TypeOK
  <2>2. ~mixed /\ Renewing = {a} => step[a] = "keys"
    BY <1>5 DEF MoveKeys, Serve
  <2>3. ~mixed /\ Renewing = {a} /\ ~broken => hostKeys /\ tls
    BY <2>2 DEF IdentityInv
  <2>. QED BY <1>5, <2>1, <2>3, StepWithin DEF MoveKeys
<1>6. CASE MoveFails(a)
  BY <1>6, StepOut DEF MoveFails, Fails
<1>7. CASE InstallKeys(a)
  <2>1. ~mixed => hostKeys'
    BY <1>7 DEF InstallKeys, Outcome
  <2>2. ~mixed /\ Renewing = {a} /\ ~broken => tls
    BY <1>7 DEF InstallKeys, Serve, IdentityInv
  <2>. QED BY <1>7, <2>1, <2>2, StepWithin DEF InstallKeys
<1>8. CASE InstallFails(a)
  <2>1. Serve(a, "install", "idle") /\ step[a] = "install" /\ a \in Renewing
    BY <1>8, Moves, ServeFrame DEF InstallFails, Fails
  <2>2. ~mixed /\ ~broken => a \in spare /\ tls
    BY <2>1 DEF IdentityInv
  <2>3. ~mixed /\ a \in spare => hostKeys'
    BY <1>8 DEF InstallFails, Outcome
  <2>4. mixed => broken
    BY DEF IdentityInv
  <2>. QED BY <1>8, <2>1, <2>2, <2>3, <2>4, StepOut DEF InstallFails
<1>9. CASE WriteCert(a)
  <2>1. ~mixed => (a \in spare' <=> tls)
    BY <1>9 DEF WriteCert, SetAside, Outcome, TypeOK
  <2>2. ~mixed /\ Renewing = {a} => hostKeys /\ (~broken => tls)
    BY <1>9 DEF WriteCert, Serve, IdentityInv
  <2>. QED BY <1>9, <2>1, <2>2, StepWithin DEF WriteCert
<1>10. CASE WriteKey(a)
  <2>1. ~mixed => tls'
    BY <1>10 DEF WriteKey, Outcome
  <2>2. ~mixed /\ Renewing = {a} => hostKeys /\ (~broken => a \in spare)
    BY <1>10 DEF WriteKey, Serve, IdentityInv
  <2>. QED BY <1>10, <2>1, <2>2, StepWithin DEF WriteKey
<1>11. CASE WriteKeyFails(a)
  BY <1>11, StepOut DEF WriteKeyFails, Fails
<1>12. CASE CheckTls(a)
  <2>1. Serve(a, "nginx", "gate") /\ step[a] = "nginx" /\ a \in Renewing
    BY <1>12, Moves, ServeFrame DEF CheckTls
  <2>2. ~mixed => hostKeys /\ tls
    BY <2>1 DEF IdentityInv
  <2>3. mixed => broken
    BY DEF IdentityInv
  <2>. QED BY <1>12, <2>1, <2>2, <2>3, StepOut DEF CheckTls
<1>13. CASE CheckTlsFails(a)
  <2>1. ~mixed /\ Renewing = {a} => hostKeys /\ (~broken => a \in spare)
    BY <1>13 DEF CheckTlsFails, Serve, IdentityInv
  <2>. QED BY <1>13, <2>1, StepWithin DEF CheckTlsFails
<1>14. CASE RestoreTls(a)
  <2>1. Serve(a, "undo", "idle") /\ step[a] = "undo" /\ a \in Renewing
    BY <1>14, Moves, ServeFrame DEF RestoreTls, Fails
  <2>2. ~mixed => hostKeys /\ (~broken => a \in spare)
    BY <2>1 DEF IdentityInv
  <2>3. ~mixed /\ a \in spare => tls'
    BY <1>14 DEF RestoreTls, Outcome
  <2>4. mixed => broken
    BY DEF IdentityInv
  <2>. QED BY <1>14, <2>1, <2>2, <2>3, <2>4, StepOut DEF RestoreTls
<1>15. CASE access_firstboot_finalize(a)
  BY <1>0, <1>15, StepOutside DEF access_firstboot_finalize, Fails
<1>16. CASE WriteSources(a)
  BY <1>0, <1>16, StepOutside DEF WriteSources
<1>17. CASE RenderClosed(a) \/ CloseSetup(a) \/ CloseFails(a)
  BY <1>0, <1>17, StepOutside DEF RenderClosed, CloseSetup, CloseFails, Fails
<1>18. CASE WriteFirstboot(a) \/ WriteFirstbootFails(a)
  BY <1>0, <1>18, StepOutside DEF WriteFirstboot, WriteFirstbootFails, Fails
<1>19. CASE WriteGeneric(a)
  BY <1>0, <1>19, StepOutside DEF WriteGeneric
<1>20. CASE WizardError(a)
  <2>1. PICK at : Fails(a, at) /\ at \in {"keys", "cert", "sources", "close",
                                          "shut", "generic"}
    BY <1>20 DEF WizardError
  <2>2. UNCHANGED <<hostKeys, tls, broken>> /\ spare' = spare \ {a}
    BY <1>20, <2>1 DEF WizardError, Fails
  <2>3. Serve(a, at, "idle") /\ step[a] = at
    BY <2>1, FailsFrame, ServeFrame
  <2>4. CASE at \notin RenewSteps
    BY <1>0, <2>2, <2>3, <2>4, StepOutside
  <2>5. CASE at \in {"keys", "cert"}
    <3>1. a \in Renewing
      BY <2>3, <2>5, Moves
    <3>2. ~mixed /\ ~broken => hostKeys /\ tls
      BY <2>3, <2>5, <3>1 DEF IdentityInv
    <3>3. mixed => broken
      BY DEF IdentityInv
    <3>. QED BY <2>2, <2>3, <2>5, <3>2, <3>3, StepOut
  <2>. QED BY <2>1, <2>4, <2>5
<1>. QED BY <1>1, <1>2, <1>3, <1>4, <1>5, <1>6, <1>7, <1>8, <1>9, <1>10, <1>11,
            <1>12, <1>13, <1>14, <1>15, <1>16, <1>17, <1>18, <1>19, <1>20
         DEF WizardAction, Configure, ConfigureFails, Renew

\* A power failure leaves a whole identity, or a broken one.
LEMMA IdentityByPower ==
    ASSUME TypeOK, IdentityInv, PowerAction
    PROVE  IdentityInv'
<1>1. Renewing' = {} /\ ~Overlap' /\ ~mixed'
  BY PowerFrame DEF TurnOff, Renewing, Overlap
<1>2. /\ UNCHANGED <<generic, hostKeys, tls>>
      /\ broken' = (broken \/ \E a \in Admin : step[a] \in {"install", "key", "undo"})
  BY PowerFrame DEF TurnOff, claim, identity
<1>3. CASE Renewing = {}
  BY <1>1, <1>2, <1>3 DEF IdentityInv
<1>4. CASE Renewing # {} /\ ~broken'
  <2>1. PICK a \in Renewing : TRUE
    BY <1>4
  <2>2. ~broken /\ ~mixed /\ step[a] \in {"keys", "cert", "nginx"}
    BY <1>2, <1>4, <2>1 DEF IdentityInv, Renewing
  <2>3. hostKeys /\ tls
    BY <2>1, <2>2 DEF IdentityInv
  <2>. QED BY <1>1, <1>2, <2>3 DEF IdentityInv
<1>5. CASE broken'
  BY <1>1, <1>5 DEF IdentityInv
<1>. QED BY <1>3, <1>4, <1>5

LEMMA IdentityStep ==
    ASSUME TypeOK, ServiceInv, WizardInv, IdentityInv, [Next]_vars
    PROVE  IdentityInv'
<1>1. ASSUME UNCHANGED <<step, spare, mixed, broken, generic, hostKeys, tls>>
      PROVE  IdentityInv'
  <2>1. Renewing' = Renewing
    BY <1>1 DEF Renewing
  <2>2. Overlap' = Overlap
    BY <2>1 DEF Overlap
  <2>. QED BY <1>1, <2>1, <2>2 DEF IdentityInv
<1>2. CASE MigrationAction
  BY <1>1, <1>2, MigrationFrame DEF Wizard, claim, identity
<1>3. CASE UNCHANGED vars
  BY <1>1, <1>3 DEF vars, card, claim, identity, history
<1>. QED BY <1>2, <1>3, IdentityByService, IdentityByWizard, IdentityByPower,
            NextIsOneOf

-----------------------------------------------------------------------------
(* The temporary access.                                                   *)

LEMMA ClosedInit == Init => ClosedInv
BY DEF Init, ClosedInv

\* The service opens the access only while firstboot.json is pending and no
\* wizard runs.
LEMMA ClosedByService ==
    ASSUME TypeOK, ServiceInv, WizardInv, ClosedInv, ServiceAction
    PROVE  ClosedInv'
<1>1. /\ UNCHANGED <<step, firstboot, mig, wasPending, stale>>
      /\ \A a \in Admin : step[a] # "firstboot"
  BY ServiceLeaves
<1>2. open' = open \/ firstboot = "pending"
  <2>1. CASE OpenSetup("open", "claim") \/ OpenSetup("openAgain", "released")
    BY <2>1 DEF OpenSetup, Service, ServiceInv
  <2>2. CASE ~(OpenSetup("open", "claim") \/ OpenSetup("openAgain", "released"))
    BY <2>2 DEF ServiceAction, FirstBootService, Boot, CheckReport, ImportOrFail,
       CheckMarkers, CopyConsoleKey, provision_host_keys, CreateTls, Bootstrap,
       BootstrapAgain, access_generic_bootstrap, BecomeClaimable,
       LateLease, firewall, card
  <2>. QED BY <2>1, <2>2
<1>. QED BY <1>1, <1>2 DEF ClosedInv

\* A wizard closes the access before it writes firstboot.json, and takes note
\* of a migration that has read the pending claim.
LEMMA ClosedByWizard ==
    ASSUME TypeOK, WizardInv, ClosedInv, NEW a \in Admin, WizardAction(a)
    PROVE  ClosedInv'
<1>1. UNCHANGED <<mig, wasPending>>
  BY WizardServes
<1>2. CASE CloseSetup(a)
  BY <1>1, <1>2 DEF CloseSetup, InstallRules, ClosedInv
<1>3. CASE ~CloseSetup(a)
  <2>1. UNCHANGED <<open, stale>>
    BY <1>3 DEF WizardAction, setup, Configure, ConfigureFails, CheckClaim,
       WritePassword, WritePasswordFails, Renew, MoveKeys, MoveFails, InstallKeys,
       InstallFails, WriteCert, WriteKey, WriteKeyFails, CheckTls, CheckTlsFails,
       RestoreTls, access_firstboot_finalize, WriteSources, RenderClosed,
       CloseFails, WriteFirstboot, WriteFirstbootFails, WriteGeneric,
       WizardError,
       RenderCandidate, CandidateLost, firewall, history, card
  <2>2. CASE WriteFirstboot(a) \/ WriteFirstbootFails(a)
    <3>1. step[a] = "firstboot"
      BY <2>2 DEF WriteFirstboot, WriteFirstbootFails, Fails, Run, Serve
    <3>. QED BY <1>1, <2>1, <3>1 DEF ClosedInv
  <2>3. CASE ~(WriteFirstboot(a) \/ WriteFirstbootFails(a))
    <3>1. firstboot' = firstboot
      BY <1>3, <2>3 DEF WizardAction, setup, Configure, ConfigureFails, CheckClaim,
         WritePassword, WritePasswordFails, Renew, MoveKeys, MoveFails, InstallKeys,
         InstallFails, WriteCert, WriteKey, WriteKeyFails, CheckTls, CheckTlsFails,
         RestoreTls, access_firstboot_finalize, WriteSources, RenderClosed,
         CloseFails, WriteGeneric, WizardError, claim, card
    <3>2. PICK from \in Steps, to \in Steps \ {"firstboot"} : Serve(a, from, to)
      BY <1>3, <2>3 DEF WizardAction, setup, Configure, ConfigureFails, CheckClaim,
         WritePassword, WritePasswordFails, Renew, MoveKeys, MoveFails, InstallKeys,
         InstallFails, WriteCert, WriteKey, WriteKeyFails, CheckTls, CheckTlsFails,
         RestoreTls, access_firstboot_finalize, WriteSources, RenderClosed,
         CloseFails, WriteGeneric, WizardError, Fails, Run, Steps
    <3>3. \A b \in Admin : step'[b] = "firstboot" => step[b] = "firstboot"
      BY <3>2, ServeFrame
    <3>. QED BY <1>1, <2>1, <3>1, <3>3 DEF ClosedInv
  <2>. QED BY <2>2, <2>3
<1>. QED BY <1>2, <1>3

LEMMA ClosedByMigration ==
    ASSUME TypeOK, ClosedInv, MigrationAction
    PROVE  ClosedInv'
<1>0. UNCHANGED <<step, firstboot>>
  BY MigrationFrame DEF claim, Wizard
<1>1. CASE access_migrate
  <2>1. /\ wasPending' = generic_web_setup_pending /\ open' = open
        /\ stale' = (stale \/ (wasPending' /\ \E a \in Admin : step[a] = "firstboot"))
    BY <1>1 DEF access_migrate, firewall
  <2>2. wasPending' => firstboot = "pending"
    BY <2>1 DEF generic_web_setup_pending
  <2>. QED BY <1>0, <2>1, <2>2 DEF ClosedInv, TypeOK
<1>2. CASE RenderMigration
  BY <1>0, <1>2 DEF RenderMigration, history, ClosedInv
<1>3. CASE ApplyMigration
  <2>1. mig = "apply" /\ mig' = "idle"
    BY <1>3 DEF ApplyMigration
  <2>2. \/ open' = open /\ stale' = stale
        \/ open' = wasPending /\ stale' = (stale /\ wasPending)
    BY <1>3 DEF ApplyMigration, InstallRules, CandidateLost, firewall
  <2>. QED BY <1>0, <2>1, <2>2 DEF ClosedInv, TypeOK
<1>. QED BY <1>1, <1>2, <1>3 DEF MigrationAction

LEMMA ClosedStep ==
    ASSUME TypeOK, ServiceInv, WizardInv, ClosedInv, [Next]_vars
    PROVE  ClosedInv'
<1>1. CASE PowerAction
  BY <1>1, PowerFrame DEF TurnOff, claim, firewall, ClosedInv
<1>2. CASE UNCHANGED vars
  BY <1>2 DEF vars, card, claim, firewall, history, ClosedInv
<1>. QED BY <1>1, <1>2, ClosedByService, ClosedByWizard, ClosedByMigration,
            NextIsOneOf

-----------------------------------------------------------------------------
(* The theorems.                                                           *)

LEMMA InductiveStep == InductiveInv /\ [Next]_vars => InductiveInv'
BY TypeStep, ServiceStep, WizardStep, IdentityStep, ClosedStep DEF InductiveInv

\* Types, and what the steps of the service, of the wizards, of a renewal and
\* of the migration stand on, through every crash, restart and second wizard.
THEOREM InductiveInvCorrect == Spec => []InductiveInv
<1>1. Init => InductiveInv
  BY TypeInit, ServiceInit, WizardInit, IdentityInit, ClosedInit DEF InductiveInv
<1>. QED BY <1>1, InductiveStep, PTL DEF Spec

\* The state files, the steps and the bounds keep their types; the service
\* meets no state of generic-image.json that it has no case for.
THEOREM TypeCorrect == Spec => []TypeOK
<1>1. InductiveInv => TypeOK
  BY DEF InductiveInv
<1>. QED BY <1>1, InductiveInvCorrect, PTL

\* consolepi-generic-image-firstboot: SSH and the web are released on an image
\* that is the device's own, whichever steps earlier starts were cut off at;
\* with its host keys and TLS pair, unless a renewal of a wizard is under way or
\* left them broken.
THEOREM ReleasedIsOwnCorrect == Spec => []ReleasedIsOwn
<1>1. InductiveInv => ReleasedIsOwn
  BY DEF InductiveInv, ServiceInv, IdentityInv, Own, ReleasedIsOwn
<1>. QED BY <1>1, InductiveInvCorrect, PTL

\* firstboot_configure: no power failure and no second wizard ends the setup
\* without a password and an allow-list that reaches its administrator.
THEOREM CompleteIsClaimedCorrect == Spec => []CompleteIsClaimed
<1>1. InductiveInv => CompleteIsClaimed
  BY DEF InductiveInv, WizardInv, CompleteIsClaimed
<1>. QED BY <1>1, InductiveInvCorrect, PTL

\* firstboot_configure: whoever is told that the wizard is done finds both
\* files complete, then and ever after.
THEOREM DoneIsDurableCorrect == Spec => []DoneIsDurable
<1>1. InductiveInv => DoneIsDurable
  BY DEF InductiveInv, WizardInv, DoneIsDurable
<1>. QED BY <1>1, InductiveInvCorrect, PTL

\* access firstboot-finalize and access migrate: the temporary access is closed
\* with the wizard and stays closed, but for a migration that had read the
\* pending claim, and then until the next migration.
THEOREM CompleteIsClosedCorrect == Spec => []CompleteIsClosed
<1>1. InductiveInv => CompleteIsClosed
  BY DEF InductiveInv, WizardInv, ClosedInv, CompleteIsClosed
<1>. QED BY <1>1, InductiveInvCorrect, PTL

-----------------------------------------------------------------------------
(* What a claim and a verdict go through.                                  *)

\* The wizards and the migration leave the service where it is.
LEMMA ServiceStays ==
    ASSUME (\E a \in Admin : WizardAction(a)) \/ MigrationAction
    PROVE  UNCHANGED <<svc, imager>>
BY WizardServes, MigrationFrame DEF image

\* Only the last step of the service and the last two of a wizard touch the
\* state files.
LEMMA ClaimSteps ==
    ASSUME InductiveInv, [Next]_vars
    PROVE  /\ generic' = generic \/ <<generic, generic'>> \in
                {<<"pending", "claim_pending">>, <<"claim_pending", "complete">>}
           /\ firstboot = "complete" => firstboot' = "complete"
<1>1. CASE ServiceAction
  BY <1>1, ServiceLeaves DEF InductiveInv
<1>2. ASSUME NEW a \in Admin, WizardAction(a)
      PROVE  /\ generic' = generic \/ (generic = "claim_pending" /\ generic' = "complete")
             /\ firstboot = "complete" => firstboot' = "complete"
  <2>1. generic \in {"claim_pending", "complete"} /\ generic' \in {generic, "complete"}
    BY <1>2, WizardRuns, WizardServes DEF InductiveInv, ServiceInv
  <2>2. firstboot' \in {firstboot, "complete"}
    BY <1>2 DEF WizardAction, setup, Configure, ConfigureFails, CheckClaim,
       WritePassword, WritePasswordFails, Renew, MoveKeys, MoveFails, InstallKeys,
       InstallFails, WriteCert, WriteKey, WriteKeyFails, CheckTls, CheckTlsFails,
       RestoreTls, access_firstboot_finalize, WriteSources, RenderClosed,
       CloseSetup, CloseFails, WriteFirstboot, WriteFirstbootFails, WriteGeneric,
       WizardError, atomic_write, claim, card
  <2>. QED BY <2>1, <2>2
<1>3. CASE MigrationAction \/ PowerAction \/ UNCHANGED vars
  BY <1>3, MigrationFrame, PowerFrame DEF vars, card, claim
<1>. QED BY <1>1, <1>2, <1>3, NextIsOneOf

\* consolepi-generic-image-firstboot and firstboot_configure: through any
\* crashes and any number of wizards a claim only goes forward.
THEOREM ClaimGoesForwardCorrect == Spec => ClaimGoesForward
<1>1. InductiveInv /\ [Next]_vars =>
        [/\ generic' # generic =>
              <<generic, generic'>> \in {<<"pending", "claim_pending">>,
                                         <<"claim_pending", "complete">>}
         /\ firstboot = "complete" => firstboot' = "complete"]_vars
  BY ClaimSteps
<1>. QED BY <1>1, InductiveInvCorrect, PTL DEF Spec, ClaimGoesForward

\* A start of an image that is not "pending" any more passes the report and
\* the markers: what they ask for is on the card for ever (Own).
LEMMA StopsFor ==
    ASSUME InductiveInv, [Next]_vars, svc # "stopped", svc' = "stopped",
           generic \in {"claim_pending", "complete"}
    PROVE  \/ faults' > faults
           \/ svc \in {"open", "openAgain"} /\ ~candidate
           \/ firstboot = "complete" /\ generic = "claim_pending"
<1>1. ServiceAction
  <2>1. ~(\E a \in Admin : WizardAction(a)) /\ ~MigrationAction
    BY ServiceStays
  <2>2. ~PowerAction /\ ~UNCHANGED vars
    BY PowerFrame DEF TurnOff, vars
  <2>. QED BY <2>1, <2>2, NextIsOneOf
<1>2. CASE LateLease
  BY <1>2, BoundsAssumption DEF LateLease, Fault, InductiveInv, TypeOK
<1>3. CASE CheckReport
  <2>1. generic_state = generic
    BY DEF generic_state, KNOWN_GENERIC_STATES
  <2>2. svc' = "markers"
    BY <1>3, <2>1 DEF CheckReport, Service
  <2>. QED BY <2>2
<1>4. CASE CheckMarkers
  <2>1. imager = "imported"
    BY DEF InductiveInv, ServiceInv, Own
  <2>2. svc' \in {"again", "released"}
    BY <1>4, <2>1 DEF CheckMarkers, Service
  <2>. QED BY <2>2
<1>5. CASE access_generic_bootstrap("lease", "open")
  BY <1>5 DEF access_generic_bootstrap, Service, InductiveInv, ServiceInv
<1>6. CASE access_generic_bootstrap("again", "openAgain")
  <2>1. generic = "claim_pending" /\ ~generic_web_setup_pending
    BY <1>6 DEF access_generic_bootstrap, Service, InductiveInv, ServiceInv
  <2>. QED BY <2>1 DEF generic_web_setup_pending, InductiveInv, TypeOK
<1>7. CASE OpenSetup("open", "claim") \/ OpenSetup("openAgain", "released")
  BY <1>7 DEF OpenSetup, CandidateLost, Service
<1>8. CASE Boot \/ ImportOrFail \/ CopyConsoleKey \/ CreateTls \/ BecomeClaimable
  BY <1>8 DEF Boot, ImportOrFail, CopyConsoleKey, CreateTls, BecomeClaimable, Service
<1>9. CASE provision_host_keys
  BY <1>9 DEF provision_host_keys, Service, InductiveInv, ServiceInv
<1>. QED BY <1>1, <1>2, <1>3, <1>4, <1>5, <1>6, <1>7, <1>8, <1>9
         DEF ServiceAction, FirstBootService, Bootstrap, BootstrapAgain

\* consolepi-generic-image-firstboot: SSH and the web of a claimable or claimed
\* device are kept back by a lease or a firewall that fails, by a migration that
\* has removed the service's candidate, or by a wizard that ended between its
\* two files, and by nothing else.
THEOREM ClaimableStartsCorrect == Spec => ClaimableStarts
<1>1. InductiveInv /\ [Next]_vars =>
        [svc # "stopped" /\ svc' = "stopped" /\ generic \in {"claim_pending", "complete"}
           => \/ faults' > faults
              \/ svc \in {"open", "openAgain"} /\ ~candidate
              \/ firstboot = "complete" /\ generic = "claim_pending"]_vars
  BY StopsFor
<1>. QED BY <1>1, InductiveInvCorrect, PTL DEF Spec, ClaimableStarts

\* With its verdict taken from Imager's customisation, the first boot is an
\* execution of the promise that ImagerGuard implements.
THEOREM VerdictKeptCorrect == Spec => VerdictKept
<1>1. Init => Promise!Init
  BY DEF Init, Promise!Init
<1>2. InductiveInv /\ [Next]_vars => [Promise!Next]_(Promise!vars)
  <2> SUFFICES ASSUME InductiveInv, [Next]_vars
               PROVE  Promise!Next \/ UNCHANGED Promise!vars
    OBVIOUS
  <2>1. CASE (\E a \in Admin : WizardAction(a)) \/ MigrationAction \/ UNCHANGED vars
    <3>1. UNCHANGED <<svc, imager>>
      BY <2>1, ServiceStays DEF vars, card, image
    <3>. QED BY <3>1 DEF Promise!vars
  <2>2. CASE PowerAction
    <3>1. imager' = imager /\ svc' # "released"
      BY <2>2, PowerFrame DEF TurnOff, image
    <3>. QED BY <3>1 DEF Promise!Next, Promise!PowerOff
  <2>3. CASE ImportOrFail
    <3>1. svc # "released" /\ svc' # "released"
      BY <2>3 DEF ImportOrFail, Service
    <3>2. CASE imager = "open" /\ imager' = "imported"
      BY <3>1, <3>2 DEF Promise!Next, Promise!Import
    <3>3. CASE imager = "open" /\ imager' = "failed"
      BY <3>1, <3>3 DEF Promise!Next, Promise!Fail
    <3>4. CASE imager' = imager
      BY <3>1, <3>4 DEF Promise!vars
    <3>. QED BY <2>3, <3>2, <3>3, <3>4 DEF ImportOrFail
  <2>4. CASE ServiceAction /\ ~ImportOrFail
    <3>1. imager' = imager /\ svc # "released"
      BY <2>4 DEF ServiceAction, FirstBootService, Boot, CheckReport,
         CheckMarkers, CopyConsoleKey, provision_host_keys, CreateTls, Bootstrap,
         BootstrapAgain, access_generic_bootstrap, OpenSetup, BecomeClaimable,
         LateLease, Service, image, card
    <3>2. CASE svc' # "released"
      BY <3>1, <3>2 DEF Promise!vars
    <3>3. CASE svc' = "released"
      <4>1. InductiveInv'
        BY InductiveStep
      <4>2. imager = "imported"
        BY <3>1, <3>3, <4>1 DEF InductiveInv, ServiceInv, Own
      <4>. QED BY <3>1, <3>3, <4>2 DEF Promise!Next, Promise!Release
    <3>. QED BY <3>2, <3>3
  <2>. QED BY <2>1, <2>2, <2>3, <2>4, NextIsOneOf
<1>. QED BY <1>1, <1>2, InductiveInvCorrect, PTL DEF Spec, VerdictKept, Promise!Spec
==============================================================================
